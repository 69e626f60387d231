------------------------- MODULE SourceStorageProofs -------------------------
(***************************************************************************)
(* What the daemon remembers of its files is what they say, whatever the   *)
(* editor does and whichever call fails: for any files, data, scenarios    *)
(* and bounds.                                                             *)
(*                                                                         *)
(* The argument is about signatures.  A file that is replaced gets one no  *)
(* file had, so content remembered with a signature stays right for as     *)
(* long as the file has that signature: `Says`.                            *)
(***************************************************************************)
EXTENDS SourceStorage, FiniteSetTheorems, TLAPS

Known == (0 .. clock) \cup {Absent}

\* If f is the file of signature s, it says c.
Says(f, s, c) == s # Absent /\ SignatureOf(disk[f]) = s => c = ContentOf(disk[f])

\* The signatures anybody remembers are signatures there were.
RemembersOK ==
  /\ \A f \in Files : /\ disk[f] # Absent => disk[f].sig \in Known
                      /\ internal[f] # None => internal[f] \in Known \ outside
  /\ lastObserved # None => \A f \in Files : lastObserved[f] \in Known
  /\ lastAuthority # None => \A f \in Files : lastAuthority[f] \in Known
  /\ lastCapture # None => \A f \in Files : lastCapture.sigs[f] \in Known
  /\ snapshot # None => \A f \in Files : snapshot.sigs[f] \in Known

(***************************************************************************)
(* The operation                                                           *)
(***************************************************************************)
Collects(o) == o.kind = "capture" /\ (o.at = "after" \/ o.then = "collect")
CollectedOf(o) == IF o.at = "after" THEN Files ELSE Files \ o.todo

\* Its stages, whatever the files say.
StagesOK ==
  /\ answer = None
  /\ op.kind = "authority" <=> op.at = "pass"
  /\ op.at \in {"before", "after"} \/ op.then \in {"collect", "create"} => op.kind = "capture"
  /\ op.then = "collect" => op.at \in {"read", "write", "verify", "after"}
  /\ op.kind = "capture" /\ (op.at # "before" \/ op.tries > 0) => snapshot = None
  /\ op.kind = "capture" /\ op.at \in {"read", "write", "verify"} =>
       op.then \in {"collect", "create"} /\ (op.then = "collect" => op.todo # {})
  /\ op.at \in {"write", "verify"} => op.put # None
  /\ op.at \in {"write", "verify"} /\ op.then # "answer" => op.f \in op.todo
  /\ op.then = "put" => op.data \in Data

\* The signatures it has seen, and the one of its write.
SigsOK ==
  /\ \A f \in Files : op.first[f] \in Known \cup {None} /\ op.seen[f] \in Known \cup {None}
  /\ op.at \in {"before", "after", "pass"} => \A f \in Files \ op.todo : op.seen[f] # None
  /\ Collects(op) \/ (op.at = "pass" /\ op.pass > 1) => \A f \in Files : op.first[f] # None
  /\ op.at = "verify" => op.sig \in Known \ outside /\ Says(op.f, op.sig, op.put)

OpOK == op # None => StagesOK /\ SigsOK

\* What a capture has collected goes with the signatures it saw first.
CollectedOK ==
  op # None /\ Collects(op) =>
    \A f \in CollectedOf(op) : op.got[f] \in Content /\ Says(f, op.first[f], op.got[f])

\* What an authority read read of f goes with the signature s it saw with it, and so do the
\* settings that may be served if they were identified by that signature.
ReadAs(f, s) ==
  /\ Says(f, s, op.got[f]) /\ op.got[f] # None
  /\ op.got[f] = Absent <=> s = Absent
  /\ f \in Settings /\ lastAuthority # None /\ Usable(f) /\ lastAuthority[f] = s /\ s # Absent
     => cache[f] = op.got[f]

AuthorityOK ==
  op # None /\ op.kind = "authority" =>
    /\ op.pass < 3 => \A f \in Files \ op.todo : ReadAs(f, op.seen[f])
    /\ op.pass = 3 => \A f \in Files : ReadAs(f, op.first[f])

(***************************************************************************)
(* Memory                                                                  *)
(***************************************************************************)
\* Between the rename and its verification the vector is of the file before.
HonestOf(f) ==
  /\ f \notin down /\ vector[f] # None /\ disk[f] # Absent
  /\ SignatureOf(disk[f]) \notin outside
  /\ ~(op # None /\ op.at = "verify" /\ op.f = f)
  => /\ vector[f] = disk[f].rev
     /\ f \in Settings => cache[f] = ContentOf(disk[f])

\* Settings that may be served and were identified are those of the file identified.
FencedOf(f) ==
  lastAuthority # None /\ Usable(f) => Says(f, lastAuthority[f], cache[f])

SnapshotOK ==
  snapshot # None =>
    /\ \A f \in Files : Says(f, snapshot.sigs[f], snapshot.contents[f])
    /\ lastCapture = [sigs |-> snapshot.sigs, epoch |-> snapshot.epoch]

\* The epoch has moved if the editor's file seen last is not the one captured last.
EpochOK ==
  lastCapture # None =>
    /\ lastObserved # None /\ externalEpoch >= lastCapture.epoch
    /\ \A f \in Files : lastObserved[f] \in outside /\ lastObserved[f] # lastCapture.sigs[f]
                        => externalEpoch > lastCapture.epoch

MemoryOK ==
  /\ \A f \in Files : HonestOf(f)
  /\ \A f \in Settings : FencedOf(f)
  /\ SnapshotOK /\ EpochOK /\ AuthorityFencesCaches

(***************************************************************************)
(* The moment an answer is of.  While the file has the signature s, or if  *)
(* it was seen with it again, i has what goes with s.                      *)
(***************************************************************************)
Covers(i, f, s, c) ==
  /\ Says(f, s, i[f])
  /\ f \notin op.todo /\ s # Absent /\ op.seen[f] = s => i[f] = c

ReuseMoment ==
  \E i \in instants : \A f \in Files : Covers(i, f, snapshot.sigs[f], snapshot.contents[f])

CollectMoment ==
  \E i \in instants : \A f \in Files :
    IF op.at = "after" THEN Covers(i, f, op.first[f], op.got[f]) ELSE Says(f, op.first[f], i[f])

\* The moment g was read the second time.
AuthorityMoment(g) ==
  \E i \in instants :
    /\ i[g] = op.got[g]
    /\ \A f \in Files :
         IF op.pass = 2 THEN Says(f, op.first[f], i[f]) ELSE Covers(i, f, op.first[f], op.got[f])

InstantsOK ==
  Answers(op) =>
    /\ Contents(disk) \in instants
    /\ op.at = "before" /\ snapshot # None => ReuseMoment
    /\ Collects(op) => CollectMoment
    /\ op.at = "pass" =>
         \A g \in Files : op.pass = 3 \/ (op.pass = 2 /\ g \notin op.todo) => AuthorityMoment(g)

StorageInv ==
  TypeOK /\ RemembersOK /\ OpOK /\ CollectedOK /\ AuthorityOK /\ MemoryOK /\ InstantsOK
-------------------------------------------------------------------------------
(* The records of an operation *)

LEMMA BegunIs ==
  ASSUME NEW k \in {"load", "save", "capture", "authority"},
         NEW a \in {"read", "before", "pass"}, NEW todo \in SUBSET Files
  PROVE  LET p == Begun(k, a, todo)
         IN /\ p \in Operation /\ p.kind = k /\ p.at = a /\ p.then = "answer" /\ p.todo = todo
            /\ p.tries = 0 /\ p.pass = 1 /\ p.first = Nothing /\ p.seen = Nothing
BY StorageConstants DEF Begun, Operation, Nothing

LEMMA NoneIs == None \notin Signature
BY StorageConstants DEF Signature, Revision

LEMMA WritableIs == Writable \subseteq Content /\ None \notin Writable
BY StorageConstants DEF Writable, Content

-------------------------------------------------------------------------------
(* Signatures *)

\* Every step: a file stays, goes, or is another one with a signature no file had.
Moves ==
  /\ clock' \in Nat /\ clock' >= clock
  /\ \A s \in Known : s \in outside' <=> s \in outside
  /\ \A f \in Files : disk'[f] = disk[f] \/ SignatureOf(disk'[f]) \notin Known \ {Absent}

Quiet == UNCHANGED <<disk, outside, clock>>

LEMMA SignatureKnown ==
  ASSUME TypeOK, RemembersOK, NEW f \in Files
  PROVE  /\ SignatureOf(disk[f]) \in Known /\ SignatureOf(disk[f]) \in Signature
         /\ ContentOf(disk[f]) \in Content \cup {Absent}
         /\ SignatureOf(disk[f]) = Absent <=> disk[f] = Absent
         /\ ContentOf(disk[f]) = Absent <=> disk[f] = Absent
         /\ disk[f] # Absent => /\ ContentOf(disk[f]) \in Content /\ SignatureOf(disk[f]) \in Nat
                                /\ SignatureOf(disk[f]) = disk[f].sig
                                /\ ContentOf(disk[f]).rev = disk[f].rev
                                /\ ContentOf(disk[f]).data = disk[f].data
<1>1. disk[f] \in Stored \cup {Absent}
  BY DEF TypeOK
<1>2. CASE disk[f] = Absent
  BY <1>2, StorageConstants DEF SignatureOf, ContentOf, Known, Signature
<1>3. CASE disk[f] # Absent
  <2>1. disk[f].sig \in Nat /\ disk[f].sig # Absent /\ disk[f].sig \in Known
    BY <1>1, <1>3, StorageConstants DEF Stored, RemembersOK
  <2>2. [data |-> disk[f].data, rev |-> disk[f].rev] \in Content
    BY <1>1, <1>3 DEF Stored, Content, Revision
  <2>3. ContentOf(disk[f]) = [data |-> disk[f].data, rev |-> disk[f].rev]
    BY <1>3 DEF ContentOf
  <2>4. ContentOf(disk[f]).rev = disk[f].rev /\ ContentOf(disk[f]).data = disk[f].data
    BY <2>3
  <2> QED
    BY <1>3, <2>1, <2>2, <2>3, <2>4, StorageConstants DEF SignatureOf, Signature
<1> QED
  BY <1>2, <1>3

LEMMA QuietMoves ==
  ASSUME TypeOK, Quiet
  PROVE  Moves /\ Known' = Known
BY DEF TypeOK, Quiet, Moves, Known

LEMMA KnownGrows ==
  ASSUME TypeOK, Moves
  PROVE  /\ Known \subseteq Known' /\ Known \ outside \subseteq Known' \ outside'
         /\ \A s \in Known \ {Absent} : s \in outside' <=> s \in outside
<1>1. Known \subseteq Known'
  BY DEF TypeOK, Moves, Known
<1> QED
  BY <1>1 DEF Moves

\* A new file replaces f.
LEMMA ReplaceMoves ==
  ASSUME TypeOK, NEW f \in Files, NEW d \in Stored \cup {Absent},
         d # Absent => d.sig = clock + 1,
         disk' = [disk EXCEPT ![f] = d], clock' = clock + 1,
         outside' \in {outside, outside \cup {clock + 1}}
  PROVE  Moves /\ disk' \in [Files -> Stored \cup {Absent}] /\ outside' \subseteq 1 .. clock'
<1>1. clock \in Nat /\ clock + 1 \notin Known
  BY StorageConstants DEF TypeOK, Known
<1>2. SignatureOf(d) \notin Known \ {Absent}
  BY <1>1 DEF SignatureOf
<1>3. \A s \in Known : s \in outside' <=> s \in outside
  BY <1>1
<1>4. disk' \in [Files -> Stored \cup {Absent}]
  BY DEF TypeOK
<1>5. outside' \subseteq 1 .. clock'
  BY DEF TypeOK
<1>6. \A g \in Files : disk'[g] = disk[g] \/ SignatureOf(disk'[g]) \notin Known \ {Absent}
  BY <1>2 DEF TypeOK
<1> QED
  BY <1>1, <1>3, <1>4, <1>5, <1>6 DEF Moves

\* What was said by the file of a signature there was goes on being said by it.
LEMMA SaysStays ==
  ASSUME Moves, NEW f \in Files, NEW s \in Known, NEW c, Says(f, s, c),
         s # Absent, SignatureOf(disk'[f]) = s
  PROVE  c = ContentOf(disk'[f]) /\ disk'[f] = disk[f]
BY DEF Moves, Says

SaysNext(f, s, c) == s # Absent /\ SignatureOf(disk'[f]) = s => c = ContentOf(disk'[f])

LEMMA SaysOn ==
  ASSUME Moves, NEW f \in Files, NEW s \in Known, NEW c, Says(f, s, c)
  PROVE  SaysNext(f, s, c)
BY SaysStays DEF SaysNext
-------------------------------------------------------------------------------
(* What is remembered while the files move *)

LEMMA RemembersKept ==
  ASSUME TypeOK, RemembersOK, TypeOK', Moves,
         \A f \in Files : disk'[f] # Absent => disk'[f].sig \in Known',
         \A f \in Files : internal'[f] \in {internal[f], None},
         lastObserved' = lastObserved, lastAuthority' = lastAuthority, lastCapture' = lastCapture,
         snapshot' \in {snapshot, None}
  PROVE  RemembersOK'
BY KnownGrows DEF RemembersOK

\* A file whose content is in the vector and the cache, or that is not available.
Replaced(f) ==
  \/ f \in down'
  \/ disk'[f] = Absent \/ SignatureOf(disk'[f]) \in outside'
  \/ op' # None /\ op'.at = "verify" /\ op'.f = f
  \/ vector'[f] = disk'[f].rev /\ (f \in Settings => cache'[f] = ContentOf(disk'[f]))

Untouched(f) ==
  /\ disk'[f] = disk[f] /\ vector'[f] = vector[f]
  /\ f \in down => f \in down'
  /\ f \in Settings => cache'[f] = cache[f]
  /\ ~(op # None /\ op.at = "verify" /\ op.f = f)

LEMMA HonestKept ==
  ASSUME TypeOK, RemembersOK, Moves, NEW f \in Files, HonestOf(f), Replaced(f) \/ Untouched(f)
  PROVE  HonestOf(f)'
<1>1. CASE Replaced(f)
  BY <1>1 DEF Replaced, HonestOf
<1>2. CASE Untouched(f)
  <2>1. disk[f] # Absent => (SignatureOf(disk[f]) \in outside' <=> SignatureOf(disk[f]) \in outside)
    BY SignatureKnown DEF Moves
  <2> QED
    BY <1>2, <2>1 DEF Untouched, HonestOf
<1> QED
  BY <1>1, <1>2

LEMMA FencedKept ==
  ASSUME RemembersOK, Moves, NEW f \in Settings, FencedOf(f), lastAuthority' = lastAuthority,
         \/ f \in down' \/ cache'[f] = ContentOf(disk'[f])
         \/ cache'[f] \in {cache[f], None} /\ (f \in down => f \in down')
  PROVE  FencedOf(f)'
<1> SUFFICES ASSUME lastAuthority # None, Usable(f)', lastAuthority[f] # Absent,
                    SignatureOf(disk'[f]) = lastAuthority[f], cache'[f] # ContentOf(disk'[f])
             PROVE  FALSE
  BY DEF FencedOf, Says
<1>1. cache'[f] = cache[f] /\ Usable(f)
  BY DEF Usable
<1>2. f \in Files /\ lastAuthority[f] \in Known /\ Says(f, lastAuthority[f], cache[f])
  BY <1>1 DEF RemembersOK, FencedOf, Settings
<1> QED
  BY <1>1, <1>2, SaysStays

LEMMA SnapshotKept ==
  ASSUME RemembersOK, Moves, SnapshotOK, snapshot' \in {snapshot, None}, lastCapture' = lastCapture
  PROVE  SnapshotOK'
<1> SUFFICES ASSUME snapshot' = snapshot, snapshot # None, NEW f \in Files,
                    snapshot.sigs[f] # Absent, SignatureOf(disk'[f]) = snapshot.sigs[f]
             PROVE  snapshot.contents[f] = ContentOf(disk'[f])
  BY DEF SnapshotOK, Says
<1>1. snapshot.sigs[f] \in Known /\ Says(f, snapshot.sigs[f], snapshot.contents[f])
  BY DEF SnapshotOK, RemembersOK
<1> QED
  BY <1>1, SaysStays

LEMMA EpochKept ==
  ASSUME RemembersOK, Moves, EpochOK, UNCHANGED <<lastCapture, lastObserved, externalEpoch>>
  PROVE  EpochOK'
BY DEF EpochOK, Moves, RemembersOK

\* So a step that publishes nothing and learns nothing keeps the memory right.
LEMMA MemoryKept ==
  ASSUME TypeOK, RemembersOK, Moves, MemoryOK,
         UNCHANGED <<lastAuthority, lastCapture, lastObserved, externalEpoch>>,
         snapshot' \in {snapshot, None},
         \A f \in Files : Replaced(f) \/ Untouched(f),
         \A f \in Settings : \/ f \in down' \/ cache'[f] = ContentOf(disk'[f])
                             \/ cache'[f] \in {cache[f], None} /\ (f \in down => f \in down'),
         AuthorityFencesCaches'
  PROVE  MemoryOK'
BY HonestKept, FencedKept, SnapshotKept, EpochKept DEF MemoryOK

\* The editor
LEMMA EditTypes ==
  ASSUME StorageInv, scenario' = scenario, NEW f \in Files, Edit(f)
  PROVE  /\ TypeOK' /\ Moves
         /\ \A g \in Files : disk'[g] # Absent => disk'[g].sig \in Known'
         /\ \A g \in Files : disk'[g] \in {disk[g], Absent} \/ SignatureOf(disk'[g]) \in outside'
<1>1. PICK d \in Edits(clock + 1) : disk' = [disk EXCEPT ![f] = d] /\ clock' = clock + 1
  BY DEF Edit, DiskBecomes
<1>2. d \in Stored \cup {Absent} /\ (d # Absent => d.sig = clock + 1)
  <2>1. clock + 1 \in Nat
    BY DEF StorageInv, TypeOK
  <2>2. ASSUME NEW t \in scenario.texts
        PROVE  [data |-> t.data, rev |-> t.rev, form |-> t.form, sig |-> clock + 1] \in Stored
    BY <2>1, StorageConstants DEF StorageInv, TypeOK, Scenario, Text, Stored, Revision
  <2> QED
    BY <2>2 DEF Edits
<1>3. Moves /\ disk' \in [Files -> Stored \cup {Absent}] /\ outside' \subseteq 1 .. clock'
  BY <1>1, <1>2, ReplaceMoves DEF Edit, StorageInv
<1>4. TypeOK'
  BY <1>1, <1>3 DEF Edit, TypeOK, StorageInv, memory, vectorVars, freshnessVars, epochVars
<1>5. \A g \in Files : disk'[g] # Absent => disk'[g].sig \in Known'
  <2>1. clock \in Nat /\ Known \subseteq Known' /\ clock + 1 \in Known'
    BY <1>1, <1>3, KnownGrows DEF StorageInv, TypeOK, Known
  <2> QED
    BY <1>1, <1>2, <2>1 DEF StorageInv, TypeOK, RemembersOK
<1>6. \A g \in Files : disk'[g] \in {disk[g], Absent} \/ SignatureOf(disk'[g]) \in outside'
  BY <1>1, <1>2 DEF Edit, SignatureOf, StorageInv, TypeOK
<1> QED
  BY <1>3, <1>4, <1>5, <1>6

\* What an operation knows stays right while the editor works.
LEMMA EditOp ==
  ASSUME StorageInv, TypeOK', Moves, UNCHANGED <<op, answer, memory>>
  PROVE  OpOK' /\ CollectedOK' /\ AuthorityOK'
<1> USE DEF StorageInv
<1>1. CASE op = None
  BY <1>1 DEF OpOK, CollectedOK, AuthorityOK
<1> SUFFICES ASSUME op # None PROVE OpOK' /\ CollectedOK' /\ AuthorityOK'
  BY <1>1
<1> USE DEF memory, freshnessVars
<1>2. Known \subseteq Known' /\ Known \ outside \subseteq Known' \ outside'
  BY KnownGrows
<1>3. OpOK'
  <2>1. op.at = "verify" => SaysNext(op.f, op.sig, op.put)
    BY SaysOn DEF OpOK, SigsOK, TypeOK, Operation
  <2>2. SigsOK'
    BY <1>2, <2>1 DEF OpOK, SigsOK, Collects, Says, SaysNext
  <2>3. StagesOK'
    BY DEF OpOK, StagesOK
  <2> QED
    BY <2>2, <2>3 DEF OpOK
<1>4. CollectedOK'
  <2>1. ASSUME Collects(op), NEW f \in CollectedOf(op) PROVE SaysNext(f, op.first[f], op.got[f])
    <3>1. f \in Files /\ op.first[f] \in Known /\ Says(f, op.first[f], op.got[f])
      BY <2>1 DEF OpOK, SigsOK, CollectedOK, CollectedOf
    <3> QED
      BY <3>1, SaysOn
  <2> QED
    BY <2>1 DEF CollectedOK, Collects, CollectedOf, Says, SaysNext
<1>5. AuthorityOK'
  <2>1. ASSUME op.kind = "authority", NEW f \in Files, f \notin op.todo, op.pass < 3
        PROVE  ReadAs(f, op.seen[f])'
    <3>1. op.seen[f] \in Known /\ ReadAs(f, op.seen[f])
      BY <2>1 DEF OpOK, StagesOK, SigsOK, AuthorityOK
    <3>2. SaysNext(f, op.seen[f], op.got[f])
      BY <3>1, SaysOn DEF ReadAs
    <3> QED
      BY <3>1, <3>2 DEF ReadAs, Says, SaysNext, Usable, vectorVars
  <2>2. ASSUME op.kind = "authority", NEW f \in Files, op.pass = 3
        PROVE  ReadAs(f, op.first[f])'
    <3>1. op.first[f] \in Known /\ ReadAs(f, op.first[f])
      BY <2>2 DEF OpOK, StagesOK, SigsOK, AuthorityOK
    <3>2. SaysNext(f, op.first[f], op.got[f])
      BY <3>1, SaysOn DEF ReadAs
    <3> QED
      BY <3>1, <3>2 DEF ReadAs, Says, SaysNext, Usable, vectorVars
  <2> QED
    BY <2>1, <2>2 DEF AuthorityOK
<1> QED
  BY <1>3, <1>4, <1>5

LEMMA CoversOn ==
  ASSUME Moves, op' = op, NEW i, NEW f \in Files, NEW s \in Known, NEW c, Covers(i, f, s, c)
  PROVE  /\ SaysNext(f, s, i[f])
         /\ f \notin op'.todo /\ s # Absent /\ op'.seen[f] = s => i[f] = c
BY SaysOn DEF Covers

LEMMA EditInstants ==
  ASSUME StorageInv, Moves, UNCHANGED <<op, answer, memory>>,
         Answers(op) => instants' = instants \cup {Contents(disk')}
  PROVE  InstantsOK'
<1> SUFFICES ASSUME Answers(op) PROVE InstantsOK'
  BY DEF InstantsOK
<1> USE DEF StorageInv
<1>1. op # None /\ StagesOK /\ SigsOK /\ instants \subseteq instants' /\ Contents(disk') \in instants'
  BY DEF Answers, OpOK
<1>2. ASSUME op.at = "before", snapshot # None PROVE ReuseMoment'
  <2>1. PICK i \in instants : \A f \in Files : Covers(i, f, snapshot.sigs[f], snapshot.contents[f])
    BY <1>2 DEF InstantsOK, ReuseMoment
  <2>2. snapshot' = snapshot
    BY DEF memory, freshnessVars
  <2>3. \A f \in Files : snapshot.sigs[f] \in Known
    BY <1>2 DEF RemembersOK
  <2>4. \A f \in Files : /\ SaysNext(f, snapshot.sigs[f], i[f])
                         /\ f \notin op'.todo /\ snapshot.sigs[f] # Absent /\ op'.seen[f] = snapshot.sigs[f]
                            => i[f] = snapshot.contents[f]
    BY <2>1, <2>3, CoversOn
  <2> QED
    BY <1>1, <2>2, <2>4 DEF ReuseMoment, Covers, Says, SaysNext
<1>3. ASSUME Collects(op) PROVE CollectMoment'
  <2>1. \A f \in Files : op.first[f] \in Known
    BY <1>1, <1>3 DEF SigsOK
  <2>2. CASE op.at = "after"
    <3>1. PICK i \in instants : \A f \in Files : Covers(i, f, op.first[f], op.got[f])
      BY <1>3, <2>2 DEF InstantsOK, CollectMoment
    <3>2. \A f \in Files : /\ SaysNext(f, op.first[f], i[f])
                           /\ f \notin op'.todo /\ op.first[f] # Absent /\ op'.seen[f] = op.first[f]
                              => i[f] = op.got[f]
      BY <2>1, <3>1, CoversOn
    <3> QED
      BY <1>1, <2>2, <3>2 DEF CollectMoment, Covers, Says, SaysNext
  <2>3. CASE op.at # "after"
    <3>1. PICK i \in instants : \A f \in Files : Says(f, op.first[f], i[f])
      BY <1>3, <2>3 DEF InstantsOK, CollectMoment
    <3>2. \A f \in Files : SaysNext(f, op.first[f], i[f])
      BY <2>1, <3>1, SaysOn
    <3> QED
      BY <1>1, <2>3, <3>2 DEF CollectMoment, Says, SaysNext
  <2> QED
    BY <2>2, <2>3
<1>4. ASSUME op.at = "pass", NEW g \in Files, AuthorityMoment(g), op.pass \in {2, 3}
      PROVE  AuthorityMoment(g)'
  <2>1. \A f \in Files : op.first[f] \in Known
    BY <1>1, <1>4 DEF SigsOK
  <2>2. PICK i \in instants :
          /\ i[g] = op.got[g]
          /\ \A f \in Files : IF op.pass = 2 THEN Says(f, op.first[f], i[f])
                              ELSE Covers(i, f, op.first[f], op.got[f])
    BY <1>4 DEF AuthorityMoment
  <2>3. CASE op.pass = 2
    <3>1. \A f \in Files : SaysNext(f, op.first[f], i[f])
      BY <2>1, <2>2, <2>3, SaysOn
    <3> QED
      BY <1>1, <2>2, <2>3, <3>1 DEF AuthorityMoment, Says, SaysNext
  <2>4. CASE op.pass # 2
    <3>1. \A f \in Files : /\ SaysNext(f, op.first[f], i[f])
                           /\ f \notin op'.todo /\ op.first[f] # Absent /\ op'.seen[f] = op.first[f]
                              => i[f] = op.got[f]
      BY <2>1, <2>2, <2>4, CoversOn
    <3> QED
      BY <1>1, <2>2, <2>4, <3>1 DEF AuthorityMoment, Covers, Says, SaysNext
  <2> QED
    BY <2>3, <2>4
<1>5. op.at = "pass" =>
        \A g \in Files : op.pass = 3 \/ (op.pass = 2 /\ g \notin op.todo) => AuthorityMoment(g)'
  BY <1>4 DEF InstantsOK
<1> QED
  BY <1>1, <1>2, <1>3, <1>5 DEF InstantsOK, Collects, memory, freshnessVars

LEMMA EditKeeps ==
  ASSUME StorageInv, scenario' = scenario, NEW f \in Files, Edit(f)
  PROVE  StorageInv'
<1>1. /\ TypeOK' /\ Moves
      /\ \A g \in Files : disk'[g] # Absent => disk'[g].sig \in Known'
      /\ \A g \in Files : disk'[g] \in {disk[g], Absent} \/ SignatureOf(disk'[g]) \in outside'
  BY EditTypes
<1>2. UNCHANGED <<op, answer, memory>> /\ (Answers(op) => instants' = instants \cup {Contents(disk')})
  BY DEF Edit, InstantSeen
<1>3. RemembersOK'
  BY <1>1, <1>2, RemembersKept DEF StorageInv, memory, freshnessVars, epochVars
<1>4. MemoryOK'
  <2>1. \A g \in Files : Replaced(g) \/ disk'[g] = disk[g]
    BY <1>1 DEF Replaced
  <2>2. \A g \in Files : Replaced(g) \/ Untouched(g)
    BY <1>2, <2>1 DEF memory, vectorVars, Untouched, Replaced
  <2>3. AuthorityFencesCaches'
    BY <1>2 DEF memory, vectorVars, AuthorityFencesCaches, Usable, StorageInv, MemoryOK
  <2> QED
    BY <1>1, <1>2, <2>2, <2>3, MemoryKept
       DEF StorageInv, memory, vectorVars, freshnessVars, epochVars
<1> QED
  BY <1>1, <1>2, <1>3, <1>4, EditOp, EditInstants DEF StorageInv
-------------------------------------------------------------------------------
(* Starting an operation *)

LEMMA Ended ==
  ASSUME op' = None
  PROVE  OpOK' /\ CollectedOK' /\ AuthorityOK' /\ InstantsOK'
BY DEF OpOK, CollectedOK, AuthorityOK, InstantsOK, Answers

\* A load or a save has only its stages and its write.
LEMMA LoadOrSave ==
  ASSUME op' # None, op'.kind \in {"load", "save"}, StagesOK', SigsOK'
  PROVE  OpOK' /\ CollectedOK' /\ AuthorityOK' /\ InstantsOK'
<1>1. op'.kind \notin {"capture", "authority"}
  OBVIOUS
<1> QED
  BY <1>1 DEF OpOK, CollectedOK, Collects, AuthorityOK, InstantsOK, Answers

\* Nothing but the cached settings of unavailable sources goes when an operation starts.
LEMMA StartMemory ==
  ASSUME StorageInv, op = None, Quiet, TypeOK', answer' = None,
         UNCHANGED <<vectorVars, established, freshnessVars, epochVars, lastAuthority, lastCapture>>,
         \A f \in Settings : cache'[f] = cache[f] \/ (cache'[f] = None /\ f \in down)
  PROVE  RemembersOK' /\ MemoryOK'
<1> USE DEF StorageInv, vectorVars, freshnessVars, epochVars
<1>1. Moves /\ Known' = Known
  BY QuietMoves
<1>2. RemembersOK'
  BY <1>1, RemembersKept DEF RemembersOK, Quiet
<1>3. \A f \in Files : Replaced(f) \/ Untouched(f)
  BY DEF Replaced, Untouched, Quiet
<1>4. AuthorityFencesCaches'
  BY DEF AuthorityFencesCaches
<1> QED
  BY <1>1, <1>2, <1>3, <1>4, MemoryKept

LEMMA StartLoadKeeps ==
  ASSUME StorageInv, scenario' = scenario, NEW f \in Files, StartLoad(f)
  PROVE  StorageInv'
<1> USE DEF StorageInv
<1>1. op = None /\ Quiet /\ answer' = None /\ op' = [Begun("load", "read", {f}) EXCEPT !.f = f]
  BY DEF StartLoad, Idle, Begin, Quiet
<1>2. /\ op' \in Operation /\ op'.kind = "load" /\ op'.at = "read" /\ op'.then = "answer"
      /\ op'.first = Nothing /\ op'.seen = Nothing
  <2>1. PICK q : q = Begun("load", "read", {f})
    OBVIOUS
  <2>2. /\ q \in Operation /\ q.kind = "load" /\ q.at = "read" /\ q.then = "answer"
        /\ q.first = Nothing /\ q.seen = Nothing
    BY <2>1, BegunIs
  <2>3. op' = [q EXCEPT !.f = f]
    BY <1>1, <2>1
  <2> QED
    BY <2>2, <2>3 DEF Operation
<1>3. TypeOK'
  BY <1>1, <1>2 DEF StartLoad, TypeOK, Withdrawn, Quiet, vectorVars, freshnessVars, epochVars
<1>4. RemembersOK' /\ MemoryOK'
  BY <1>1, <1>3, StartMemory DEF StartLoad, Withdrawn
<1>5. StagesOK' /\ SigsOK'
  BY <1>1, <1>2 DEF StagesOK, SigsOK, Nothing, Collects
<1> QED
  BY <1>2, <1>3, <1>4, <1>5, LoadOrSave, StorageConstants

LEMMA StartSaveOp ==
  ASSUME TypeOK, NEW f \in Files, NEW x \in Data, StartSave(f, x)
  PROVE  /\ op' \in Operation /\ op'.kind = "save" /\ op'.first = Nothing /\ op'.seen = Nothing
         /\ \/ op'.at = "write" /\ op'.then = "answer" /\ op'.put # None
            \/ op'.at = "read" /\ op'.then = "put" /\ op'.data = x
<1>1. PICK q : q = Begun("save", "read", {f})
  OBVIOUS
<1>2. PICK o : o = [q EXCEPT !.f = f, !.data = x, !.then = "put"]
  OBVIOUS
<1>3. PICK c : c = [data |-> x, rev |-> cache[f].rev + 1]
  OBVIOUS
<1>4. op' = IF Usable(f) THEN [o EXCEPT !.at = "write", !.then = "answer", !.put = c] ELSE o
  BY <1>1, <1>2, <1>3 DEF StartSave, Begin
<1>5. q \in Operation /\ q.kind = "save" /\ q.at = "read" /\ q.first = Nothing /\ q.seen = Nothing
  BY <1>1, BegunIs
<1>6. /\ o \in Operation /\ o.kind = "save" /\ o.at = "read" /\ o.then = "put" /\ o.data = x
      /\ o.first = Nothing /\ o.seen = Nothing
  BY <1>2, <1>5 DEF Operation
<1>7. CASE ~Usable(f)
  BY <1>4, <1>6, <1>7
<1>8. CASE Usable(f)
  <2>1. cache[f] \in Content
    BY <1>8 DEF Usable, TypeOK, Settings
  <2>2. c \in Writable
    BY <1>3, <2>1 DEF Content, Writable, Revision
  <2>3. op' = [o EXCEPT !.at = "write", !.then = "answer", !.put = c]
    BY <1>4, <1>8
  <2> QED
    BY <1>6, <2>2, <2>3, WritableIs DEF Operation
<1> QED
  BY <1>7, <1>8

LEMMA StartSaveKeeps ==
  ASSUME StorageInv, scenario' = scenario, NEW f \in Files, NEW x \in Data, StartSave(f, x)
  PROVE  StorageInv'
<1> USE DEF StorageInv
<1>1. op = None /\ Quiet /\ answer' = None /\ UNCHANGED memory
  BY DEF StartSave, Idle, Begin, Quiet
<1>2. /\ op' \in Operation /\ op'.kind = "save" /\ op'.first = Nothing /\ op'.seen = Nothing
      /\ \/ op'.at = "write" /\ op'.then = "answer" /\ op'.put # None
         \/ op'.at = "read" /\ op'.then = "put" /\ op'.data = x
  BY StartSaveOp
<1>3. TypeOK'
  BY <1>1, <1>2 DEF TypeOK, Quiet, memory, vectorVars, freshnessVars, epochVars
<1>4. RemembersOK' /\ MemoryOK'
  BY <1>1, <1>3, StartMemory DEF memory
<1>5. StagesOK' /\ SigsOK'
  BY <1>1, <1>2, StorageConstants DEF StagesOK, SigsOK, Nothing, Collects
<1> QED
  BY <1>2, <1>3, <1>4, <1>5, LoadOrSave, StorageConstants

LEMMA StartReadingKeeps ==
  ASSUME StorageInv, scenario' = scenario, StartCapture \/ StartAuthority
  PROVE  StorageInv'
<1> USE DEF StorageInv
<1>1. op = None /\ Quiet /\ answer' = None /\ UNCHANGED memory
  BY DEF StartCapture, StartAuthority, Idle, Begin, Quiet
<1>2. /\ op' \in Operation /\ op'.kind \in {"capture", "authority"}
      /\ op'.at = IF op'.kind = "capture" THEN "before" ELSE "pass"
      /\ op'.then = "answer" /\ op'.todo = Files /\ op'.tries = 0 /\ op'.pass = 1
      /\ op'.first = Nothing /\ op'.seen = Nothing
  <2>1. CASE StartCapture
    <3>1. op' = Begun("capture", "before", Files)
      BY <2>1 DEF StartCapture, Begin
    <3> QED
      BY <3>1, BegunIs
  <2>2. CASE StartAuthority
    <3>1. op' = Begun("authority", "pass", Files)
      BY <2>2 DEF StartAuthority, Begin
    <3> QED
      BY <3>1, BegunIs
  <2> QED
    BY <2>1, <2>2
<1>3. op' # None
  BY <1>2, StorageConstants
<1>4. TypeOK'
  BY <1>1, <1>2 DEF TypeOK, Quiet, memory, vectorVars, freshnessVars, epochVars
<1>5. RemembersOK' /\ MemoryOK'
  BY <1>1, <1>4, StartMemory DEF memory
<1>6. OpOK'
  BY <1>1, <1>2 DEF OpOK, StagesOK, SigsOK, Nothing, Collects
<1>7. CollectedOK' /\ AuthorityOK'
  BY <1>2 DEF CollectedOK, Collects, AuthorityOK
<1>8. instants' = {Contents(disk)} /\ disk' = disk
  BY <1>2, <1>3 DEF StartCapture, StartAuthority, Begin, Answers, Idle
<1>9. InstantsOK'
  <2>1. \A f \in Files : Contents(disk)[f] = ContentOf(disk'[f])
    BY <1>8 DEF Contents
  <2>2. ReuseMoment'
    BY <1>2, <1>8, <2>1 DEF ReuseMoment, Covers, Says
  <2> QED
    BY <1>2, <1>8, <2>2 DEF InstantsOK, Collects
<1> QED
  BY <1>4, <1>5, <1>6, <1>7, <1>9
-------------------------------------------------------------------------------
(* Reading and writing *)

\* Another attempt, from the start, or none.
LEMMA Attempted ==
  ASSUME NEW o \in Operation, NEW a \in {"before", "pass"}, NextAttempt(o, a)
  PROVE  \/ op' = None /\ answer' = None
         \/ /\ op' \in Operation /\ op' # None /\ op'.kind = o.kind /\ UNCHANGED <<answer, instants>>
            /\ op'.at = a /\ op'.then = "answer" /\ op'.todo = Files /\ op'.tries > 0 /\ op'.pass = 1
            /\ op'.first = Nothing /\ op'.seen = Nothing
<1>1. CASE ~(o.tries + 1 < Attempts)
  BY <1>1 DEF NextAttempt, Finished
<1>2. CASE o.tries + 1 < Attempts
  <2>1. PICK q, n : q = Begun(o.kind, a, Files) /\ n = o.tries + 1
    OBVIOUS
  <2>2. n \in 0 .. Attempts - 1 /\ n > 0 /\ o.kind \in {"load", "save", "capture", "authority"}
    BY <1>2, <2>1, StorageConstants DEF Operation
  <2>3. /\ q \in Operation /\ q.kind = o.kind /\ q.at = a /\ q.then = "answer" /\ q.todo = Files
        /\ q.pass = 1 /\ q.first = Nothing /\ q.seen = Nothing
    BY <2>1, <2>2, BegunIs
  <2>4. op' = [q EXCEPT !.tries = n] /\ UNCHANGED <<answer, instants>>
    BY <1>2, <2>1 DEF NextAttempt, Goes
  <2>5. /\ op' \in Operation /\ op'.kind = q.kind /\ op'.at = q.at /\ op'.then = q.then
        /\ op'.todo = q.todo /\ op'.pass = q.pass /\ op'.tries = n
        /\ op'.first = q.first /\ op'.seen = q.seen
    BY <2>2, <2>3, <2>4 DEF Operation
  <2> QED
    BY <2>2, <2>3, <2>4, <2>5, StorageConstants
<1> QED
  BY <1>1, <1>2

\* How an operation goes on when it has read or written f, which says c.
LEMMA Continued ==
  ASSUME NEW o \in Operation, NEW f \in Files, NEW c \in Content, Continue(o, f, c),
         o.then = "put" => o.data \in Data
  PROVE  \/ op' = None /\ answer' = None
         \/ /\ op' \in Operation /\ op' # None /\ op'.kind = o.kind /\ UNCHANGED <<answer, instants>>
            /\ \/ /\ o.then = "put" /\ op'.at = "write" /\ op'.then = "answer" /\ op'.put # None
                  /\ op'.first = o.first /\ op'.seen = o.seen
               \/ /\ o.then = "collect" /\ op'.then = "collect"
                  /\ op'.first = o.first /\ op'.seen = o.seen /\ op'.got = [o.got EXCEPT ![f] = c]
                  /\ \/ o.todo \ {f} # {} /\ op'.at = "read" /\ op'.todo = o.todo \ {f}
                     \/ o.todo \ {f} = {} /\ op'.at = "after" /\ op'.todo = Files
               \/ /\ o.then = "create" /\ op'.then = "create" /\ op'.at = "read"
                  /\ op'.first = o.first /\ op'.seen = o.seen
               \/ /\ o.then = "create" /\ op'.then = "answer" /\ op'.at = "before"
                  /\ op'.todo = Files /\ op'.tries > 0
                  /\ op'.first = Nothing /\ op'.seen = Nothing
<1>1. o.then \in {"answer", "put", "collect", "create"}
  BY DEF Operation
<1>2. CASE o.then = "answer"
  BY <1>2 DEF Continue, Finished
<1>3. CASE o.then = "put"
  <2>1. PICK d : d = [data |-> o.data, rev |-> c.rev + 1]
    OBVIOUS
  <2>2. d \in Writable
    BY <1>3, <2>1 DEF Content, Writable, Revision
  <2>3. \/ op' = None /\ answer' = None
        \/ /\ op' = [o EXCEPT !.at = "write", !.then = "answer", !.put = d]
           /\ UNCHANGED <<answer, instants>>
    BY <1>3, <2>1 DEF Continue, Finished, Goes
  <2>4. ASSUME op' = [o EXCEPT !.at = "write", !.then = "answer", !.put = d]
        PROVE  /\ op' \in Operation /\ op'.kind = o.kind /\ op'.at = "write" /\ op'.then = "answer"
               /\ op'.put = d /\ op'.first = o.first /\ op'.seen = o.seen
    BY <2>2, <2>4 DEF Operation
  <2> QED
    BY <1>3, <2>2, <2>3, <2>4, WritableIs, StorageConstants
<1>4. CASE o.then = "collect"
  <2>1. PICK t, a : /\ t = IF o.todo \ {f} = {} THEN Files ELSE o.todo \ {f}
                    /\ a = IF o.todo \ {f} = {} THEN "after" ELSE "read"
    OBVIOUS
  <2>2. t \in SUBSET Files /\ a \in {"after", "read"}
    BY <2>1 DEF Operation
  <2>3. op' = [o EXCEPT !.got[f] = c, !.todo = t, !.at = a] /\ UNCHANGED <<answer, instants>>
    BY <1>4, <2>1 DEF Continue, Goes
  <2>4. /\ op' \in Operation /\ op'.kind = o.kind /\ op'.at = a /\ op'.then = "collect"
        /\ op'.todo = t /\ op'.first = o.first /\ op'.seen = o.seen
        /\ op'.got = [o.got EXCEPT ![f] = c]
    BY <1>4, <2>2, <2>3 DEF Operation
  <2> QED
    BY <1>4, <2>1, <2>3, <2>4, StorageConstants
<1>5. CASE o.then = "create"
  <2>1. CASE o.todo \ {f} # {}
    <3>1. PICK t : t = o.todo \ {f}
      OBVIOUS
    <3>2. t \in SUBSET Files
      BY <3>1 DEF Operation
    <3>3. op' = [o EXCEPT !.todo = t, !.at = "read"] /\ UNCHANGED <<answer, instants>>
      BY <1>5, <2>1, <3>1 DEF Continue, Goes
    <3>4. /\ op' \in Operation /\ op'.kind = o.kind /\ op'.at = "read" /\ op'.then = "create"
          /\ op'.first = o.first /\ op'.seen = o.seen
      BY <1>5, <3>2, <3>3 DEF Operation
    <3> QED
      BY <1>5, <3>3, <3>4, StorageConstants
  <2>2. CASE o.todo \ {f} = {}
    <3>1. NextAttempt(o, "before")
      BY <1>5, <2>2 DEF Continue
    <3> QED
      BY <1>5, <3>1, Attempted
  <2> QED
    BY <2>1, <2>2
<1> QED
  BY <1>1, <1>2, <1>3, <1>4, <1>5

\* What was read or written is what the file says; the operation goes on with it.
LEMMA ContinuedKeeps ==
  ASSUME StorageInv, Quiet, op # None, op.at \in {"read", "verify"}, NEW f \in Files,
         op.then # "answer" => f \in op.todo, disk[f] # Absent,
         Continue(op, f, ContentOf(disk[f])), UNCHANGED <<snapshot, lastAuthority>>
  PROVE  OpOK' /\ CollectedOK' /\ AuthorityOK' /\ InstantsOK'
<1> PICK c : c = ContentOf(disk[f])
  OBVIOUS
<1>1. /\ op \in Operation /\ StagesOK /\ SigsOK /\ c \in Content /\ Known' = Known
      /\ disk' = disk /\ outside' = outside
  BY SignatureKnown, QuietMoves DEF StorageInv, TypeOK, OpOK, Quiet
<1>2. CASE op' = None
  BY <1>2, Ended
<1>3. ASSUME op' # None
      PROVE  /\ op' \in Operation /\ op'.kind = op.kind /\ UNCHANGED <<answer, instants>>
             /\ \/ /\ op.then = "put" /\ op'.at = "write" /\ op'.then = "answer" /\ op'.put # None
                   /\ op'.first = op.first /\ op'.seen = op.seen
                \/ /\ op.then = "collect" /\ op'.then = "collect"
                   /\ op'.first = op.first /\ op'.seen = op.seen /\ op'.got = [op.got EXCEPT ![f] = c]
                   /\ \/ op.todo \ {f} # {} /\ op'.at = "read" /\ op'.todo = op.todo \ {f}
                      \/ op.todo \ {f} = {} /\ op'.at = "after" /\ op'.todo = Files
                \/ /\ op.then = "create" /\ op'.then = "create" /\ op'.at = "read"
                   /\ op'.first = op.first /\ op'.seen = op.seen
                \/ /\ op.then = "create" /\ op'.then = "answer" /\ op'.at = "before"
                   /\ op'.todo = Files /\ op'.tries > 0
                   /\ op'.first = Nothing /\ op'.seen = Nothing
  BY <1>1, <1>3, Continued DEF StagesOK
<1>4. ASSUME op' # None, op.then = "put" PROVE StagesOK' /\ SigsOK' /\ op'.kind \in {"load", "save"}
  <2>1. op.kind \in {"load", "save"}
    BY <1>1, <1>4 DEF StagesOK, Operation
  <2> QED
    BY <1>1, <1>3, <1>4, <2>1 DEF StagesOK, SigsOK, Collects
<1>5. ASSUME op' # None, op.then = "create"
      PROVE  OpOK' /\ CollectedOK' /\ AuthorityOK' /\ InstantsOK'
  <2>1. op.kind = "capture" /\ snapshot' = None
    BY <1>1, <1>5 DEF StagesOK
  <2>2. StagesOK' /\ SigsOK'
    BY <1>1, <1>3, <1>5, <2>1 DEF StagesOK, SigsOK, Collects, Nothing
  <2>3. Contents(disk') \in instants'
    BY <1>1, <1>3, <1>5, <2>1 DEF StorageInv, InstantsOK, Answers
  <2> QED
    BY <1>3, <1>5, <2>1, <2>2, <2>3
       DEF OpOK, CollectedOK, Collects, AuthorityOK, InstantsOK
<1>6. ASSUME op' # None, op.then = "collect"
      PROVE  OpOK' /\ CollectedOK' /\ AuthorityOK' /\ InstantsOK'
  <2>1. op.kind = "capture" /\ snapshot' = None /\ Collects(op) /\ op.at # "after"
    BY <1>1, <1>6 DEF StagesOK, Collects
  <2>2. /\ op'.kind = "capture" /\ op'.then = "collect" /\ op'.first = op.first /\ op'.seen = op.seen
        /\ op'.got = [op.got EXCEPT ![f] = c] /\ UNCHANGED <<answer, instants>>
        /\ \/ op.todo \ {f} # {} /\ op'.at = "read" /\ op'.todo = op.todo \ {f}
           \/ op.todo \ {f} = {} /\ op'.at = "after" /\ op'.todo = Files
    BY <1>3, <1>6, <2>1
  <2>3. StagesOK' /\ SigsOK'
    BY <1>1, <2>1, <2>2 DEF StagesOK, SigsOK, Collects
  <2>4. CollectedOK'
    <3>1. \A g \in Files : g \in Files \ op.todo => op.got[g] \in Content /\ Says(g, op.first[g], op.got[g])
      BY <2>1, <1>6 DEF StorageInv, CollectedOK, CollectedOf
    <3>2. ASSUME NEW g \in Files, g \in CollectedOf(op)'
          PROVE  op'.got[g] \in Content /\ SaysNext(g, op'.first[g], op'.got[g])
      <4>1. g = f \/ g \in Files \ op.todo
        BY <2>2, <3>2 DEF CollectedOf
      <4>2. op'.got[g] = IF g = f THEN c ELSE op.got[g]
        BY <1>1, <2>2 DEF Operation
      <4> QED
        BY <1>1, <2>2, <3>1, <4>1, <4>2 DEF Says, SaysNext
    <3>3. CollectedOf(op)' \subseteq Files
      BY DEF CollectedOf
    <3> QED
      BY <3>2, <3>3 DEF CollectedOK, Says, SaysNext, CollectedOf
  <2>5. InstantsOK'
    <3>1. Answers(op) /\ Contents(disk') \in instants'
      BY <1>1, <1>6, <2>1, <2>2 DEF StorageInv, InstantsOK, Answers
    <3>2. PICK i \in instants : \A g \in Files : Says(g, op.first[g], i[g])
      BY <2>1, <3>1 DEF StorageInv, InstantsOK, CollectMoment
    <3>3. CollectMoment'
      BY <1>1, <2>2, <3>2 DEF CollectMoment, Covers, Says
    <3> QED
      BY <2>2, <3>1, <3>3 DEF InstantsOK
  <2> QED
    BY <2>2, <2>3, <2>4, <2>5 DEF OpOK, AuthorityOK
<1> QED
  BY <1>2, <1>3, <1>4, <1>5, <1>6, LoadOrSave

LEMMA PublishedKeeps ==
  ASSUME StorageInv, Quiet, scenario' = scenario, NEW f \in Files, disk[f] # Absent,
         op # None, op.at \in {"read", "verify"}, op.at = "verify" => op.f = f,
         op.then # "answer" => f \in op.todo,
         Published(f, ContentOf(disk[f])), Continue(op, f, ContentOf(disk[f])),
         established' \subseteq Files, unavailablePaths' \subseteq Files,
         internal' \in [Files -> Nat \cup {None}],
         \A g \in Files : internal'[g] # None => internal'[g] \in Known \ outside,
         UNCHANGED <<snapshot, epochVars, lastAuthority, lastCapture>>
  PROVE  StorageInv'
<1> PICK c : c = ContentOf(disk[f])
  OBVIOUS
<1>1. /\ op \in Operation /\ StagesOK /\ c \in Content /\ c.rev = disk[f].rev
      /\ Moves /\ Known' = Known /\ disk' = disk /\ outside' = outside /\ clock' = clock
  BY SignatureKnown, QuietMoves DEF StorageInv, TypeOK, OpOK, Quiet
<1>2. OpOK' /\ CollectedOK' /\ AuthorityOK' /\ InstantsOK'
  BY ContinuedKeeps
<1>3. op' \in Operation \cup {None} /\ answer' = None
  BY <1>1, Continued DEF StagesOK
<1>4. /\ cache' = IF f = Collection THEN cache ELSE [cache EXCEPT ![f] = c]
      /\ vector' = [vector EXCEPT ![f] = c.rev]
      /\ down' = down \ {f}
  BY DEF Published
<1>5. TypeOK'
  <2>1. c.rev \in Revision
    BY <1>1 DEF Content
  <2> QED
    BY <1>1, <1>3, <1>4, <2>1 DEF StorageInv, TypeOK, epochVars
<1>6. RemembersOK'
  BY <1>1 DEF StorageInv, RemembersOK, epochVars
<1>7. MemoryOK'
  <2>1. Replaced(f)
    BY <1>1, <1>4 DEF Replaced, StorageInv, TypeOK, Settings
  <2>2. ASSUME NEW g \in Files, g # f PROVE Untouched(g)
    BY <1>1, <1>4, <2>2 DEF Untouched, StorageInv, TypeOK, Settings
  <2>3. ASSUME NEW g \in Settings
        PROVE  \/ g \in down' \/ cache'[g] = ContentOf(disk'[g])
               \/ cache'[g] \in {cache[g], None} /\ (g \in down => g \in down')
    BY <1>1, <1>4 DEF StorageInv, TypeOK, Settings
  <2>4. AuthorityFencesCaches'
    BY <1>3 DEF AuthorityFencesCaches
  <2> QED
    BY <1>1, <2>1, <2>2, <2>3, <2>4, MemoryKept DEF StorageInv, epochVars
<1> QED
  BY <1>2, <1>5, <1>6, <1>7 DEF StorageInv

LEMMA ReadFileKeeps ==
  ASSUME StorageInv, scenario' = scenario, NEW f \in Files, ReadFile(f)
  PROVE  StorageInv'
<1>1. /\ op # None /\ op.at = "read" /\ f \in op.todo /\ Quiet /\ disk[f] # Absent
      /\ UNCHANGED freshnessVars /\ established' \subseteq Files
  BY DEF ReadFile, Reads, At, Quiet, world, StorageInv, TypeOK
<1>2. /\ internal' \in [Files -> Nat \cup {None}] /\ unavailablePaths' \subseteq Files
      /\ \A g \in Files : internal'[g] # None => internal'[g] \in Known \ outside
  BY <1>1 DEF freshnessVars, StorageInv, TypeOK, RemembersOK
<1> QED
  BY <1>1, <1>2, PublishedKeeps DEF ReadFile, freshnessVars

LEMMA VerifyKeeps ==
  ASSUME StorageInv, scenario' = scenario, Verify
  PROVE  StorageInv'
<1>1. /\ op # None /\ op.at = "verify" /\ Quiet /\ SignatureOf(disk[op.f]) = op.sig
      /\ StagesOK /\ SigsOK /\ op \in Operation
  BY DEF Verify, At, Quiet, world, StorageInv, OpOK, TypeOK
<1> PICK f \in Files : f = op.f
  BY <1>1 DEF Operation
<1>2. /\ op.sig \in Nat /\ op.sig \in Known \ outside /\ disk[f] # Absent
      /\ op.put = ContentOf(disk[f])
  BY <1>1, StorageConstants DEF SigsOK, Says, SignatureOf, Operation
<1>3. op.then # "answer" => f \in op.todo
  BY <1>1 DEF StagesOK
<1>4. /\ internal' = [internal EXCEPT ![f] = op.sig] /\ unavailablePaths' \subseteq Files
      /\ snapshot' = snapshot /\ established' \subseteq Files
      /\ UNCHANGED <<epochVars, lastAuthority, lastCapture>>
  BY DEF Verify, Blessed, StorageInv, TypeOK
<1>5. /\ internal' \in [Files -> Nat \cup {None}]
      /\ \A g \in Files : internal'[g] # None => internal'[g] \in Known \ outside
  BY <1>2, <1>4 DEF StorageInv, TypeOK, RemembersOK
<1>6. Published(f, ContentOf(disk[f])) /\ Continue(op, f, ContentOf(disk[f]))
  BY <1>2 DEF Verify
<1> QED
  BY <1>1, <1>2, <1>3, <1>4, <1>5, <1>6, PublishedKeeps

\* From a read to a write and on to its verification: what was collected is kept.
LEMMA WritingKeeps ==
  ASSUME StorageInv, Moves, op # None, op.at \in {"read", "write"},
         op' \in Operation, op'.at \in {"write", "verify"}, op'.kind = op.kind, op'.then = op.then,
         op'.todo = op.todo, op'.data = op.data, op'.first = op.first, op'.seen = op.seen,
         op'.got = op.got, op'.put # None, op.then # "answer" => op'.f \in op.todo,
         op'.at = "verify" => /\ op'.sig \in Known' \ outside'
                              /\ op'.put = ContentOf(disk'[op'.f]),
         answer' = answer, snapshot' \in {snapshot, None},
         Answers(op) => instants \subseteq instants' /\ Contents(disk') \in instants'
  PROVE  OpOK' /\ CollectedOK' /\ AuthorityOK' /\ InstantsOK'
<1>1. /\ op \in Operation /\ StagesOK /\ SigsOK /\ Known \subseteq Known' /\ op.kind # "authority"
      /\ op.at \notin {"before", "after", "pass"} /\ op'.at \notin {"before", "after", "pass"}
  BY KnownGrows DEF StorageInv, TypeOK, OpOK, StagesOK
<1>2. StagesOK'
  BY <1>1 DEF StagesOK
<1>3. SigsOK'
  BY <1>1 DEF SigsOK, Collects, Says
<1>4. CollectedOK'
  <2>1. ASSUME Collects(op), NEW g \in Files, g \notin op.todo
        PROVE  op.got[g] \in Content /\ SaysNext(g, op.first[g], op.got[g])
    <3>1. op.got[g] \in Content /\ Says(g, op.first[g], op.got[g])
      BY <1>1, <2>1 DEF StorageInv, CollectedOK, CollectedOf
    <3>2. op.first[g] \in Known
      BY <1>1, <2>1 DEF SigsOK
    <3> QED
      BY <3>1, <3>2, SaysOn
  <2> QED
    BY <1>1, <2>1 DEF CollectedOK, CollectedOf, Collects, Says, SaysNext
<1>5. InstantsOK'
  <2>1. ASSUME Answers(op), Collects(op) PROVE CollectMoment'
    <3>1. PICK i \in instants : \A g \in Files : Says(g, op.first[g], i[g])
      BY <1>1, <2>1 DEF StorageInv, InstantsOK, CollectMoment
    <3>2. \A g \in Files : SaysNext(g, op.first[g], i[g])
      BY <1>1, <2>1, <3>1, SaysOn DEF SigsOK
    <3> QED
      BY <1>1, <2>1, <3>2 DEF CollectMoment, Says, SaysNext
  <2> QED
    BY <1>1, <2>1 DEF InstantsOK, Answers, Collects
<1> QED
  BY <1>1, <1>2, <1>3, <1>4, <1>5 DEF OpOK, AuthorityOK

LEMMA ReadRewritesKeeps ==
  ASSUME StorageInv, scenario' = scenario, NEW f \in Files, ReadRewrites(f)
  PROVE  StorageInv'
<1>1. /\ op # None /\ op.at = "read" /\ f \in op.todo /\ Quiet /\ established' \subseteq Files
      /\ UNCHANGED <<answer, instants, cache, vectorVars, freshnessVars, epochVars,
                     lastAuthority, lastCapture>>
  BY DEF ReadRewrites, Reads, At, Quiet, world, StorageInv, TypeOK, Goes
<1>2. op \in Operation /\ Moves /\ Known' = Known
  BY <1>1, QuietMoves DEF StorageInv, TypeOK
<1>3. PICK c \in Writable : op' = [op EXCEPT !.at = "write", !.f = f, !.put = c]
  <2>1. [data |-> Default, rev |-> 0] \in Writable
    BY StorageConstants DEF Writable, Revision
  <2>2. ASSUME disk[f] # Absent, disk[f].form = "legacy"
        PROVE  [data |-> disk[f].data, rev |-> disk[f].rev + 1] \in Writable
    BY <2>2 DEF StorageInv, TypeOK, Stored, Writable, Revision
  <2> QED
    BY <2>1, <2>2 DEF ReadRewrites, Goes
<1>4. /\ op' \in Operation /\ op'.at = "write" /\ op'.kind = op.kind /\ op'.then = op.then
      /\ op'.todo = op.todo /\ op'.data = op.data /\ op'.first = op.first /\ op'.seen = op.seen
      /\ op'.got = op.got /\ op'.put = c /\ op'.f = f
  BY <1>2, <1>3 DEF Operation
<1>5. OpOK' /\ CollectedOK' /\ AuthorityOK' /\ InstantsOK'
  <2>1. Answers(op) => instants \subseteq instants' /\ Contents(disk') \in instants'
    BY <1>1 DEF StorageInv, InstantsOK, Quiet
  <2> QED
    BY <1>1, <1>2, <1>4, <2>1, WritingKeeps, WritableIs DEF freshnessVars
<1>6. TypeOK'
  BY <1>1, <1>4 DEF StorageInv, TypeOK, Quiet, vectorVars, freshnessVars, epochVars
<1>7. RemembersOK'
  BY <1>1, <1>2 DEF StorageInv, RemembersOK, Quiet, freshnessVars, epochVars
<1>8. MemoryOK'
  <2>1. \A g \in Files : Untouched(g)
    BY <1>1 DEF Untouched, Quiet, vectorVars
  <2>2. AuthorityFencesCaches'
    BY <1>1 DEF StorageInv, AuthorityFencesCaches, OpOK, StagesOK
  <2> QED
    BY <1>1, <1>2, <2>1, <2>2, MemoryKept DEF StorageInv, vectorVars, freshnessVars, epochVars
<1> QED
  BY <1>5, <1>6, <1>7, <1>8 DEF StorageInv

\* The file after a write.
LEMMA WrittenMoves ==
  ASSUME StorageInv, op # None, op.at = "write", DiskBecomes(Written), outside' = outside
  PROVE  /\ Moves /\ disk' \in [Files -> Stored \cup {Absent}] /\ outside' \subseteq 1 .. clock'
         /\ clock' = clock + 1 /\ op.f \in Files /\ clock' \in Known' \ outside' /\ clock' \in Nat
         /\ SignatureOf(disk'[op.f]) = clock' /\ op.put = ContentOf(disk'[op.f])
         /\ \A g \in Files : disk'[g] # Absent => disk'[g].sig \in Known'
         /\ \A g \in Files : g # op.f => disk'[g] = disk[g]
<1> PICK d : d = [data |-> op.put.data, rev |-> op.put.rev, form |-> "canonical", sig |-> clock + 1]
  OBVIOUS
<1> PICK f : f = op.f
  OBVIOUS
<1>1. op \in Operation /\ op.put \in Writable /\ f \in Files /\ clock \in Nat
  BY DEF StorageInv, TypeOK, OpOK, StagesOK, Operation
<1>2. disk' = [disk EXCEPT ![f] = d] /\ clock' = clock + 1
  BY DEF DiskBecomes, Written
<1>3. d \in Stored /\ d.sig = clock + 1
  BY <1>1 DEF Stored, Writable, Revision
<1>4. Moves /\ disk' \in [Files -> Stored \cup {Absent}] /\ outside' \subseteq 1 .. clock'
  BY <1>1, <1>2, <1>3, ReplaceMoves DEF StorageInv
<1>5. disk'[f] = d /\ \A g \in Files : g # f => disk'[g] = disk[g]
  BY <1>1, <1>2 DEF StorageInv, TypeOK
<1>6. d # Absent
  BY <1>3, StorageConstants
<1>7. op.put = ContentOf(d) /\ SignatureOf(d) = clock + 1
  <2>1. op.put = [data |-> op.put.data, rev |-> op.put.rev]
    BY <1>1 DEF Writable
  <2>2. ContentOf(d) = [data |-> d.data, rev |-> d.rev]
    BY <1>6 DEF ContentOf
  <2>3. d.data = op.put.data /\ d.rev = op.put.rev
    OBVIOUS
  <2> QED
    BY <1>3, <1>6, <2>1, <2>2, <2>3 DEF SignatureOf
<1>8. clock' \in Known' \ outside' /\ clock' \in Nat /\ Known \subseteq Known'
  BY <1>1, <1>2, <1>4, KnownGrows DEF Known, StorageInv, TypeOK
<1>9. \A g \in Files : disk'[g] # Absent => disk'[g].sig \in Known'
  BY <1>2, <1>3, <1>5, <1>8 DEF StorageInv, RemembersOK
<1> QED
  BY <1>1, <1>2, <1>4, <1>5, <1>7, <1>8, <1>9

LEMMA RenameKeeps ==
  ASSUME StorageInv, scenario' = scenario, Rename
  PROVE  StorageInv'
<1> PICK f : f = op.f
  OBVIOUS
<1>1. /\ op # None /\ op.at = "write" /\ op \in Operation /\ answer' = answer
      /\ op' = [op EXCEPT !.at = "verify", !.sig = clock + 1]
      /\ UNCHANGED <<cache, vectorVars, epochVars, lastAuthority, lastCapture>>
      /\ snapshot' = None /\ internal' = [internal EXCEPT ![f] = None]
      /\ unavailablePaths' = unavailablePaths \cup {f} /\ established' = established \cup {f}
  BY DEF Rename, At, Invalidated, StorageInv, TypeOK
<1>2. /\ Moves /\ disk' \in [Files -> Stored \cup {Absent}] /\ outside' \subseteq 1 .. clock'
      /\ clock' = clock + 1 /\ f \in Files /\ clock' \in Known' \ outside' /\ clock' \in Nat
      /\ SignatureOf(disk'[f]) = clock' /\ op.put = ContentOf(disk'[f])
      /\ \A g \in Files : disk'[g] # Absent => disk'[g].sig \in Known'
      /\ \A g \in Files : g # f => disk'[g] = disk[g]
  BY <1>1, WrittenMoves DEF Rename
<1>3. /\ op' \in Operation /\ op'.at = "verify" /\ op'.kind = op.kind /\ op'.then = op.then
      /\ op'.todo = op.todo /\ op'.data = op.data /\ op'.first = op.first /\ op'.seen = op.seen
      /\ op'.got = op.got /\ op'.put = op.put /\ op'.f = f /\ op'.sig = clock'
  <2> PICK s \in Nat : s = clock + 1
    BY <1>2
  <2>1. op' = [op EXCEPT !.at = "verify", !.sig = s]
    BY <1>1
  <2> QED
    BY <1>1, <1>2, <2>1 DEF Operation
<1>4. OpOK' /\ CollectedOK' /\ AuthorityOK' /\ InstantsOK'
  <2>1. Answers(op) => instants \subseteq instants' /\ Contents(disk') \in instants'
    BY DEF Rename, InstantSeen
  <2>2. op.put # None /\ (op.then # "answer" => f \in op.todo)
    BY <1>1 DEF StorageInv, OpOK, StagesOK
  <2> QED
    BY <1>1, <1>2, <1>3, <2>1, <2>2, WritingKeeps
<1>5. TypeOK'
  BY <1>1, <1>2, <1>3 DEF StorageInv, TypeOK, vectorVars, epochVars
<1>6. RemembersOK'
  BY <1>1, <1>2, <1>5, RemembersKept DEF StorageInv, TypeOK, epochVars
<1>7. MemoryOK'
  <2>1. Replaced(f)
    BY <1>1, <1>3, StorageConstants DEF Replaced
  <2>2. \A g \in Files : g # f => Untouched(g)
    BY <1>1, <1>2 DEF Untouched, vectorVars
  <2>3. AuthorityFencesCaches'
    BY <1>1 DEF StorageInv, AuthorityFencesCaches, OpOK, StagesOK
  <2> QED
    BY <1>1, <1>2, <2>1, <2>2, <2>3, MemoryKept DEF StorageInv, vectorVars, epochVars
<1> QED
  BY <1>4, <1>5, <1>6, <1>7 DEF StorageInv

LEMMA GivenUpKeeps ==
  ASSUME StorageInv, scenario' = scenario, RenameFails \/ VerifyFails
  PROVE  StorageInv'
<1> PICK f : f = op.f
  OBVIOUS
<1>1. /\ op # None /\ op.at \in {"write", "verify"} /\ op \in Operation /\ f \in Files
      /\ WriteGivenUp /\ outside' = outside
      /\ (op.at = "write" /\ DiskBecomes(Written)) \/ UNCHANGED <<disk, clock>>
  BY DEF RenameFails, VerifyFails, WriteGivenUp, At, StorageInv, TypeOK, Operation
<1>2. /\ Moves /\ disk' \in [Files -> Stored \cup {Absent}] /\ outside' \subseteq 1 .. clock'
      /\ clock' \in Nat /\ \A g \in Files : disk'[g] # Absent => disk'[g].sig \in Known'
      /\ \A g \in Files : g # f => disk'[g] = disk[g]
  <2>1. CASE op.at = "write" /\ DiskBecomes(Written)
    BY <1>1, <2>1, WrittenMoves
  <2>2. CASE UNCHANGED <<disk, clock>>
    BY <1>1, <2>2, QuietMoves DEF Quiet, StorageInv, TypeOK, RemembersOK
  <2> QED
    BY <1>1, <2>1, <2>2
<1>3. /\ snapshot' = None /\ internal' = [internal EXCEPT ![f] = None]
      /\ unavailablePaths' = unavailablePaths \cup {f} /\ down' = down \cup {f}
      /\ \A g \in Settings : cache'[g] = cache[g] \/ (g = f /\ cache'[g] = None)
      /\ cache' \in [Settings -> Content \cup {None}]
      /\ op' = None /\ answer' = None
      /\ UNCHANGED <<vector, established, epochVars, lastAuthority, lastCapture>>
  BY <1>1 DEF WriteGivenUp, Invalidated, Withdrawn, Finished, StorageInv, TypeOK
<1>4. TypeOK'
  BY <1>1, <1>2, <1>3 DEF StorageInv, TypeOK, epochVars
<1>5. RemembersOK'
  BY <1>1, <1>2, <1>3, <1>4, RemembersKept DEF StorageInv, TypeOK, epochVars
<1>6. MemoryOK'
  <2>1. Replaced(f)
    BY <1>3 DEF Replaced
  <2>2. op.at = "verify" => op.f = f
    OBVIOUS
  <2>3. \A g \in Files : g # f => Untouched(g)
    BY <1>2, <1>3 DEF Untouched
  <2>4. AuthorityFencesCaches'
    BY <1>3 DEF AuthorityFencesCaches
  <2> QED
    BY <1>1, <1>2, <1>3, <2>1, <2>3, <2>4, MemoryKept DEF StorageInv, epochVars
<1> QED
  BY <1>3, <1>4, <1>5, <1>6, Ended DEF StorageInv

LEMMA ReadFailsKeeps ==
  ASSUME StorageInv, scenario' = scenario, NEW f \in Files, ReadFails(f)
  PROVE  StorageInv'
<1>1. /\ op # None /\ op.at = "read" /\ Quiet /\ established' \subseteq Files
      /\ down' = down \cup {f} /\ snapshot' \in {snapshot, None} /\ op' = None /\ answer' = None
      /\ UNCHANGED <<cache, vector, internal, unavailablePaths, epochVars, lastAuthority, lastCapture>>
  BY DEF ReadFails, Reads, At, Quiet, world, Finished, StorageInv, TypeOK
<1>2. Moves /\ Known' = Known
  BY <1>1, QuietMoves DEF StorageInv
<1>3. TypeOK'
  BY <1>1 DEF StorageInv, TypeOK, Quiet, epochVars
<1>4. RemembersOK'
  BY <1>1, <1>2, <1>3, RemembersKept DEF StorageInv, RemembersOK, Quiet, epochVars
<1>5. MemoryOK'
  <2>1. \A g \in Files : Untouched(g)
    BY <1>1 DEF Untouched, Quiet
  <2>2. AuthorityFencesCaches'
    BY <1>1 DEF AuthorityFencesCaches
  <2> QED
    BY <1>1, <1>2, <2>1, <2>2, MemoryKept DEF StorageInv, epochVars
<1> QED
  BY <1>1, <1>3, <1>4, <1>5, Ended DEF StorageInv
-------------------------------------------------------------------------------
(* A capture *)

\* What the capture has seen when it has looked at every file.
LEMMA ObservedAll ==
  ASSUME StorageInv, op # None, op.at \in {"before", "after", "pass"}, op.todo = {}
  PROVE  op.seen \in Signatures /\ \A f \in Files : op.seen[f] \in Known
<1>1. op.seen \in [Files -> Signature \cup {None}] /\ \A f \in Files : op.seen[f] \in Known
  BY DEF StorageInv, TypeOK, Operation, OpOK, SigsOK
<1>2. Known \subseteq Signature
  BY DEF StorageInv, TypeOK, Known, Signature
<1> QED
  BY <1>1, <1>2 DEF Signatures

\* A change the daemon did not make moves the epoch.
LEMMA EpochMoves ==
  ASSUME StorageInv, NEW seen \in Signatures, \A f \in Files : seen[f] \in Known,
         EpochPublished(seen)
  PROVE  /\ externalEpoch' \in Nat /\ externalEpoch' >= externalEpoch /\ lastObserved' = seen
         /\ internal' \in [Files -> Nat \cup {None}]
         /\ \A f \in Files : internal'[f] \in {internal[f], None}
         /\ lastCapture # None =>
              \A f \in Files : seen[f] \in outside /\ seen[f] # lastCapture.sigs[f]
                               => externalEpoch' > lastCapture.epoch
<1> PICK changed : changed = IF lastObserved = None THEN {}
                             ELSE {f \in Files : seen[f] \notin {lastObserved[f], internal[f]}}
  OBVIOUS
<1>1. /\ externalEpoch' = externalEpoch + Cardinality(changed) /\ lastObserved' = seen
      /\ internal' = [f \in Files |-> IF f \in changed THEN None ELSE internal[f]]
  BY DEF EpochPublished
<1>2. IsFiniteSet(changed)
  <2>1. changed \subseteq Files
    OBVIOUS
  <2> QED
    BY <2>1, FS_Subset, StorageConstants
<1>3. Cardinality(changed) \in Nat /\ (changed # {} => Cardinality(changed) > 0)
  BY <1>2, FS_CardinalityType, FS_EmptySet
<1>4. externalEpoch' \in Nat /\ externalEpoch' >= externalEpoch
      /\ (changed # {} => externalEpoch' > externalEpoch)
  BY <1>1, <1>3 DEF StorageInv, TypeOK
<1>5. ASSUME lastCapture # None, NEW f \in Files, seen[f] \in outside, seen[f] # lastCapture.sigs[f]
      PROVE  externalEpoch' > lastCapture.epoch
  <2>1. /\ lastObserved # None /\ externalEpoch >= lastCapture.epoch /\ lastCapture.epoch \in Nat
        /\ externalEpoch \in Nat
        /\ lastObserved[f] \in outside /\ lastObserved[f] # lastCapture.sigs[f]
           => externalEpoch > lastCapture.epoch
    BY <1>5 DEF StorageInv, MemoryOK, EpochOK, TypeOK, Capture
  <2>2. CASE seen[f] = lastObserved[f]
    BY <1>4, <1>5, <2>1, <2>2
  <2>3. CASE seen[f] # lastObserved[f]
    <3>1. seen[f] # None
      BY NoneIs DEF Signatures
    <3>2. internal[f] # None => internal[f] \notin outside
      BY DEF StorageInv, RemembersOK
    <3>3. f \in changed
      BY <1>5, <2>1, <2>3, <3>1, <3>2
    <3> QED
      BY <1>4, <2>1, <3>3
  <2> QED
    BY <2>2, <2>3
<1> QED
  BY <1>1, <1>4, <1>5 DEF StorageInv, TypeOK

\* What a step of a capture that publishes the epoch leaves right, whatever the operation does.
LEMMA EpochKeeps ==
  ASSUME StorageInv, TypeOK', Quiet, op # None, op.at \in {"before", "after"}, op.todo = {},
         EpochPublished(op.seen), snapshot' \in {snapshot, None}, answer' = None,
         UNCHANGED <<cache, vectorVars, lastAuthority, lastCapture>>
  PROVE  RemembersOK' /\ MemoryOK'
<1>1. op.seen \in Signatures /\ \A f \in Files : op.seen[f] \in Known
  BY ObservedAll
<1>2. /\ externalEpoch' \in Nat /\ externalEpoch' >= externalEpoch /\ lastObserved' = op.seen
      /\ \A f \in Files : internal'[f] \in {internal[f], None}
      /\ lastCapture # None =>
           \A f \in Files : op.seen[f] \in outside /\ op.seen[f] # lastCapture.sigs[f]
                            => externalEpoch' > lastCapture.epoch
  BY <1>1, EpochMoves
<1>3. Moves /\ Known' = Known /\ disk' = disk /\ outside' = outside
  BY QuietMoves DEF StorageInv, Quiet
<1>4. RemembersOK'
  BY <1>1, <1>2, <1>3 DEF StorageInv, RemembersOK
<1>5. \A f \in Files : HonestOf(f)'
  <2>1. \A f \in Files : Untouched(f)
    BY <1>3 DEF Untouched, vectorVars
  <2> QED
    BY <1>3, <2>1, HonestKept DEF StorageInv, MemoryOK
<1>6. \A f \in Settings : FencedOf(f)'
  BY <1>3, FencedKept DEF StorageInv, MemoryOK, vectorVars
<1>7. SnapshotOK'
  BY <1>3, SnapshotKept DEF StorageInv, MemoryOK
<1>8. EpochOK'
  <2>1. op.seen # None
    BY <1>1, StorageConstants
  <2>2. lastCapture # None => externalEpoch >= lastCapture.epoch /\ lastCapture.epoch \in Nat
                              /\ externalEpoch \in Nat
    BY DEF StorageInv, MemoryOK, EpochOK, TypeOK, Capture
  <2>3. lastCapture # None => externalEpoch' >= lastCapture.epoch
    BY <1>2, <2>2
  <2> QED
    BY <1>2, <1>3, <2>1, <2>3 DEF EpochOK
<1> QED
  BY <1>4, <1>5, <1>6, <1>7, <1>8 DEF MemoryOK, AuthorityFencesCaches

LEMMA ObserveKeeps ==
  ASSUME StorageInv, scenario' = scenario, NEW f \in Files, Observe(f)
  PROVE  StorageInv'
<1> PICK s : s = SignatureOf(disk[f])
  OBVIOUS
<1> PICK t : t = op.todo \ {f}
  OBVIOUS
<1>1. /\ op # None /\ op.at \in {"before", "after"} /\ f \in op.todo /\ Quiet
      /\ op' = [op EXCEPT !.seen[f] = s, !.todo = t]
      /\ UNCHANGED <<answer, instants, cache, vector, established, epochVars, lastAuthority, lastCapture>>
  BY DEF Observe, Observing, Quiet, world, Goes
<1>2. /\ op \in Operation /\ StagesOK /\ SigsOK /\ op.kind = "capture"
      /\ Moves /\ Known' = Known /\ disk' = disk /\ outside' = outside
  BY <1>1, QuietMoves DEF StorageInv, TypeOK, OpOK, StagesOK, Quiet
<1>3. s \in Signature /\ s \in Known /\ s # None
  BY SignatureKnown, NoneIs DEF StorageInv
<1>4. /\ op' \in Operation /\ op' # None /\ op'.kind = "capture" /\ op'.at = op.at
      /\ op'.then = op.then /\ op'.todo = t /\ op'.tries = op.tries
      /\ op'.first = op.first /\ op'.got = op.got /\ op'.seen = [op.seen EXCEPT ![f] = s]
  <2>1. t \in SUBSET Files
    BY <1>2 DEF Operation
  <2>2. /\ op' \in Operation /\ op'.kind = "capture" /\ op'.at = op.at
        /\ op'.then = op.then /\ op'.todo = t /\ op'.tries = op.tries
        /\ op'.first = op.first /\ op'.got = op.got /\ op'.seen = [op.seen EXCEPT ![f] = s]
    BY <1>1, <1>2, <1>3, <2>1 DEF Operation
  <2> QED
    BY <2>2, StorageConstants
<1>5. \A g \in Files : op'.seen[g] = IF g = f THEN s ELSE op.seen[g]
  BY <1>2, <1>4 DEF Operation
<1>6. /\ snapshot' \in {snapshot, None} /\ down \subseteq down' /\ down' \subseteq Files
      /\ \A g \in Files : internal'[g] \in {internal[g], None}
      /\ internal' \in [Files -> Nat \cup {None}] /\ unavailablePaths' \subseteq Files
  BY DEF Observe, Invalidated, freshnessVars, StorageInv, TypeOK
<1>7. TypeOK'
  BY <1>1, <1>4, <1>6 DEF StorageInv, TypeOK, Quiet, epochVars
<1>8. RemembersOK'
  BY <1>1, <1>2, <1>6, <1>7, RemembersKept DEF StorageInv, RemembersOK, epochVars
<1>9. MemoryOK'
  <2>1. \A g \in Files : Replaced(g) \/ Untouched(g)
    BY <1>1, <1>2, <1>6 DEF Untouched, Replaced
  <2>2. AuthorityFencesCaches'
    BY <1>1, <1>2 DEF AuthorityFencesCaches, StagesOK
  <2> QED
    BY <1>1, <1>2, <1>6, <2>1, <2>2, MemoryKept DEF StorageInv, epochVars
<1>10. OpOK'
  <2>1. StagesOK'
    BY <1>1, <1>2, <1>4, <1>6 DEF StagesOK
  <2>2. SigsOK'
    BY <1>1, <1>2, <1>3, <1>4, <1>5 DEF SigsOK, Collects
  <2> QED
    BY <2>1, <2>2 DEF OpOK
<1>11. CollectedOK' /\ AuthorityOK'
  BY <1>1, <1>2, <1>4
     DEF StorageInv, CollectedOK, CollectedOf, Collects, AuthorityOK, Says, StagesOK
<1>12. ASSUME NEW g \in Files, NEW i, NEW z, NEW c, Covers(i, g, z, c),
              z # Absent /\ SignatureOf(disk[g]) = z => c = ContentOf(disk[g])
       PROVE  /\ z # Absent /\ SignatureOf(disk'[g]) = z => i[g] = ContentOf(disk'[g])
              /\ g \notin op'.todo /\ z # Absent /\ op'.seen[g] = z => i[g] = c
  BY <1>2, <1>4, <1>5, <1>12 DEF Covers, Says
<1>13. InstantsOK'
  <2>1. Answers(op) /\ Contents(disk') \in instants'
    BY <1>1, <1>2 DEF StorageInv, InstantsOK, Answers
  <2>2. ASSUME op.at = "before", snapshot' # None PROVE ReuseMoment'
    <3>1. snapshot' = snapshot /\ snapshot # None
      BY <1>6, <2>2
    <3>2. PICK i \in instants : \A g \in Files : Covers(i, g, snapshot.sigs[g], snapshot.contents[g])
      BY <2>1, <2>2, <3>1 DEF StorageInv, InstantsOK, ReuseMoment
    <3>3. \A g \in Files : Says(g, snapshot.sigs[g], snapshot.contents[g])
      BY <3>1 DEF StorageInv, MemoryOK, SnapshotOK
    <3>4. \A g \in Files : /\ SaysNext(g, snapshot.sigs[g], i[g])
                           /\ g \notin op'.todo /\ snapshot.sigs[g] # Absent /\ op'.seen[g] = snapshot.sigs[g]
                              => i[g] = snapshot.contents[g]
      BY <1>12, <3>2, <3>3 DEF Says, SaysNext
    <3> QED
      BY <1>1, <3>1, <3>4 DEF ReuseMoment, Covers, Says, SaysNext
  <2>3. ASSUME Collects(op) PROVE CollectMoment'
    <3>1. op.at = "after"
      BY <1>1, <1>2, <2>3 DEF Collects, StagesOK
    <3>2. PICK i \in instants : \A g \in Files : Covers(i, g, op.first[g], op.got[g])
      BY <2>1, <2>3, <3>1 DEF StorageInv, InstantsOK, CollectMoment
    <3>3. \A g \in Files : Says(g, op.first[g], op.got[g])
      BY <1>1, <2>3, <3>1 DEF StorageInv, CollectedOK, CollectedOf
    <3>4. \A g \in Files : /\ SaysNext(g, op.first[g], i[g])
                           /\ g \notin op'.todo /\ op.first[g] # Absent /\ op'.seen[g] = op.first[g]
                              => i[g] = op.got[g]
      BY <1>12, <3>2, <3>3 DEF Says, SaysNext
    <3> QED
      BY <1>1, <1>4, <3>1, <3>4 DEF CollectMoment, Covers, Says, SaysNext
  <2> QED
    BY <1>1, <1>4, <2>1, <2>2, <2>3 DEF InstantsOK, Collects
<1> QED
  BY <1>7, <1>8, <1>9, <1>10, <1>11, <1>13 DEF StorageInv

LEMMA ObserveFailsKeeps ==
  ASSUME StorageInv, scenario' = scenario, NEW f \in Files, ObserveFails(f)
  PROVE  StorageInv'
<1>1. /\ op # None /\ op.at \in {"before", "after"} /\ Quiet /\ op' = None /\ answer' = None
      /\ down \subseteq down' /\ down' \subseteq Files /\ snapshot' = None
      /\ internal' = [internal EXCEPT ![f] = None] /\ unavailablePaths' \subseteq Files
      /\ UNCHANGED <<cache, vector, established, epochVars, lastAuthority, lastCapture>>
  BY DEF ObserveFails, Observing, Invalidated, Quiet, world, Finished, StorageInv, TypeOK
<1>2. Moves /\ Known' = Known /\ disk' = disk
  BY <1>1, QuietMoves DEF StorageInv, Quiet
<1>3. TypeOK'
  BY <1>1 DEF StorageInv, TypeOK, Quiet, epochVars
<1>4. RemembersOK'
  BY <1>1, <1>2, <1>3, RemembersKept DEF StorageInv, RemembersOK, TypeOK, epochVars
<1>5. MemoryOK'
  <2>1. \A g \in Files : Untouched(g)
    BY <1>1, <1>2 DEF Untouched
  <2>2. AuthorityFencesCaches'
    BY <1>1 DEF AuthorityFencesCaches
  <2> QED
    BY <1>1, <1>2, <2>1, <2>2, MemoryKept DEF StorageInv, epochVars
<1> QED
  BY <1>1, <1>3, <1>4, <1>5, Ended DEF StorageInv

\* A capture that begins again, here or with the missing files to create.
LEMMA RestartedOp ==
  ASSUME StorageInv, Quiet, op # None, op.kind = "capture", op' \in Operation, op' # None,
         op'.kind = "capture",
         \/ op'.at = "before" /\ op'.then = "answer" /\ op'.todo = Files
         \/ op'.at = "read" /\ op'.then = "create",
         \A f \in Files : op'.first[f] \in {op.first[f], None} /\ op'.seen[f] \in {op.seen[f], None},
         answer' = None, snapshot' = None, instants' = instants
  PROVE  OpOK' /\ CollectedOK' /\ AuthorityOK' /\ InstantsOK'
<1>1. Known' = Known /\ disk' = disk /\ outside' = outside /\ SigsOK
  BY QuietMoves DEF StorageInv, Quiet, OpOK
<1>2. StagesOK' /\ SigsOK'
  BY <1>1 DEF StagesOK, SigsOK, Collects
<1>3. Contents(disk') \in instants'
  BY <1>1 DEF StorageInv, InstantsOK, Answers
<1> QED
  BY <1>2, <1>3 DEF OpOK, CollectedOK, Collects, AuthorityOK, InstantsOK

LEMMA FileMissingKeeps ==
  ASSUME StorageInv, scenario' = scenario, FileMissing
  PROVE  StorageInv'
<1> PICK t : t = Missing(op.seen)
  OBVIOUS
<1>1. /\ op # None /\ op.at = "before" /\ op.todo = {} /\ Quiet /\ EpochPublished(op.seen)
      /\ snapshot' = None /\ t \in SUBSET Files
      /\ UNCHANGED <<cache, vectorVars, established, unavailablePaths, lastAuthority, lastCapture>>
  BY DEF FileMissing, Observed, At, Quiet, world, Missing
<1>2. /\ op \in Operation /\ op.kind = "capture" /\ answer = None
      /\ op.seen \in Signatures /\ \A f \in Files : op.seen[f] \in Known
  BY <1>1, ObservedAll DEF StorageInv, TypeOK, OpOK, StagesOK
<1>3. \/ op' = None /\ answer' = None
      \/ /\ op' = [op EXCEPT !.at = "read", !.then = "create", !.todo = t]
         /\ UNCHANGED <<answer, instants>>
  BY DEF FileMissing, Finished, Goes
<1>4. ASSUME op' = [op EXCEPT !.at = "read", !.then = "create", !.todo = t]
      PROVE  /\ op' \in Operation /\ op'.kind = op.kind /\ op'.at = "read" /\ op'.then = "create"
             /\ op'.first = op.first /\ op'.seen = op.seen
  BY <1>1, <1>2, <1>4 DEF Operation
<1>5. TypeOK'
  <2>1. externalEpoch' \in Nat /\ lastObserved' = op.seen /\ internal' \in [Files -> Nat \cup {None}]
    BY <1>1, <1>2, EpochMoves
  <2>2. op' \in Operation \cup {None} /\ answer' = None
    BY <1>2, <1>3, <1>4
  <2> QED
    BY <1>1, <1>2, <2>1, <2>2 DEF StorageInv, TypeOK, Quiet, vectorVars
<1>6. RemembersOK' /\ MemoryOK'
  BY <1>1, <1>2, <1>3, <1>5, EpochKeeps
<1>7. OpOK' /\ CollectedOK' /\ AuthorityOK' /\ InstantsOK'
  BY <1>1, <1>2, <1>3, <1>4, Ended, RestartedOp, StorageConstants
<1> QED
  BY <1>5, <1>6, <1>7 DEF StorageInv

LEMMA CaptureRetriesKeeps ==
  ASSUME StorageInv, scenario' = scenario, CaptureRetries
  PROVE  StorageInv'
<1>1. /\ op # None /\ op.at = "after" /\ op.todo = {} /\ Quiet /\ UNCHANGED memory
      /\ NextAttempt(op, "before")
  BY DEF CaptureRetries, Observed, At, Quiet, world
<1>2. op \in Operation /\ op.kind = "capture" /\ answer = None /\ snapshot = None
  BY <1>1 DEF StorageInv, TypeOK, OpOK, StagesOK
<1>3. \/ op' = None /\ answer' = None
      \/ /\ op' \in Operation /\ op' # None /\ op'.kind = op.kind /\ UNCHANGED <<answer, instants>>
         /\ op'.at = "before" /\ op'.then = "answer" /\ op'.todo = Files
         /\ op'.first = Nothing /\ op'.seen = Nothing
  BY <1>1, <1>2, Attempted
<1>4. TypeOK'
  BY <1>1, <1>2, <1>3 DEF StorageInv, TypeOK, Quiet, memory, vectorVars, freshnessVars, epochVars
<1>5. Moves /\ Known' = Known /\ disk' = disk /\ outside' = outside
  BY <1>1, QuietMoves DEF StorageInv, Quiet
<1>6. RemembersOK'
  BY <1>1, <1>4, <1>5, RemembersKept DEF StorageInv, RemembersOK, memory, freshnessVars, epochVars
<1>7. MemoryOK'
  <2>1. \A f \in Files : Untouched(f)
    BY <1>1, <1>5 DEF Untouched, memory, vectorVars
  <2>2. AuthorityFencesCaches'
    BY <1>2, <1>3 DEF AuthorityFencesCaches
  <2> QED
    BY <1>1, <1>5, <2>1, <2>2, MemoryKept
       DEF StorageInv, memory, vectorVars, freshnessVars, epochVars
<1>8. OpOK' /\ CollectedOK' /\ AuthorityOK' /\ InstantsOK'
  <2>1. CASE op' = None
    BY <2>1, Ended
  <2>2. CASE op' # None
    <3>1. \A f \in Files : op'.first[f] = None /\ op'.seen[f] = None
      BY <1>3, <2>2 DEF Nothing
    <3>2. snapshot' = None
      BY <1>1, <1>2 DEF memory, freshnessVars
    <3>3. \A f \in Files : op'.first[f] \in {op.first[f], None} /\ op'.seen[f] \in {op.seen[f], None}
      BY <3>1
    <3>4. /\ op' \in Operation /\ op'.kind = "capture" /\ answer' = None /\ instants' = instants
          /\ op'.at = "before" /\ op'.then = "answer" /\ op'.todo = Files
      BY <1>2, <1>3, <2>2
    <3>5. Quiet /\ op # None /\ op.kind = "capture"
      BY <1>1, <1>2
    <3> QED
      BY <2>2, <3>2, <3>3, <3>4, <3>5, RestartedOp
  <2> QED
    BY <2>1, <2>2
<1> QED
  BY <1>4, <1>6, <1>7, <1>8 DEF StorageInv

LEMMA ReadsBeginKeeps ==
  ASSUME StorageInv, scenario' = scenario, ReadsBegin
  PROVE  StorageInv'
<1> PICK z : z = op.seen
  OBVIOUS
<1>1. /\ op # None /\ op.at = "before" /\ op.todo = {} /\ Quiet /\ EpochPublished(op.seen)
      /\ snapshot' = None
      /\ op' = [op EXCEPT !.at = "read", !.then = "collect", !.todo = Files,
                          !.first = z, !.seen = Nothing]
      /\ UNCHANGED <<answer, instants>>
      /\ UNCHANGED <<cache, vectorVars, established, unavailablePaths, lastAuthority, lastCapture>>
  BY DEF ReadsBegin, Observed, At, Quiet, world, Goes, Collecting
<1>2. /\ op \in Operation /\ op.kind = "capture" /\ answer = None
      /\ z \in Signatures /\ \A f \in Files : z[f] \in Known /\ z[f] # None
  <2>1. z \in Signatures /\ \A f \in Files : z[f] \in Known
    BY <1>1, ObservedAll
  <2>2. \A f \in Files : z[f] # None
    BY <2>1, NoneIs DEF Signatures
  <2> QED
    BY <1>1, <2>1, <2>2 DEF StorageInv, TypeOK, OpOK, StagesOK
<1>3. /\ op' \in Operation /\ op'.kind = "capture" /\ op'.at = "read" /\ op'.then = "collect"
      /\ op'.todo = Files /\ op'.first = z /\ op'.seen = Nothing
  <2>1. Nothing \in [Files -> Signature \cup {None}] /\ z \in [Files -> Signature \cup {None}]
    BY <1>2 DEF Nothing, Signatures
  <2> QED
    BY <1>1, <1>2, <2>1 DEF Operation
<1>4. Known' = Known /\ disk' = disk /\ outside' = outside
  BY <1>1, QuietMoves DEF StorageInv, Quiet
<1>5. TypeOK'
  <2>1. externalEpoch' \in Nat /\ lastObserved' = op.seen /\ internal' \in [Files -> Nat \cup {None}]
    BY <1>1, <1>2, EpochMoves
  <2> QED
    BY <1>1, <1>2, <1>3, <2>1 DEF StorageInv, TypeOK, Quiet, vectorVars
<1>6. RemembersOK' /\ MemoryOK'
  BY <1>1, <1>2, <1>5, EpochKeeps
<1>7. OpOK'
  <2>1. StagesOK'
    BY <1>1, <1>2, <1>3, StorageConstants DEF StagesOK
  <2>2. SigsOK'
    BY <1>2, <1>3, <1>4 DEF SigsOK, Nothing
  <2> QED
    BY <2>1, <2>2 DEF OpOK
<1>8. CollectedOK' /\ AuthorityOK'
  BY <1>3 DEF CollectedOK, CollectedOf, AuthorityOK
<1>9. InstantsOK'
  <2>1. Contents(disk) \in instants /\ Contents(disk') \in instants'
    BY <1>1, <1>2, <1>4 DEF StorageInv, InstantsOK, Answers
  <2>2. \A f \in Files : SignatureOf(disk'[f]) = z[f] => Contents(disk')[f] = ContentOf(disk'[f])
    BY DEF Contents
  <2>3. CollectMoment'
    BY <1>3, <2>1, <2>2 DEF CollectMoment, Says
  <2> QED
    BY <1>3, <2>1, <2>3 DEF InstantsOK
<1> QED
  BY <1>5, <1>6, <1>7, <1>8, <1>9 DEF StorageInv

\* A capture that is answered ends with the snapshot it is answered from.
LEMMA AnsweredKeeps ==
  ASSUME StorageInv, TypeOK', Quiet, op.at # "verify", NEW seen \in Signatures,
         \A f \in Files : seen[f] \in Known,
         EpochPublished(seen), snapshot' # None, snapshot'.sigs = seen,
         answer' = [kind |-> "capture", contents |-> snapshot'.contents],
         \A f \in Files : Says(f, seen[f], snapshot'.contents[f]),
         lastCapture' = [sigs |-> snapshot'.sigs, epoch |-> snapshot'.epoch],
         externalEpoch' >= snapshot'.epoch,
         UNCHANGED <<cache, vectorVars, lastAuthority>>
  PROVE  RemembersOK' /\ MemoryOK'
<1>1. /\ lastObserved' = seen /\ \A f \in Files : internal'[f] \in {internal[f], None}
  BY EpochMoves
<1>2. Moves /\ Known' = Known /\ disk' = disk /\ outside' = outside
  BY QuietMoves DEF StorageInv, Quiet
<1>3. lastCapture'.sigs = seen /\ lastCapture'.epoch = snapshot'.epoch
  OBVIOUS
<1>4. RemembersOK'
  BY <1>1, <1>2, <1>3 DEF StorageInv, RemembersOK
<1>5. \A f \in Files : HonestOf(f)'
  <2>1. \A f \in Files : Untouched(f)
    BY <1>2 DEF Untouched, vectorVars
  <2> QED
    BY <1>2, <2>1, HonestKept DEF StorageInv, MemoryOK
<1>6. \A f \in Settings : FencedOf(f)'
  BY <1>2, FencedKept DEF StorageInv, MemoryOK, vectorVars
<1>7. SnapshotOK'
  BY <1>2 DEF SnapshotOK, Says
<1>8. EpochOK'
  BY <1>1, <1>3, StorageConstants DEF EpochOK
<1>9. AuthorityFencesCaches'
  <2>1. answer'.kind = "capture"
    OBVIOUS
  <2> QED
    BY <2>1 DEF AuthorityFencesCaches
<1> QED
  BY <1>4, <1>5, <1>6, <1>7, <1>8, <1>9 DEF MemoryOK

LEMMA SnapshotReusedKeeps ==
  ASSUME StorageInv, scenario' = scenario, SnapshotReused
  PROVE  StorageInv' /\ lastCapture' = lastCapture
<1>1. /\ op # None /\ op.at = "before" /\ op.todo = {} /\ Quiet /\ EpochPublished(op.seen)
      /\ snapshot # None /\ snapshot.sigs = op.seen /\ snapshot' = snapshot
      /\ op' = None /\ answer' = [kind |-> "capture", contents |-> snapshot.contents]
      /\ lastCapture' = [sigs |-> snapshot.sigs, epoch |-> snapshot.epoch]
      /\ UNCHANGED <<cache, vectorVars, established, unavailablePaths, lastAuthority>>
  BY DEF SnapshotReused, Observed, At, Quiet, world, Captured, Finished
<1>2. /\ op.seen \in Signatures /\ \A f \in Files : op.seen[f] \in Known
  BY <1>1, ObservedAll
<1>3. snapshot \in Snapshot /\ lastCapture' = lastCapture
  BY <1>1 DEF StorageInv, TypeOK, MemoryOK, SnapshotOK
<1>4. externalEpoch' \in Nat /\ lastObserved' = op.seen /\ internal' \in [Files -> Nat \cup {None}]
      /\ externalEpoch' >= externalEpoch
  BY <1>1, <1>2, EpochMoves
<1>5. answer' \in Answer
  BY <1>1, <1>3 DEF Snapshot, Answer
<1>6. TypeOK'
  BY <1>1, <1>2, <1>3, <1>4, <1>5 DEF StorageInv, TypeOK, Quiet, vectorVars
<1>7. externalEpoch' >= snapshot.epoch
  <2>1. lastCapture.epoch = snapshot.epoch /\ lastCapture # None
    <3>1. PICK c : c = [sigs |-> snapshot.sigs, epoch |-> snapshot.epoch]
      OBVIOUS
    <3>2. lastCapture = c /\ c \in Capture /\ c.epoch = snapshot.epoch
      BY <1>1, <1>3, <3>1 DEF Snapshot, Capture
    <3> QED
      BY <3>2, StorageConstants
  <2>2. externalEpoch >= snapshot.epoch /\ externalEpoch \in Nat /\ snapshot.epoch \in Nat
    BY <1>3, <2>1 DEF StorageInv, MemoryOK, EpochOK, TypeOK, Snapshot
  <2> QED
    BY <1>4, <2>2
<1>8. \A f \in Files : Says(f, op.seen[f], snapshot.contents[f])
  BY <1>1 DEF StorageInv, MemoryOK, SnapshotOK
<1>9. RemembersOK' /\ MemoryOK'
  BY <1>1, <1>2, <1>6, <1>7, <1>8, AnsweredKeeps
<1> QED
  BY <1>1, <1>3, <1>6, <1>9, Ended DEF StorageInv

LEMMA CaptureSucceedsKeeps ==
  ASSUME StorageInv, scenario' = scenario, CaptureSucceeds
  PROVE  StorageInv'
<1>1. /\ op # None /\ op.at = "after" /\ op.todo = {} /\ Quiet /\ EpochPublished(op.seen)
      /\ op.first = op.seen /\ Missing(op.seen) = {} /\ unavailablePaths' = {}
      /\ snapshot' = [sigs |-> op.seen, contents |-> op.got, epoch |-> externalEpoch']
      /\ op' = None /\ answer' = [kind |-> "capture", contents |-> snapshot'.contents]
      /\ lastCapture' = [sigs |-> snapshot'.sigs, epoch |-> snapshot'.epoch]
      /\ UNCHANGED <<cache, vectorVars, established, lastAuthority>>
  BY DEF CaptureSucceeds, Stable, Observed, At, Quiet, world, Captured, Finished
<1>2. /\ op.seen \in Signatures /\ \A f \in Files : op.seen[f] \in Known
  BY <1>1, ObservedAll
<1>3. externalEpoch' \in Nat /\ lastObserved' = op.seen /\ internal' \in [Files -> Nat \cup {None}]
  BY <1>1, <1>2, EpochMoves
<1>4. \A f \in Files : op.got[f] \in Content /\ Says(f, op.seen[f], op.got[f])
  <2>1. op.kind = "capture"
    BY <1>1 DEF StorageInv, OpOK, StagesOK
  <2> QED
    BY <1>1, <2>1 DEF StorageInv, CollectedOK, CollectedOf, Collects
<1>5. op.seen \in [Files -> Nat] /\ op.got \in [Files -> Content]
  <2>1. op.got \in [Files -> Content \cup {Absent, None}]
    BY <1>1 DEF StorageInv, TypeOK, Operation
  <2>2. \A f \in Files : op.seen[f] \in Nat
    BY <1>1, <1>2 DEF Missing, Signatures, Signature
  <2> QED
    BY <1>2, <1>4, <2>1, <2>2 DEF Signatures
<1>6. snapshot' \in Snapshot /\ snapshot' # None
  BY <1>1, <1>3, <1>5, StorageConstants DEF Snapshot
<1>7. answer' \in Answer /\ lastCapture' \in Capture
  BY <1>1, <1>6 DEF Snapshot, Answer, Capture
<1>8. TypeOK'
  BY <1>1, <1>2, <1>3, <1>6, <1>7 DEF StorageInv, TypeOK, Quiet, vectorVars
<1>9. snapshot'.sigs = op.seen /\ snapshot'.contents = op.got /\ externalEpoch' >= snapshot'.epoch
  BY <1>1, <1>3
<1>10. RemembersOK' /\ MemoryOK'
  BY <1>1, <1>2, <1>4, <1>6, <1>8, <1>9, AnsweredKeeps
<1> QED
  BY <1>1, <1>8, <1>10, Ended DEF StorageInv
-------------------------------------------------------------------------------
(* An authority read *)

LEMMA AuthorityReadFailsKeeps ==
  ASSUME StorageInv, scenario' = scenario, NEW f \in Files, AuthorityReadFails(f)
  PROVE  StorageInv'
<1>1. /\ op.at = "pass" /\ Quiet /\ UNCHANGED memory /\ op' = None /\ answer' = None
  BY DEF AuthorityReadFails, At, Quiet, world, Finished
<1>2. Moves /\ Known' = Known /\ disk' = disk /\ outside' = outside
  BY <1>1, QuietMoves DEF StorageInv, Quiet
<1>3. TypeOK'
  BY <1>1 DEF StorageInv, TypeOK, Quiet, memory, vectorVars, freshnessVars, epochVars
<1>4. RemembersOK'
  BY <1>1, <1>2, <1>3, RemembersKept DEF StorageInv, RemembersOK, memory, freshnessVars, epochVars
<1>5. MemoryOK'
  <2>1. \A g \in Files : Untouched(g)
    BY <1>1, <1>2 DEF Untouched, memory, vectorVars
  <2>2. AuthorityFencesCaches'
    BY <1>1 DEF AuthorityFencesCaches
  <2> QED
    BY <1>1, <1>2, <2>1, <2>2, MemoryKept
       DEF StorageInv, memory, vectorVars, freshnessVars, epochVars
<1> QED
  BY <1>1, <1>3, <1>4, <1>5, Ended DEF StorageInv

ReadAsNext(f, s) ==
  /\ SaysNext(f, s, op'.got[f]) /\ op'.got[f] # None
  /\ op'.got[f] = Absent <=> s = Absent
  /\ /\ f \in Settings /\ lastAuthority' # None /\ cache'[f] # None /\ f \notin down'
     /\ lastAuthority'[f] = s /\ s # Absent
     => cache'[f] = op'.got[f]

LEMMA ReadAsStays ==
  ASSUME Quiet, UNCHANGED memory, NEW f \in Files, NEW s, ReadAs(f, s), op'.got[f] = op.got[f]
  PROVE  ReadAsNext(f, s)
<1>1. disk' = disk /\ cache' = cache /\ down' = down /\ lastAuthority' = lastAuthority
  BY DEF Quiet, memory, vectorVars
<1>2. f \in Settings => f # Collection
  BY DEF Settings
<1> QED
  BY <1>1, <1>2 DEF ReadAs, ReadAsNext, Says, SaysNext, Usable

LEMMA AuthorityNext ==
  ASSUME op' # None, op'.kind = "authority",
         op'.pass < 3 => \A f \in Files \ op'.todo : ReadAsNext(f, op'.seen[f]),
         op'.pass = 3 => \A f \in Files : ReadAsNext(f, op'.first[f])
  PROVE  AuthorityOK'
<1>1. \A f \in Settings : f # Collection
  BY DEF Settings
<1> QED
  BY <1>1 DEF AuthorityOK, ReadAs, ReadAsNext, Says, SaysNext, Usable

LEMMA AuthorityReadsKeeps ==
  ASSUME StorageInv, scenario' = scenario, NEW f \in Files, AuthorityReads(f)
  PROVE  StorageInv'
<1> PICK s : s = SignatureOf(disk[f])
  OBVIOUS
<1> PICK t : t = op.todo \ {f}
  OBVIOUS
<1> PICK c : c = IF op.pass < 3 THEN ContentOf(disk[f]) ELSE op.got[f]
  OBVIOUS
<1>1. /\ op # None /\ op.at = "pass" /\ f \in op.todo /\ Quiet /\ UNCHANGED memory
      /\ op' = [op EXCEPT !.seen[f] = s, !.todo = t, !.got[f] = c]
      /\ UNCHANGED <<answer, instants>>
  BY DEF AuthorityReads, At, Quiet, world, Goes
<1>2. /\ op \in Operation /\ StagesOK /\ SigsOK /\ op.kind = "authority" /\ answer = None
      /\ op.then # "collect"
      /\ Moves /\ Known' = Known /\ disk' = disk /\ outside' = outside
  BY <1>1, QuietMoves DEF StorageInv, TypeOK, OpOK, StagesOK, Quiet
<1>3. /\ s \in Signature /\ s \in Known /\ s # None
      /\ ContentOf(disk[f]) \in Content \cup {Absent}
      /\ s = Absent <=> disk[f] = Absent
      /\ ContentOf(disk[f]) = Absent <=> disk[f] = Absent
  BY SignatureKnown, NoneIs DEF StorageInv
<1>4. /\ op' \in Operation /\ op'.kind = "authority" /\ op'.at = "pass"
      /\ op'.then = op.then /\ op'.todo = t /\ op'.pass = op.pass
      /\ op'.first = op.first
      /\ op'.seen = [op.seen EXCEPT ![f] = s] /\ op'.got = [op.got EXCEPT ![f] = c]
  <2>1. t \in SUBSET Files
    BY <1>2 DEF Operation
  <2>2. c \in Content \cup {Absent, None}
    BY <1>2, <1>3 DEF Operation
  <2> QED
    BY <1>1, <1>2, <1>3, <2>1, <2>2 DEF Operation
<1>5. /\ \A g \in Files : op'.seen[g] = IF g = f THEN s ELSE op.seen[g]
      /\ \A g \in Files : op'.got[g] = IF g = f THEN c ELSE op.got[g]
  BY <1>2, <1>4 DEF Operation
<1>6. TypeOK'
  BY <1>1, <1>4 DEF StorageInv, TypeOK, Quiet, memory, vectorVars, freshnessVars, epochVars
<1>7. RemembersOK'
  BY <1>1, <1>2, <1>6, RemembersKept DEF StorageInv, RemembersOK, memory, freshnessVars, epochVars
<1>8. MemoryOK'
  <2>1. \A g \in Files : Untouched(g)
    BY <1>1, <1>2 DEF Untouched, memory, vectorVars
  <2>2. AuthorityFencesCaches'
    BY <1>1, <1>2 DEF AuthorityFencesCaches
  <2> QED
    BY <1>1, <1>2, <2>1, <2>2, MemoryKept
       DEF StorageInv, memory, vectorVars, freshnessVars, epochVars
<1>9. OpOK' /\ CollectedOK'
  <2>1. StagesOK'
    BY <1>1, <1>2, <1>4 DEF StagesOK
  <2>2. SigsOK'
    BY <1>1, <1>2, <1>3, <1>4, <1>5 DEF SigsOK, Collects
  <2> QED
    BY <1>4, <2>1, <2>2 DEF OpOK, CollectedOK, Collects
\* The cached settings that may be served were identified by the signature the file has now.
<1>10. ASSUME op.pass < 3 PROVE ReadAsNext(f, s)
  <2>1. op'.got[f] = ContentOf(disk[f]) /\ op'.got[f] # None
    BY <1>3, <1>5, <1>10, StorageConstants
  <2>2. disk' = disk /\ cache' = cache /\ down' = down /\ lastAuthority' = lastAuthority
    BY <1>1, <1>2 DEF memory, vectorVars
  <2>3. f \in Settings => FencedOf(f) /\ f # Collection
    BY DEF StorageInv, MemoryOK, Settings
  <2> QED
    BY <1>3, <2>1, <2>2, <2>3 DEF ReadAsNext, Says, SaysNext, FencedOf, Usable
<1>11. AuthorityOK'
  <2>1. ASSUME op.pass < 3, NEW g \in Files, g \notin t PROVE ReadAsNext(g, op'.seen[g])
    <3>1. CASE g = f
      BY <1>5, <1>10, <2>1, <3>1
    <3>2. CASE g # f
      <4>1. ReadAs(g, op.seen[g]) /\ op'.seen[g] = op.seen[g] /\ op'.got[g] = op.got[g]
        BY <1>1, <1>2, <1>5, <2>1, <3>2 DEF StorageInv, AuthorityOK
      <4> QED
        BY <1>1, <4>1, ReadAsStays
    <3> QED
      BY <3>1, <3>2
  <2>2. ASSUME op.pass = 3, NEW g \in Files PROVE ReadAsNext(g, op'.first[g])
    <3>1. ReadAs(g, op.first[g]) /\ op'.first[g] = op.first[g] /\ op'.got[g] = op.got[g]
      BY <1>1, <1>2, <1>4, <1>5, <2>2 DEF StorageInv, AuthorityOK
    <3> QED
      BY <1>1, <3>1, ReadAsStays
  <2>3. op' # None
    BY <1>4, StorageConstants
  <2> QED
    BY <1>4, <2>1, <2>2, <2>3, AuthorityNext
<1>12. InstantsOK'
  <2>1. Answers(op) /\ Contents(disk) \in instants /\ Contents(disk') \in instants'
    BY <1>1, <1>2 DEF StorageInv, InstantsOK, Answers
  <2>2. ASSUME op.pass = 3, NEW g \in Files PROVE AuthorityMoment(g)'
    <3>1. PICK i \in instants : /\ i[g] = op.got[g]
                                /\ \A h \in Files : Covers(i, h, op.first[h], op.got[h])
      BY <1>1, <2>1, <2>2 DEF StorageInv, InstantsOK, AuthorityMoment
    <3>2. \A h \in Files : op'.got[h] = op.got[h]
      BY <1>5, <2>2
    <3>3. ReadAs(f, op.first[f])
      BY <1>1, <1>2, <2>2 DEF StorageInv, AuthorityOK
    <3>4. op.first[f] # Absent /\ s = op.first[f] => i[f] = op.got[f]
      BY <3>1, <3>3 DEF Covers, Says, ReadAs
    <3>5. ASSUME NEW h \in Files
          PROVE  /\ op.first[h] # Absent /\ SignatureOf(disk'[h]) = op.first[h]
                      => i[h] = ContentOf(disk'[h])
                 /\ h \notin t /\ op.first[h] # Absent /\ op'.seen[h] = op.first[h]
                      => i[h] = op.got[h]
      <4>1. Covers(i, h, op.first[h], op.got[h])
        BY <3>1
      <4> QED
        BY <1>2, <1>5, <3>4, <4>1 DEF Covers, Says
    <3> QED
      BY <1>1, <1>4, <2>2, <3>1, <3>2, <3>5 DEF AuthorityMoment, Covers, Says
  <2>3. ASSUME op.pass = 2, NEW g \in Files, g \notin t PROVE AuthorityMoment(g)'
    <3>1. CASE g = f
      <4>1. /\ Contents(disk)[g] = op'.got[g]
            /\ \A h \in Files : SignatureOf(disk'[h]) = op.first[h]
                                => Contents(disk)[h] = ContentOf(disk'[h])
        BY <1>2, <1>5, <2>3, <3>1 DEF Contents
      <4> QED
        BY <1>1, <1>4, <2>1, <2>3, <4>1 DEF AuthorityMoment, Says
    <3>2. CASE g # f
      <4>1. PICK i \in instants : /\ i[g] = op.got[g]
                                  /\ \A h \in Files : Says(h, op.first[h], i[h])
        BY <1>1, <2>1, <2>3, <3>2 DEF StorageInv, InstantsOK, AuthorityMoment
      <4>2. op'.got[g] = op.got[g]
        BY <1>5, <3>2
      <4> QED
        BY <1>1, <1>2, <1>4, <2>3, <4>1, <4>2 DEF AuthorityMoment, Says
    <3> QED
      BY <3>1, <3>2
  <2> QED
    BY <1>1, <1>4, <2>1, <2>2, <2>3 DEF InstantsOK, Collects
<1> QED
  BY <1>6, <1>7, <1>8, <1>9, <1>11, <1>12 DEF StorageInv

\* Steps of an authority read that change no memory.
LEMMA AuthorityMemory ==
  ASSUME StorageInv, TypeOK', Quiet, UNCHANGED memory, op.at = "pass", answer' = None
  PROVE  RemembersOK' /\ MemoryOK'
<1>1. Moves /\ Known' = Known /\ disk' = disk /\ outside' = outside
  BY QuietMoves DEF StorageInv, Quiet
<1>2. RemembersOK'
  BY <1>1, RemembersKept DEF StorageInv, RemembersOK, memory, freshnessVars, epochVars
<1>3. \A g \in Files : Untouched(g)
  BY <1>1 DEF Untouched, memory, vectorVars
<1>4. AuthorityFencesCaches'
  BY DEF AuthorityFencesCaches
<1> QED
  BY <1>1, <1>2, <1>3, <1>4, MemoryKept
     DEF StorageInv, memory, vectorVars, freshnessVars, epochVars

LEMMA NextPassKeeps ==
  ASSUME StorageInv, scenario' = scenario, NextPass
  PROVE  StorageInv'
<1> PICK z : z = op.seen
  OBVIOUS
<1> PICK p : p = op.pass + 1
  OBVIOUS
<1>1. /\ op # None /\ op.at = "pass" /\ op.todo = {} /\ Quiet /\ UNCHANGED memory
      /\ op.pass < 3 /\ (op.pass > 1 => op.first = op.seen)
      /\ op' = [op EXCEPT !.pass = p, !.first = z, !.seen = Nothing, !.todo = Files]
      /\ UNCHANGED <<answer, instants>>
  BY DEF NextPass, Observed, Stable, At, Quiet, world, Goes
<1>2. /\ op \in Operation /\ StagesOK /\ SigsOK /\ op.kind = "authority" /\ answer = None
      /\ op.then # "collect"
      /\ Known' = Known /\ disk' = disk /\ outside' = outside
  BY <1>1, QuietMoves DEF StorageInv, TypeOK, OpOK, StagesOK, Quiet
<1>3. z \in [Files -> Signature \cup {None}] /\ \A f \in Files : z[f] \in Known /\ z[f] # None
  BY <1>1, ObservedAll, NoneIs DEF Signatures
<1>4. /\ op' \in Operation /\ op'.kind = "authority" /\ op'.at = "pass" /\ op'.then = op.then
      /\ op'.todo = Files /\ op'.pass = p /\ op'.first = z /\ op'.seen = Nothing
      /\ op'.got = op.got
  <2>1. Nothing \in [Files -> Signature \cup {None}]
    BY DEF Nothing
  <2>2. p \in 1 .. 3
    BY <1>1, <1>2 DEF Operation
  <2> QED
    BY <1>1, <1>2, <1>3, <2>1, <2>2 DEF Operation
<1>5. op' # None
  BY <1>4, StorageConstants
<1>6. p = 2 \/ (p = 3 /\ op.pass = 2 /\ op.first = op.seen)
  BY <1>1, <1>2 DEF Operation
<1>7. TypeOK'
  BY <1>1, <1>4 DEF StorageInv, TypeOK, Quiet, memory, vectorVars, freshnessVars, epochVars
<1>8. RemembersOK' /\ MemoryOK'
  BY <1>1, <1>2, <1>7, AuthorityMemory
<1>9. OpOK' /\ CollectedOK'
  <2>1. StagesOK'
    BY <1>1, <1>2, <1>4 DEF StagesOK
  <2>2. SigsOK'
    BY <1>2, <1>3, <1>4 DEF SigsOK, Nothing
  <2> QED
    BY <1>4, <2>1, <2>2 DEF OpOK, CollectedOK, Collects
<1>10. AuthorityOK'
  <2>1. ASSUME p = 3, NEW f \in Files PROVE ReadAsNext(f, z[f])
    <3>1. ReadAs(f, op.seen[f]) /\ op'.got[f] = op.got[f]
      BY <1>1, <1>2, <1>4, <1>6 DEF StorageInv, AuthorityOK
    <3> QED
      BY <1>1, <3>1, ReadAsStays
  <2> QED
    BY <1>4, <1>5, <1>6, <2>1, AuthorityNext
<1>11. InstantsOK'
  <2>1. Answers(op) /\ Contents(disk) \in instants /\ Contents(disk') \in instants'
    BY <1>1, <1>2 DEF StorageInv, InstantsOK, Answers
  <2>2. ASSUME p = 3, NEW g \in Files PROVE AuthorityMoment(g)'
    <3>1. op.pass = 2 /\ op.first = z /\ g \notin op.todo
      BY <1>1, <1>6, <2>2
    <3>2. AuthorityMoment(g)
      BY <1>1, <2>1, <3>1 DEF StorageInv, InstantsOK
    <3>3. PICK i \in instants : i[g] = op.got[g] /\ \A h \in Files : Says(h, z[h], i[h])
      BY <3>1, <3>2 DEF AuthorityMoment
    <3> QED
      BY <1>1, <1>2, <1>4, <2>2, <3>3 DEF AuthorityMoment, Covers, Says
  <2> QED
    BY <1>4, <1>6, <2>1, <2>2 DEF InstantsOK, Collects
<1> QED
  BY <1>7, <1>8, <1>9, <1>10, <1>11 DEF StorageInv

LEMMA AuthorityRetriesKeeps ==
  ASSUME StorageInv, scenario' = scenario, AuthorityRetries
  PROVE  StorageInv'
<1>1. /\ op # None /\ op.at = "pass" /\ op.todo = {} /\ Quiet /\ UNCHANGED memory
      /\ NextAttempt(op, "pass")
  BY DEF AuthorityRetries, Observed, At, Quiet, world
<1>2. op \in Operation /\ op.kind = "authority" /\ answer = None
  BY <1>1 DEF StorageInv, TypeOK, OpOK, StagesOK
<1>3. \/ op' = None /\ answer' = None
      \/ /\ op' \in Operation /\ op' # None /\ op'.kind = "authority"
         /\ UNCHANGED <<answer, instants>>
         /\ op'.at = "pass" /\ op'.then = "answer" /\ op'.todo = Files /\ op'.pass = 1
         /\ op'.first = Nothing /\ op'.seen = Nothing
  BY <1>1, <1>2, Attempted
<1>4. TypeOK'
  BY <1>1, <1>2, <1>3 DEF StorageInv, TypeOK, Quiet, memory, vectorVars, freshnessVars, epochVars
<1>5. RemembersOK' /\ MemoryOK'
  BY <1>1, <1>2, <1>3, <1>4, AuthorityMemory
<1>6. OpOK' /\ CollectedOK' /\ AuthorityOK' /\ InstantsOK'
  <2>1. CASE op' = None
    BY <2>1, Ended
  <2>2. CASE op' # None
    <3>1. /\ op'.kind = "authority" /\ op'.at = "pass" /\ op'.then = "answer" /\ op'.todo = Files
          /\ op'.pass = 1 /\ op'.first = Nothing /\ op'.seen = Nothing
          /\ answer' = None /\ instants' = instants
      BY <1>2, <1>3, <2>2
    <3>2. OpOK'
      BY <3>1 DEF OpOK, StagesOK, SigsOK, Nothing, Collects
    <3>3. CollectedOK' /\ AuthorityOK'
      BY <3>1 DEF CollectedOK, Collects, AuthorityOK
    <3>4. Contents(disk') \in instants'
      BY <1>1, <1>2, <3>1 DEF StorageInv, InstantsOK, Answers, Quiet
    <3> QED
      BY <3>1, <3>2, <3>3, <3>4 DEF InstantsOK, Collects
  <2> QED
    BY <2>1, <2>2
<1> QED
  BY <1>4, <1>5, <1>6 DEF StorageInv

\* After it, what is served was identified by what it returned.
LEMMA AuthoritySucceedsKeeps ==
  ASSUME StorageInv, scenario' = scenario, AuthoritySucceeds
  PROVE  StorageInv'
<1> PICK z : z = op.seen
  OBVIOUS
<1> PICK fenced : fenced = Fenced(z)
  OBVIOUS
<1>1. /\ op # None /\ op.at = "pass" /\ op.todo = {} /\ op.pass = 3 /\ op.first = z /\ Quiet
      /\ cache' = [f \in Settings |-> IF f \in fenced THEN None ELSE cache[f]]
      /\ down' = down \cup fenced /\ unavailablePaths' = unavailablePaths \cup fenced
      /\ snapshot' \in {snapshot, None} /\ established' = Files
      /\ internal' \in {internal, [internal EXCEPT ![Collection] = None]}
      /\ lastAuthority' = z /\ op' = None
      /\ answer' = [kind |-> "authority", contents |-> op.got]
      /\ UNCHANGED <<vector, epochVars, lastCapture>>
  BY DEF AuthoritySucceeds, Stable, Observed, At, Quiet, world, Finished, Withdrawn
<1>2. /\ op \in Operation /\ op.kind = "authority"
      /\ Moves /\ Known' = Known /\ disk' = disk /\ outside' = outside
  BY <1>1, QuietMoves DEF StorageInv, TypeOK, OpOK, StagesOK, Quiet
<1>3. z \in Signatures /\ \A f \in Files : z[f] \in Known
  BY <1>1, ObservedAll
<1>4. fenced \subseteq Files /\ \A f \in Files \ fenced : lastAuthority # None /\ z[f] = lastAuthority[f]
  BY DEF Fenced
<1>5. \A f \in Files : ReadAs(f, z[f])
  BY <1>1, <1>2 DEF StorageInv, AuthorityOK
<1>6. answer' \in Answer /\ answer'.contents = op.got
  <2>1. op.got \in [Files -> Content \cup {Absent}]
    BY <1>2, <1>5 DEF Operation, ReadAs
  <2> QED
    BY <1>1, <2>1 DEF Answer
<1>7. /\ internal' \in [Files -> Nat \cup {None}]
      /\ \A f \in Files : internal'[f] \in {internal[f], None}
  BY <1>1 DEF StorageInv, TypeOK
<1>8. TypeOK'
  BY <1>1, <1>3, <1>4, <1>6, <1>7 DEF StorageInv, TypeOK, Quiet, epochVars
<1>9. RemembersOK'
  BY <1>1, <1>2, <1>3, <1>7 DEF StorageInv, RemembersOK, epochVars
<1>10. \A f \in Settings : Usable(f)' =>
         /\ Usable(f) /\ cache'[f] = cache[f] /\ lastAuthority # None /\ z[f] = lastAuthority[f]
  BY <1>1, <1>4 DEF Usable, Settings
<1>11. \A f \in Files : HonestOf(f)'
  <2>1. \A f \in Files : Replaced(f) \/ Untouched(f)
    BY <1>1, <1>2 DEF Replaced, Untouched
  <2> QED
    BY <1>2, <2>1, HonestKept DEF StorageInv, MemoryOK
<1>12. \A f \in Settings : FencedOf(f)'
  BY <1>1, <1>2, <1>10 DEF StorageInv, MemoryOK, FencedOf, Says
<1>13. SnapshotOK' /\ EpochOK'
  BY <1>1, <1>2, SnapshotKept, EpochKept DEF StorageInv, MemoryOK, epochVars
<1>14. AuthorityFencesCaches'
  <2>1. ASSUME NEW f \in Settings, Usable(f)', op.got[f] # Absent PROVE cache'[f] = op.got[f]
    <3>1. f \in Files
      BY DEF Settings
    <3> QED
      BY <1>5, <1>10, <2>1, <3>1 DEF ReadAs
  <2> QED
    BY <1>6, <2>1 DEF AuthorityFencesCaches, Settings
<1> QED
  BY <1>1, <1>8, <1>9, <1>11, <1>12, <1>13, <1>14, Ended DEF StorageInv, MemoryOK
-------------------------------------------------------------------------------
(* The invariant *)

LEMMA StorageInit == Init => StorageInv
<1> SUFFICES ASSUME Init PROVE StorageInv
  OBVIOUS
<1>1. scenario.found \in {"canonical", "legacy"} /\ scenario \in Scenarios
  BY StorageConstants DEF Init, Scenario
<1>2. \A f \in Files : disk[f] \in Stored \cup {Absent} /\ (disk[f] # Absent => disk[f].sig = 0)
  BY <1>1, StorageConstants DEF Init, Stored, Revision
<1>3. disk \in [Files -> Stored \cup {Absent}]
  <2>1. PICK gone \in SUBSET scenario.missing :
          disk = [f \in Files |->
            IF f \in gone THEN Absent
            ELSE [data |-> Default, rev |-> 0, form |-> scenario.found, sig |-> 0]]
    BY DEF Init
  <2> QED
    BY <1>2, <2>1
<1>4. TypeOK
  BY <1>1, <1>3 DEF Init, TypeOK, Nothing
<1>5. RemembersOK
  BY <1>2 DEF Init, RemembersOK, Nothing, Known
<1>6. OpOK /\ CollectedOK /\ AuthorityOK /\ InstantsOK
  BY DEF Init, OpOK, CollectedOK, AuthorityOK, InstantsOK, Answers
<1>7. MemoryOK
  <2>1. (\A f \in Files : HonestOf(f)) /\ \A f \in Settings : FencedOf(f)
    BY DEF Init, HonestOf, FencedOf, Nothing
  <2> QED
    BY <2>1 DEF Init, MemoryOK, SnapshotOK, EpochOK, AuthorityFencesCaches
<1> QED
  BY <1>4, <1>5, <1>6, <1>7 DEF StorageInv

LEMMA StorageStays == ASSUME StorageInv, UNCHANGED vars PROVE StorageInv'
<1> USE DEF vars, memory, vectorVars, freshnessVars, epochVars, world
<1>1. TypeOK' /\ RemembersOK'
  BY DEF StorageInv, TypeOK, RemembersOK, Known
<1>2. OpOK' /\ CollectedOK' /\ AuthorityOK'
  BY DEF StorageInv, OpOK, StagesOK, SigsOK, Collects, Says, Known, CollectedOK, CollectedOf,
         AuthorityOK, ReadAs, Usable
<1>3. MemoryOK'
  BY DEF StorageInv, MemoryOK, HonestOf, FencedOf, Usable, Says, SnapshotOK, EpochOK,
         AuthorityFencesCaches
<1>4. InstantsOK'
  BY DEF StorageInv, InstantsOK, Answers, Contents, ReuseMoment, CollectMoment, AuthorityMoment,
         Collects, Covers, Says
<1> QED
  BY <1>1, <1>2, <1>3, <1>4 DEF StorageInv

LEMMA StorageNext == ASSUME StorageInv, [Next]_vars PROVE StorageInv'
<1>1. CASE UNCHANGED vars
  BY <1>1, StorageStays
<1>2. CASE Next
  <2>1. scenario' = scenario
    BY <1>2 DEF Next
  <2>2. CASE \E f \in Files : Edit(f)
    BY <2>1, <2>2, EditKeeps
  <2>3. CASE Starting
    BY <2>1, <2>3, StartLoadKeeps, StartSaveKeeps, StartReadingKeeps DEF Starting
  <2>4. CASE Reading
    BY <2>1, <2>4, ReadFileKeeps, ReadRewritesKeeps, ReadFailsKeeps DEF Reading
  <2>5. CASE Writing
    BY <2>1, <2>5, RenameKeeps, VerifyKeeps, GivenUpKeeps DEF Writing
  <2>6. CASE Capturing
    BY <2>1, <2>6, ObserveKeeps, ObserveFailsKeeps, FileMissingKeeps, SnapshotReusedKeeps,
       ReadsBeginKeeps, CaptureSucceedsKeeps, CaptureRetriesKeeps DEF Capturing
  <2>7. CASE Authorizing
    BY <2>1, <2>7, AuthorityReadsKeeps, AuthorityReadFailsKeeps, NextPassKeeps,
       AuthorityRetriesKeeps, AuthoritySucceedsKeeps DEF Authorizing
  <2> QED
    BY <1>2, <2>2, <2>3, <2>4, <2>5, <2>6, <2>7 DEF Next
<1> QED
  BY <1>1, <1>2

LEMMA StorageSafe == Spec => []StorageInv
<1>1. Init => StorageInv
  BY StorageInit
<1>2. StorageInv /\ [Next]_vars => StorageInv'
  BY StorageNext
<1> QED
  BY <1>1, <1>2, PTL DEF Spec

\* Everything the daemon keeps and every operation has its type.
THEOREM TypeCorrect == Spec => []TypeOK
<1>1. StorageInv => TypeOK
  BY DEF StorageInv
<1> QED
  BY <1>1, StorageSafe, PTL

\* Whatever failed and wherever, between operations the revision readers compare and the cached
\* settings of a source that is available are those of its file, unless the editor replaced it.
THEOREM VectorHonest == Spec => []VectorIsHonest
<1>1. StorageInv => VectorIsHonest
  BY DEF StorageInv, MemoryOK, HonestOf, VectorIsHonest
<1> QED
  BY <1>1, StorageSafe, PTL

\* After an authority read that found every file, no settings served from memory say anything
\* else than the file it identified.
THEOREM AuthorityFences == Spec => []AuthorityFencesCaches
<1>1. StorageInv => AuthorityFencesCaches
  BY DEF StorageInv, MemoryOK
<1> QED
  BY <1>1, StorageSafe, PTL
-------------------------------------------------------------------------------
(* Answers *)

\* The steps that answer, and the only ones that end a capture.
Answering == SnapshotReused \/ CaptureSucceeds \/ AuthoritySucceeds

LEMMA OtherSteps ==
  ASSUME StorageInv, Next, ~Answering, op # None
  PROVE  (answer' = None \/ op' # None) /\ lastCapture' = lastCapture
<1>1. answer = None /\ op \in Operation /\ (op.then = "put" => op.data \in Data)
  BY DEF StorageInv, OpOK, StagesOK, TypeOK
<1> USE DEF Goes, Finished, memory
<1>2. ASSUME NEW f \in Files, NEW c \in Content, Continue(op, f, c)
      PROVE  answer' = None \/ op' # None
  BY <1>1, <1>2, Continued
<1>3. ASSUME NEW a \in {"before", "pass"}, NextAttempt(op, a) PROVE answer' = None \/ op' # None
  BY <1>1, <1>3, Attempted
<1>4. CASE \E f \in Files : Edit(f)
  BY <1>1, <1>4 DEF Edit
<1>5. ~Starting
  BY DEF Starting, StartLoad, StartSave, StartCapture, StartAuthority, Idle
<1>6. CASE Reading
  <2>1. PICK f \in Files : ReadFile(f) \/ ReadRewrites(f) \/ ReadFails(f)
    BY <1>6 DEF Reading
  <2>2. CASE ReadFile(f)
    <3>1. ContentOf(disk[f]) \in Content
      BY <2>2, SignatureKnown DEF ReadFile, StorageInv
    <3> QED
      BY <1>2, <2>2, <3>1 DEF ReadFile
  <2>3. CASE ReadRewrites(f)
    BY <1>1, <2>3 DEF ReadRewrites
  <2>4. CASE ReadFails(f)
    BY <2>4 DEF ReadFails
  <2> QED
    BY <2>1, <2>2, <2>3, <2>4
<1>7. CASE Writing
  <2>1. CASE Rename
    BY <1>1, <2>1 DEF Rename
  <2>2. CASE RenameFails \/ VerifyFails
    BY <2>2 DEF RenameFails, VerifyFails, WriteGivenUp
  <2>3. CASE Verify
    <3>1. op.put \in Content /\ op.f \in Files
      BY <1>1, <2>3, WritableIs DEF Verify, At, StorageInv, OpOK, StagesOK, Operation
    <3> QED
      BY <1>2, <2>3, <3>1 DEF Verify
  <2> QED
    BY <1>7, <2>1, <2>2, <2>3 DEF Writing
<1>8. CASE Capturing
  <2>1. CASE \E f \in Files : Observe(f) \/ ObserveFails(f)
    BY <1>1, <2>1 DEF Observe, ObserveFails
  <2>2. CASE FileMissing \/ ReadsBegin
    BY <1>1, <2>2 DEF FileMissing, ReadsBegin
  <2>3. CASE CaptureRetries
    BY <1>3, <2>3 DEF CaptureRetries
  <2> QED
    BY <1>8, <2>1, <2>2, <2>3 DEF Capturing, Answering
<1>9. CASE Authorizing
  <2>1. CASE \E f \in Files : AuthorityReads(f) \/ AuthorityReadFails(f)
    BY <1>1, <2>1 DEF AuthorityReads, AuthorityReadFails
  <2>2. CASE NextPass
    BY <1>1, <2>2 DEF NextPass
  <2>3. CASE AuthorityRetries
    BY <1>3, <2>3 DEF AuthorityRetries
  <2> QED
    BY <1>9, <2>1, <2>2, <2>3 DEF Authorizing, Answering
<1> QED
  BY <1>4, <1>5, <1>6, <1>7, <1>8, <1>9 DEF Next

\* What a read returns was said, together, at a moment between its call and its answer.
OneInstant ==
  answer' # None /\ op' = None /\ op # None =>
    \A g \in Files : \E i \in instants :
      /\ i[g] = answer'.contents[g]
      /\ \A f \in Files : answer'.contents[f] # Absent => i[f] = answer'.contents[f]

LEMMA ReuseAnswers ==
  ASSUME StorageInv, SnapshotReused
  PROVE  OneInstant
<1>1. /\ op # None /\ op.at = "before" /\ op.todo = {} /\ snapshot # None /\ snapshot.sigs = op.seen
      /\ answer' = [kind |-> "capture", contents |-> snapshot.contents] /\ Missing(op.seen) = {}
  BY DEF SnapshotReused, Observed, At, Captured, Finished
<1>2. Answers(op) /\ ReuseMoment
  BY <1>1 DEF StorageInv, OpOK, StagesOK, InstantsOK, Answers
<1>3. PICK i \in instants : \A f \in Files : Covers(i, f, op.seen[f], snapshot.contents[f])
  BY <1>1, <1>2 DEF ReuseMoment
<1>4. \A f \in Files : i[f] = answer'.contents[f]
  BY <1>1, <1>3 DEF Covers, Missing
<1> QED
  BY <1>4 DEF OneInstant

LEMMA CaptureAnswers ==
  ASSUME StorageInv, CaptureSucceeds
  PROVE  OneInstant
<1>1. /\ op # None /\ op.at = "after" /\ op.todo = {} /\ op.first = op.seen
      /\ snapshot' = [sigs |-> op.seen, contents |-> op.got, epoch |-> externalEpoch']
      /\ answer' = [kind |-> "capture", contents |-> snapshot'.contents] /\ Missing(op.seen) = {}
  BY DEF CaptureSucceeds, Stable, Observed, At, Captured, Finished
<1>2. Answers(op) /\ CollectMoment
  BY <1>1 DEF StorageInv, OpOK, StagesOK, InstantsOK, Answers, Collects
<1>3. PICK i \in instants : \A f \in Files : Covers(i, f, op.first[f], op.got[f])
  BY <1>1, <1>2 DEF CollectMoment
<1>4. answer'.contents = op.got
  BY <1>1
<1>5. \A f \in Files : i[f] = answer'.contents[f]
  BY <1>1, <1>3, <1>4 DEF Covers, Missing
<1> QED
  BY <1>5 DEF OneInstant

LEMMA AuthorityAnswers ==
  ASSUME StorageInv, AuthoritySucceeds
  PROVE  OneInstant
<1>1. /\ op # None /\ op.at = "pass" /\ op.todo = {} /\ op.pass = 3 /\ op.first = op.seen
      /\ answer' = [kind |-> "authority", contents |-> op.got]
  BY DEF AuthoritySucceeds, Stable, Observed, At, Finished
<1>2. op.kind = "authority" /\ Answers(op)
  BY <1>1 DEF StorageInv, OpOK, StagesOK, Answers
<1>3. \A f \in Files : ReadAs(f, op.first[f])
  BY <1>1, <1>2 DEF StorageInv, AuthorityOK
<1>4. ASSUME NEW g \in Files
      PROVE  \E i \in instants : /\ i[g] = op.got[g]
                                 /\ \A f \in Files : op.got[f] # Absent => i[f] = op.got[f]
  <2>1. PICK i \in instants : /\ i[g] = op.got[g]
                              /\ \A f \in Files : Covers(i, f, op.first[f], op.got[f])
    BY <1>1, <1>2 DEF StorageInv, InstantsOK, AuthorityMoment
  <2> QED
    BY <1>1, <1>3, <2>1 DEF Covers, ReadAs
<1> QED
  BY <1>1, <1>4 DEF OneInstant

\* A capture or an authority read looks at one file after another while the editor works; what it
\* returns of the files they nevertheless said together, at one moment between call and answer.
THEOREM OneInstantAnswered == Spec => AnswersAreOneInstant
<1>1. ASSUME StorageInv, [Next]_vars PROVE OneInstant
  <2>1. CASE UNCHANGED vars
    BY <2>1 DEF vars, OneInstant
  <2>2. CASE Next /\ ~Answering
    BY <1>1, <2>2, OtherSteps DEF OneInstant
  <2>3. CASE Answering
    BY <1>1, <2>3, ReuseAnswers, CaptureAnswers, AuthorityAnswers DEF Answering
  <2> QED
    BY <1>1, <2>1, <2>2, <2>3
<1> QED
  BY <1>1, StorageSafe, PTL DEF Spec, AnswersAreOneInstant, OneInstant
-------------------------------------------------------------------------------
(* The epoch *)

Attributed ==
  \A f \in Files :
    /\ lastCapture # None /\ lastCapture' # lastCapture
    /\ lastCapture'.sigs[f] \in outside /\ lastCapture'.sigs[f] # lastCapture.sigs[f]
    => lastCapture'.epoch > lastCapture.epoch

LEMMA CaptureAttributes ==
  ASSUME StorageInv, CaptureSucceeds
  PROVE  Attributed
<1>1. /\ op # None /\ op.at = "after" /\ op.todo = {} /\ EpochPublished(op.seen)
      /\ snapshot' = [sigs |-> op.seen, contents |-> op.got, epoch |-> externalEpoch']
      /\ lastCapture' = [sigs |-> snapshot'.sigs, epoch |-> snapshot'.epoch]
  BY DEF CaptureSucceeds, Observed, At, Captured
<1>2. op.seen \in Signatures /\ \A f \in Files : op.seen[f] \in Known
  BY <1>1, ObservedAll
<1>3. lastCapture # None =>
        \A f \in Files : op.seen[f] \in outside /\ op.seen[f] # lastCapture.sigs[f]
                         => externalEpoch' > lastCapture.epoch
  BY <1>1, <1>2, EpochMoves
<1>4. lastCapture'.sigs = op.seen /\ lastCapture'.epoch = externalEpoch'
  BY <1>1
<1> QED
  BY <1>3, <1>4 DEF Attributed

\* A capture that finds a file the editor wrote since the capture before moves the epoch, through
\* whatever operations, failures and writes of the daemon's own came between the two.
THEOREM ChangeAttributed == Spec => ExternalChangeIsAttributed
<1>1. ASSUME StorageInv, [Next]_vars PROVE Attributed
  <2>1. CASE UNCHANGED vars
    BY <2>1 DEF vars, memory, Attributed
  <2>2. CASE Next /\ op = None
    <3>1. lastCapture' = lastCapture
      BY <2>2 DEF Next, Edit, Starting, StartLoad, StartSave, StartCapture, StartAuthority, memory,
                  Reading, ReadFile, ReadRewrites, ReadFails, Reads, Writing, Rename, RenameFails,
                  Verify, VerifyFails, At, Capturing, Observe, ObserveFails, Observing, FileMissing,
                  SnapshotReused, ReadsBegin, CaptureSucceeds, CaptureRetries, Observed,
                  Authorizing, AuthorityReads, AuthorityReadFails, NextPass, AuthorityRetries,
                  AuthoritySucceeds
    <3> QED
      BY <3>1 DEF Attributed
  <2>3. CASE Next /\ op # None /\ ~Answering
    BY <1>1, <2>3, OtherSteps DEF Attributed
  <2>4. CASE Next /\ Answering
    <3>1. CASE SnapshotReused
      BY <1>1, <2>4, <3>1, SnapshotReusedKeeps DEF Next, Attributed
    <3>2. CASE CaptureSucceeds
      BY <1>1, <3>2, CaptureAttributes
    <3>3. CASE AuthoritySucceeds
      BY <3>3 DEF AuthoritySucceeds, Attributed
    <3> QED
      BY <2>4, <3>1, <3>2, <3>3 DEF Answering
  <2> QED
    BY <1>1, <2>1, <2>2, <2>3, <2>4
<1> QED
  BY <1>1, StorageSafe, PTL DEF Spec, ExternalChangeIsAttributed, Attributed
===============================================================================
