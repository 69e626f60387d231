------------------------- MODULE SnapshotCacheProofs -------------------------
(***************************************************************************)
(* What is cached says what its identity says, nobody joins a flight that  *)
(* has landed, and what is answered is current: for any requests, data,    *)
(* edits, saves and bounds.                                                *)
(***************************************************************************)
EXTENDS SnapshotCache, WellFoundedInduction, TLAPS

(***************************************************************************)
(* What storage remembers: the vector moves with everything readers see,   *)
(* and cached settings that may be served are those of the file as long as *)
(* its signature is the one the last authority read saw.                   *)
(***************************************************************************)
FileStates == [data : Data, rev : Nat, sig : Nat]
Memories == [revs : [Files -> Nat \cup {None}], down : SUBSET (Files \cup {Startup}), token : Nat,
             cached : Data \cup {None}, authority : [Files -> FileStates] \cup {None}]

DiskOK ==
  /\ disk \in [Files -> FileStates] /\ changes \in Nat
  /\ \A f \in Files : disk[f].sig <= changes

MemoryOK(m) ==
  /\ m \in Memories
  /\ \A f \in Files : /\ m.revs[f] # None => m.revs[f] <= disk[f].rev
                      /\ m.authority # None => m.authority[f].sig <= changes
  /\ Shelf \in m.down => m.cached = None
  /\ Shelf \notin m.down /\ m.cached = None => Startup \in m.down /\ m.revs[Shelf] = None
  /\ /\ Shelf \notin m.down /\ m.cached # None
     /\ m.authority # None /\ m.authority[Shelf].sig = disk[Shelf].sig
     => m.cached = disk[Shelf].data

\* From m to n: the token tells whether anything a reader sees has changed.
Follows(m, n) ==
  /\ n.token >= m.token
  /\ n.token = m.token => n.cached = m.cached /\ n.down = m.down

(***************************************************************************)
(* Flights and the section                                                 *)
(***************************************************************************)
FlightsOf(U) ==
  [at : U, enabled : U, vector : U, identity : U, base : U, made : U, token : U, calc : U,
   result : U, cacheable : U]

MadeOf(U, V) == [says : [Files -> V], judgments : U, evaluated : U, expires : U]

Shaped(b) == \E U : b \in FlightsOf(U)
MadeShaped(v) == \E U, V : v \in MadeOf(U, V)

Captured(b) == b.at \in {"frame", "prepare", "still", "publish"}

FlightOK(b, m, dk, c) ==
  /\ Shaped(b)
  /\ b.at \in {"authority", "capture", "frame"} => b.calc = None
  /\ Captured(b) =>
       /\ MadeShaped(b.made)
       /\ b.token \in Nat /\ b.token <= m.token
       /\ b.token = m.token => b.made.says[Shelf] = m.cached
  /\ Captured(b) /\ b.calc # None =>
       /\ b.calc.sig \in Nat /\ b.calc.sig <= c
       /\ b.calc.sig = dk[Collection].sig => b.made.says[Collection] = dk[Collection].data

\* In a section: what was validated holds, unless the authority read will notice.
SectionOK ==
  section # None =>
    /\ section = [of |-> section.of, at |-> section.at, valid |-> section.valid, enabled |-> section.enabled]
    /\ section.of \in Requests \cup DOMAIN flights
    /\ section.of \in DOMAIN flights /\ section.at \in {"validate", "decide"} =>
         flights[section.of].at = "publish"
    /\ (/\ section.of \in DOMAIN flights /\ section.at = "decide" /\ section.valid
        /\ flights[section.of].calc # None) =>
         \/ flights[section.of].calc.sig = disk[Collection].sig
         \/ mem.authority = None \/ mem.authority[Collection].sig # disk[Collection].sig

FlightsOK ==
  /\ \E S : flights \in Seq(S)
  /\ \A i \in DOMAIN flights : FlightOK(flights[i], mem, disk, changes)
  /\ flight # None => flight \in DOMAIN flights

SnapshotInv ==
  /\ DiskOK /\ MemoryOK(mem) /\ FlightsOK /\ SectionOK
  /\ JoinedFlightIsPending /\ EntryIsWhatItIdentifies

(***************************************************************************)
(* Storage                                                                 *)
(***************************************************************************)
LEMMA Moves ==
  ASSUME NEW m \in Memories, NEW n \in Memories, n.token = m.token
  PROVE  LET d == Moved(m, n)
         IN /\ d \in Memories
            /\ d.revs = n.revs /\ d.down = n.down /\ d.cached = n.cached /\ d.authority = n.authority
            /\ d.token >= m.token
            /\ d.token = m.token => n.revs = m.revs /\ n.down = m.down
<1>1. CASE n.revs = m.revs /\ n.down = m.down
  BY <1>1 DEF Moved, Memories
<1>2. CASE ~(n.revs = m.revs /\ n.down = m.down)
  <2>1. Moved(m, n) = [n EXCEPT !.token = @ + 1]
    BY <1>2 DEF Moved
  <2>2. QED
    BY <2>1 DEF Memories
<1>3. QED
  BY <1>1, <1>2

\* A change of what is remembered, made through mutate(), keeps the memory right.
LEMMA MovesRight ==
  ASSUME NEW m, NEW n, MemoryOK(m), MemoryOK(n), n.token = m.token,
         n.revs = m.revs /\ n.down = m.down => n.cached = m.cached
  PROVE  /\ MemoryOK(Moved(m, n)) /\ Follows(m, Moved(m, n))
         /\ Moved(m, n).authority = n.authority /\ Moved(m, n).down = n.down
         /\ Moved(m, n).cached = n.cached /\ Moved(m, n).revs = n.revs
<1> DEFINE d == Moved(m, n)
<1>1. m \in Memories /\ n \in Memories
  BY DEF MemoryOK
<1>2. /\ d \in Memories
      /\ d.revs = n.revs /\ d.down = n.down /\ d.cached = n.cached /\ d.authority = n.authority
      /\ d.token >= m.token
      /\ d.token = m.token => n.revs = m.revs /\ n.down = m.down
  BY <1>1, Moves
<1> HIDE DEF d
<1>3. MemoryOK(d)
  BY <1>2 DEF MemoryOK
<1>4. Follows(m, d)
  BY <1>2 DEF Follows
<1>5. QED
  BY <1>2, <1>3, <1>4 DEF d

LEMMA CollectionLoads ==
  ASSUME DiskOK, NEW m, MemoryOK(m)
  PROVE  /\ MemoryOK(CollectionLoaded(m)) /\ Follows(m, CollectionLoaded(m))
         /\ CollectionLoaded(m).authority = m.authority
<1> DEFINE n == [m EXCEPT !.revs[Collection] = disk[Collection].rev, !.down = @ \ {Collection}]
<1>1. /\ n \in Memories /\ n.token = m.token /\ n.cached = m.cached /\ n.authority = m.authority
      /\ n.down = m.down \ {Collection} /\ n.revs = [m.revs EXCEPT ![Collection] = disk[Collection].rev]
  BY DEF MemoryOK, Memories, DiskOK, FileStates, Files
<1>2. m \in Memories /\ CollectionLoaded(m) = Moved(m, n)
  BY DEF MemoryOK, CollectionLoaded
<1> HIDE DEF n
<1>3. MemoryOK(n)
  BY <1>1, SnapshotConstants DEF MemoryOK, Memories, DiskOK, FileStates, Files
<1>4. QED
  BY <1>1, <1>2, <1>3, MovesRight

LEMMA ShelfLoads ==
  ASSUME DiskOK, NEW m, MemoryOK(m)
  PROVE  LET d == ShelfLoaded(m)
         IN /\ MemoryOK(d) /\ Follows(m, d) /\ d.authority = m.authority
            /\ Shelf \notin d.down /\ d.cached # None
<1>1. CASE m.cached # None /\ Shelf \notin m.down
  BY <1>1 DEF ShelfLoaded, Follows, MemoryOK, Memories
<1>2. CASE ~(m.cached # None /\ Shelf \notin m.down)
  <2> DEFINE n == [m EXCEPT !.revs[Shelf] = disk[Shelf].rev, !.down = @ \ {Shelf},
                            !.cached = disk[Shelf].data]
  <2>1. /\ n \in Memories /\ n.token = m.token /\ n.cached = disk[Shelf].data /\ n.authority = m.authority
        /\ n.down = m.down \ {Shelf} /\ n.revs = [m.revs EXCEPT ![Shelf] = disk[Shelf].rev]
    BY DEF MemoryOK, Memories, DiskOK, FileStates, Files
  <2>2. m \in Memories /\ ShelfLoaded(m) = Moved(m, n)
    BY <1>2 DEF MemoryOK, ShelfLoaded
  <2> HIDE DEF n
  <2>3. n.cached # None
    BY <2>1, SnapshotConstants DEF DiskOK, FileStates, Files
  <2>4. MemoryOK(n)
    BY <2>1, <2>3, SnapshotConstants DEF MemoryOK, Memories, DiskOK, FileStates, Files
  <2>5. ~(n.revs = m.revs /\ n.down = m.down)
    <3>1. CASE Shelf \in m.down
      BY <2>1, <3>1
    <3>2. CASE Shelf \notin m.down
      <4>1. m.revs[Shelf] = None
        BY <1>2, <3>2 DEF MemoryOK
      <4>2. n.revs[Shelf] \in Nat
        BY <2>1 DEF MemoryOK, Memories, DiskOK, FileStates, Files
      <4>3. QED
        BY <4>1, <4>2, SnapshotConstants
    <3>3. QED
      BY <3>1, <3>2
  <2>6. QED
    BY <2>1, <2>2, <2>3, <2>4, <2>5, MovesRight
<1>3. QED
  BY <1>1, <1>2

LEMMA Follows3 ==
  ASSUME NEW a, NEW b, NEW c, MemoryOK(a), MemoryOK(b), MemoryOK(c), Follows(a, b), Follows(b, c)
  PROVE  Follows(a, c)
BY DEF Follows, MemoryOK, Memories

LEMMA Hydrates ==
  ASSUME DiskOK, NEW m, MemoryOK(m)
  PROVE  LET d == Hydrated(m)
         IN /\ MemoryOK(d) /\ Follows(m, d) /\ d.authority = m.authority /\ d.down = {}
<1>1. CASE m.down = {}
  BY <1>1 DEF Hydrated, Follows, MemoryOK, Memories
<1>2. CASE m.down # {}
  <2> DEFINE c == CollectionLoaded(m)
             l == ShelfLoaded(c)
             n == [l EXCEPT !.down = {}]
  <2>1. MemoryOK(c) /\ Follows(m, c) /\ c.authority = m.authority
    BY CollectionLoads
  <2> HIDE DEF c
  <2>2. MemoryOK(l) /\ Follows(c, l) /\ l.authority = m.authority /\ Shelf \notin l.down /\ l.cached # None
    BY <2>1, ShelfLoads
  <2> HIDE DEF l
  <2>3. /\ n \in Memories /\ n.token = l.token /\ n.cached = l.cached /\ n.authority = l.authority
        /\ n.down = {} /\ n.revs = l.revs
    BY <2>2 DEF MemoryOK, Memories
  <2>4. Hydrated(m) = Moved(l, n)
    BY <1>2 DEF Hydrated, l, c
  <2> HIDE DEF n
  <2>5. MemoryOK(n)
    BY <2>2, <2>3 DEF MemoryOK
  <2>6. /\ MemoryOK(Moved(l, n)) /\ Follows(l, Moved(l, n))
        /\ Moved(l, n).authority = l.authority /\ Moved(l, n).down = {}
    BY <2>2, <2>3, <2>5, MovesRight
  <2>7. QED
    BY <2>1, <2>2, <2>4, <2>6, Follows3
<1>3. QED
  BY <1>1, <1>2

\* An authority read that leaves the token where it was and nothing unavailable has found every
\* signature as the last one left it.
LEMMA AuthorityReads ==
  ASSUME DiskOK, NEW m, MemoryOK(m)
  PROVE  LET d == AuthorityRead(m)
         IN /\ MemoryOK(d) /\ Follows(m, d)
            /\ d.down = {} /\ d.token = m.token =>
                 /\ m.down = {} /\ m.authority # None
                 /\ \A f \in Files : m.authority[f].sig = disk[f].sig
<1> DEFINE F == {f \in Files : m.authority = None \/ m.authority[f].sig # disk[f].sig}
           n == [m EXCEPT !.down = @ \cup F, !.cached = IF Shelf \in F THEN None ELSE @,
                          !.authority = disk]
<1>1. /\ n.token = m.token /\ n.revs = m.revs /\ n.down = m.down \cup F
      /\ n.cached = (IF Shelf \in F THEN None ELSE m.cached) /\ n.authority = disk
      /\ n \in Memories
  BY DEF MemoryOK, Memories, DiskOK
<1>2. AuthorityRead(m) = Moved(m, n)
  BY DEF AuthorityRead, Fence
<1> HIDE DEF n
<1>4. MemoryOK(n)
  BY <1>1, SnapshotConstants DEF MemoryOK, Memories, DiskOK, FileStates, Files
<1>5. n.down = m.down => n.cached = m.cached
  BY <1>1 DEF MemoryOK
<1>6. /\ MemoryOK(Moved(m, n)) /\ Follows(m, Moved(m, n)) /\ Moved(m, n).down = n.down
  BY <1>1, <1>4, <1>5, MovesRight
<1> DEFINE d == Moved(m, n)
<1>7. MemoryOK(d) /\ Follows(m, d) /\ d.down = m.down \cup F
  BY <1>1, <1>6
<1> HIDE DEF d
<1>8. d.down = {} /\ d.token = m.token => m.down = {} /\ F = {}
  BY <1>7
<1>9. F = {} => m.authority # None /\ \A f \in Files : m.authority[f].sig = disk[f].sig
  BY DEF Files
<1>10. QED
  BY <1>2, <1>7, <1>8, <1>9 DEF d

(***************************************************************************)
(* Steps                                                                   *)
(***************************************************************************)
\* What a step that leaves the files alone need not be asked about.
Inside == /\ disk' = disk /\ changes' \in Nat /\ changes' >= changes
          /\ MemoryOK(mem') /\ Follows(mem, mem')

Kept == /\ DiskOK' /\ MemoryOK(mem)'
        /\ \A j \in DOMAIN flights : FlightOK(flights[j], mem', disk', changes')

LEMMA InsideKeeps ==
  ASSUME SnapshotInv, Inside
  PROVE  Kept
<1>1. DiskOK'
  BY DEF SnapshotInv, DiskOK, Inside, FileStates, Files
<1>2. MemoryOK(mem)'
  <2>1. changes \in Nat /\ \A f \in Files : mem'.authority # None => mem'.authority[f].sig \in Nat
    BY DEF SnapshotInv, DiskOK, Inside, MemoryOK, Memories, FileStates
  <2>2. QED
    BY <2>1 DEF Inside, MemoryOK
<1>3. ASSUME NEW j \in DOMAIN flights
      PROVE  FlightOK(flights[j], mem', disk', changes')
  <2>1. FlightOK(flights[j], mem, disk, changes) /\ changes \in Nat
    BY DEF SnapshotInv, FlightsOK, DiskOK
  <2>2. mem.token \in Nat /\ mem'.token \in Nat
    BY DEF SnapshotInv, MemoryOK, Memories, Inside
  <2>3. QED
    BY <2>1, <2>2 DEF FlightOK, Inside, Follows
<1>4. QED
  BY <1>1, <1>2, <1>3 DEF Kept

LEMMA OneFlight ==
  ASSUME SnapshotInv, Kept, NEW i \in DOMAIN flights, NEW b,
         flights' = [flights EXCEPT ![i] = b], FlightOK(b, mem', disk', changes')
  PROVE  /\ \E S : flights' \in Seq(S)
         /\ DOMAIN flights' = DOMAIN flights
         /\ \A j \in DOMAIN flights : flights'[j] = IF j = i THEN b ELSE flights[j]
         /\ \A j \in DOMAIN flights' : FlightOK(flights'[j], mem', disk', changes')
<1>1. PICK S : flights \in Seq(S)
  BY DEF SnapshotInv, FlightsOK
<1>2. flights' \in Seq(S \cup {b})
  BY <1>1
<1>3. QED
  BY <1>2 DEF Kept

LEMMA AuthorityStep ==
  ASSUME SnapshotInv, NEW identity, NEW m, Authority(identity, m)
  PROVE  MemoryOK(m) /\ Follows(mem, m) /\ changes' \in Nat /\ changes' >= changes
<1>1. MemoryOK(mem) /\ DiskOK /\ Follows(mem, mem) /\ changes \in Nat
  BY DEF SnapshotInv, Follows, MemoryOK, Memories, DiskOK
<1>2. MemoryOK(AuthorityRead(mem)) /\ Follows(mem, AuthorityRead(mem))
  BY <1>1, AuthorityReads
<1>3. QED
  BY <1>1, <1>2 DEF Authority, Change

\* An editor's new signature is one nobody has seen.
LEMMA EditStep ==
  ASSUME SnapshotInv, NEW f \in Files, NEW x \in Data, Edit(f, x)
  PROVE  SnapshotInv'
<1> DEFINE new == [disk[f] EXCEPT !.data = x, !.sig = changes + 1]
<1>1. /\ changes \in Nat /\ changes' \in Nat /\ changes' >= changes + 1
      /\ disk' = [disk EXCEPT ![f] = new] /\ new \in FileStates
      /\ new.rev = disk[f].rev /\ new.sig = changes + 1
  BY DEF Edit, Change, Signature, SnapshotInv, DiskOK, FileStates
<1>2. mem' = mem /\ entry' = entry /\ flight' = flight /\ flights' = flights /\ section' = section
  BY DEF Edit
<1> HIDE DEF new
<1>3. /\ disk \in [Files -> FileStates] /\ disk' \in [Files -> FileStates]
      /\ \A g \in Files : /\ disk[g].sig \in Nat /\ disk[g].sig <= changes
                          /\ disk'[g] = IF g = f THEN new ELSE disk[g]
  BY <1>1 DEF SnapshotInv, DiskOK, FileStates
<1>4. DiskOK'
  BY <1>1, <1>3 DEF DiskOK
<1>5. MemoryOK(mem)'
  <2>1. \A g \in Files : disk'[g].rev = disk[g].rev
    BY <1>1, <1>3
  <2>2. \A g \in Files : mem.authority # None =>
          mem.authority[g].sig \in Nat /\ mem.authority[g].sig <= changes
    BY DEF SnapshotInv, MemoryOK, Memories, FileStates
  <2>3. mem.authority # None /\ mem.authority[Shelf].sig = disk'[Shelf].sig => disk'[Shelf] = disk[Shelf]
    BY <1>1, <1>3, <2>2 DEF Files
  <2>4. QED
    BY <1>1, <1>2, <2>1, <2>2, <2>3 DEF SnapshotInv, MemoryOK
<1>6. FlightsOK'
  <2>1. ASSUME NEW j \in DOMAIN flights
        PROVE  FlightOK(flights[j], mem, disk', changes')
    <3>1. FlightOK(flights[j], mem, disk, changes)
      BY DEF SnapshotInv, FlightsOK
    <3>2. disk'[Collection].sig <= changes => disk'[Collection] = disk[Collection]
      BY <1>1, <1>3 DEF Files
    <3>3. QED
      BY <1>1, <3>1, <3>2 DEF FlightOK
  <2>2. QED
    BY <1>2, <2>1 DEF SnapshotInv, FlightsOK
<1>7. SectionOK'
  <2>1. mem.authority # None => mem.authority[Collection].sig \in Nat /\ mem.authority[Collection].sig <= changes
    BY DEF SnapshotInv, MemoryOK, Memories, FileStates, Files
  <2>2. disk'[Collection] = disk[Collection] \/ disk'[Collection].sig = changes + 1
    BY <1>1, <1>3 DEF Files
  <2>3. QED
    BY <1>1, <1>2, <2>1, <2>2 DEF SnapshotInv, SectionOK
<1>8. QED
  BY <1>2, <1>4, <1>5, <1>6, <1>7 DEF SnapshotInv, JoinedFlightIsPending, EntryIsWhatItIdentifies

\* The daemon's own save moves the token.
LEMMA SaveStep ==
  ASSUME SnapshotInv, NEW f \in Files, NEW x \in Data, Save(f, x)
  PROVE  SnapshotInv'
<1> DEFINE new == [data |-> x, rev |-> disk[f].rev + 1, sig |-> changes + 1]
           n == [mem EXCEPT !.revs[f] = disk[f].rev + 1, !.down = @ \ {f},
                            !.cached = IF f = Shelf THEN x ELSE @]
<1>1. /\ disk \in [Files -> FileStates] /\ changes \in Nat /\ changes' \in Nat /\ changes' >= changes + 1
      /\ disk' = [disk EXCEPT ![f] = new] /\ new \in FileStates
      /\ new.rev = disk[f].rev + 1 /\ new.sig = changes + 1 /\ new.data = x
  BY DEF Save, Change, Signature, SnapshotInv, DiskOK, FileStates
<1>2. mem' = Moved(mem, n) /\ entry' = entry /\ flight' = flight /\ flights' = flights /\ section' = None
  BY DEF Save
<1>3. /\ n \in Memories /\ n.token = mem.token /\ n.authority = mem.authority
      /\ n.revs = [mem.revs EXCEPT ![f] = disk[f].rev + 1] /\ n.down = mem.down \ {f}
      /\ n.cached = IF f = Shelf THEN x ELSE mem.cached
  BY <1>1 DEF SnapshotInv, MemoryOK, Memories, FileStates, Files
<1> HIDE DEF new, n
<1>4. mem.revs[f] # disk[f].rev + 1
  BY <1>1, SnapshotConstants DEF SnapshotInv, MemoryOK, Memories, FileStates
<1>5. /\ mem \in Memories /\ n.revs # mem.revs
  BY <1>3, <1>4 DEF SnapshotInv, MemoryOK, Memories
<1>6. /\ mem' \in Memories
      /\ mem'.token > mem.token /\ mem'.authority = n.authority /\ mem'.revs = n.revs
      /\ mem'.down = n.down /\ mem'.cached = n.cached
  <2>1. mem' = [n EXCEPT !.token = @ + 1]
    BY <1>2, <1>5 DEF Moved
  <2>2. QED
    BY <1>3, <1>5, <2>1 DEF Memories
<1>7. /\ disk' \in [Files -> FileStates]
      /\ \A g \in Files : /\ disk[g].sig \in Nat /\ disk[g].sig <= changes
                          /\ disk'[g] = IF g = f THEN new ELSE disk[g]
  BY <1>1 DEF SnapshotInv, DiskOK, FileStates
<1>8. DiskOK'
  BY <1>1, <1>7 DEF DiskOK
<1>9. MemoryOK(mem)'
  <2>1. \A g \in Files : mem.authority # None =>
          mem.authority[g].sig \in Nat /\ mem.authority[g].sig <= changes
    BY DEF SnapshotInv, MemoryOK, Memories, FileStates
  <2>2. \A g \in Files : mem'.revs[g] # None => mem'.revs[g] <= disk'[g].rev
    BY <1>1, <1>3, <1>6, <1>7 DEF SnapshotInv, MemoryOK, Memories, FileStates
  <2>3. CASE f = Shelf
    BY <1>1, <1>3, <1>6, <1>7, <2>1, <2>2, <2>3, SnapshotConstants DEF MemoryOK
  <2>4. CASE f # Shelf
    <3>1. mem'.revs[Shelf] = mem.revs[Shelf] /\ disk'[Shelf] = disk[Shelf] /\ mem'.cached = mem.cached
      BY <1>3, <1>6, <1>7, <2>4 DEF SnapshotInv, MemoryOK, Memories, Files
    <3>2. /\ Shelf \in mem'.down <=> Shelf \in mem.down
          /\ Startup \in mem'.down <=> Startup \in mem.down
      BY <1>3, <1>6, <2>4, SnapshotConstants
    <3>3. QED
      BY <1>1, <1>3, <1>6, <2>1, <2>2, <3>1, <3>2 DEF SnapshotInv, MemoryOK
  <2>5. QED
    BY <2>3, <2>4
<1>10. FlightsOK'
  <2>1. ASSUME NEW j \in DOMAIN flights
        PROVE  FlightOK(flights[j], mem', disk', changes')
    <3>1. FlightOK(flights[j], mem, disk, changes)
      BY DEF SnapshotInv, FlightsOK
    <3>2. disk'[Collection].sig <= changes => disk'[Collection] = disk[Collection]
      BY <1>1, <1>7 DEF Files
    <3>3. mem.token \in Nat /\ mem'.token \in Nat
      BY <1>5, <1>6 DEF Memories
    <3>4. QED
      BY <1>1, <1>6, <3>1, <3>2, <3>3 DEF FlightOK
  <2>2. QED
    BY <1>2, <2>1 DEF SnapshotInv, FlightsOK
<1>11. QED
  BY <1>2, <1>8, <1>9, <1>10 DEF SnapshotInv, SectionOK, JoinedFlightIsPending, EntryIsWhatItIdentifies

LEMMA Types ==
  ASSUME SnapshotInv
  PROVE  /\ DiskOK /\ MemoryOK(mem) /\ changes \in Nat /\ Follows(mem, mem)
         /\ DOMAIN flights \subseteq Nat /\ Requests \cap DOMAIN flights = {}
<1>1. DOMAIN flights \subseteq Nat
  BY DEF SnapshotInv, FlightsOK
<1>2. QED
  BY <1>1, SnapshotConstants DEF SnapshotInv, DiskOK, Follows, MemoryOK, Memories

\* The steps that only enter or leave a section, or change what no file says.
LEMMA SectionStep ==
  ASSUME SnapshotInv, Inside, UNCHANGED <<entry, flight, flights>>, SectionOK'
  PROVE  SnapshotInv'
<1>1. Kept
  BY InsideKeeps
<1>2. QED
  BY <1>1 DEF Kept, SnapshotInv, FlightsOK, JoinedFlightIsPending, EntryIsWhatItIdentifies

LEMMA EnterStep ==
  ASSUME SnapshotInv, NEW w \in Requests \cup DOMAIN flights, Enter(w)
  PROVE  SnapshotInv'
<1>1. Inside /\ mem'.authority = mem.authority
  BY Types, CollectionLoads DEF Enter, outside, Inside
<1>2. UNCHANGED <<entry, flight, flights>> /\ disk' = disk
  BY DEF Enter, outside
<1>3. SectionOK'
  <2>1. w \in DOMAIN flights => flights[w].at = "publish" /\ AtStake(w) = flights[w].calc
    BY Types DEF Enter, Wants, AtStake
  <2>2. /\ section'.of = w /\ section'.valid = FALSE
        /\ section' = [of |-> section'.of, at |-> section'.at, valid |-> section'.valid,
                       enabled |-> section'.enabled]
    BY DEF Enter
  <2>3. QED
    BY <1>2, <2>1, <2>2 DEF SectionOK
<1>4. QED
  BY <1>1, <1>2, <1>3, SectionStep

LEMMA ValidateStep ==
  ASSUME SnapshotInv, Validate
  PROVE  SnapshotInv'
<1>1. Inside /\ mem'.authority = mem.authority
  BY Types, CollectionLoads DEF Validate, outside, Inside
<1>2. UNCHANGED <<entry, flight, flights>> /\ disk' = disk
  BY DEF Validate, outside
<1>3. SectionOK'
  <2>1. /\ section.of \in Requests \cup DOMAIN flights
        /\ section.of \in DOMAIN flights => flights[section.of].at = "publish"
    BY DEF SnapshotInv, SectionOK, Validate
  <2>2. section.of \in DOMAIN flights => AtStake(section.of) = flights[section.of].calc
    BY Types DEF AtStake
  <2>3. section' = [of |-> section.of, at |-> "decide",
                    valid |-> ValidateCurrent(AtStake(section.of), mem'), enabled |-> section.enabled]
    BY DEF SnapshotInv, SectionOK, Validate
  <2>4. QED
    BY <1>2, <2>1, <2>2, <2>3 DEF SectionOK, ValidateCurrent
<1>4. QED
  BY <1>1, <1>2, <1>3, SectionStep

LEMMA CaptureHydratesStep ==
  ASSUME SnapshotInv, NEW i \in DOMAIN flights, CaptureHydrates(i)
  PROVE  SnapshotInv'
<1>1. Inside
  BY Types, Hydrates DEF CaptureHydrates, outside, Inside
<1>2. UNCHANGED <<entry, flight, flights>>
  BY DEF CaptureHydrates
<1>3. SectionOK'
  BY <1>2 DEF CaptureHydrates, SectionOK
<1>4. QED
  BY <1>1, <1>2, <1>3, SectionStep

LEMMA AroundStep ==
  ASSUME SnapshotInv, Judge \/ Tick
  PROVE  SnapshotInv'
<1>1. Inside /\ mem' = mem
  BY Types DEF Judge, Tick, Change, Inside, SnapshotInv
<1>2. UNCHANGED <<disk, entry, flight, flights, section>>
  BY DEF Judge, Tick
<1>3. SectionOK'
  BY <1>1, <1>2 DEF SnapshotInv, SectionOK
<1>4. QED
  BY <1>1, <1>2, <1>3, SectionStep

\* The steps that move one flight on, outside of the cache's sections.
LEMMA BuildStep ==
  ASSUME SnapshotInv, Inside, NEW i \in DOMAIN flights, NEW b,
         flights' = [flights EXCEPT ![i] = b], FlightOK(b, mem', disk', changes'),
         b.result = flights[i].result, b.at # "done",
         section' = None, UNCHANGED <<entry, flight>>
  PROVE  SnapshotInv'
<1>1. Kept
  BY InsideKeeps
<1>2. /\ \E S : flights' \in Seq(S)
      /\ DOMAIN flights' = DOMAIN flights
      /\ \A j \in DOMAIN flights : flights'[j] = IF j = i THEN b ELSE flights[j]
      /\ \A j \in DOMAIN flights' : FlightOK(flights'[j], mem', disk', changes')
  BY <1>1, OneFlight
<1>3. FlightsOK'
  BY <1>2 DEF SnapshotInv, FlightsOK
<1>4. JoinedFlightIsPending'
  BY <1>2 DEF SnapshotInv, FlightsOK, JoinedFlightIsPending
<1>5. QED
  BY <1>1, <1>3, <1>4 DEF Kept, SnapshotInv, SectionOK, EntryIsWhatItIdentifies

LEMMA BuildBeginsStep ==
  ASSUME SnapshotInv, NEW i \in DOMAIN flights, BuildBegins(i)
  PROVE  SnapshotInv'
<1>1. PICK identity \in {Says(disk), None}, m \in {mem, AuthorityRead(mem)} :
        /\ Authority(identity, m) /\ mem' = m
        /\ flights' = [flights EXCEPT ![i].base = identity, ![i].at = "capture"]
  BY DEF BuildBegins
<1> DEFINE b == [flights[i] EXCEPT !.base = identity, !.at = "capture"]
<1>2. Inside
  BY <1>1, AuthorityStep DEF BuildBegins, Quiet, outside, Inside
<1>3. FlightOK(flights[i], mem, disk, changes)
  BY DEF SnapshotInv, FlightsOK
<1>4. flights' = [flights EXCEPT ![i] = b]
  BY <1>1 DEF SnapshotInv, FlightsOK
<1>5. b.at = "capture" /\ Shaped(b) /\ b.result = flights[i].result /\ b.calc = flights[i].calc
  <2>1. PICK U : flights[i] \in FlightsOf(U)
    BY <1>3 DEF FlightOK, Shaped
  <2>2. b \in FlightsOf(U \cup {identity, "capture"})
    BY <2>1 DEF FlightsOf
  <2>3. b.at = "capture" /\ b.result = flights[i].result /\ b.calc = flights[i].calc
    BY <2>1 DEF FlightsOf
  <2>4. QED
    BY <2>2, <2>3 DEF Shaped
<1> HIDE DEF b
<1>6. FlightOK(b, mem', disk', changes')
  BY <1>3, <1>5 DEF FlightOK, Captured, BuildBegins, Building
<1>7. QED
  BY <1>2, <1>4, <1>5, <1>6, BuildStep DEF BuildBegins, Quiet

LEMMA CaptureLoadsStep ==
  ASSUME SnapshotInv, NEW i \in DOMAIN flights, CaptureLoads(i)
  PROVE  SnapshotInv'
<1> DEFINE says == [f \in Files |-> IF f = Shelf THEN mem'.cached ELSE disk[f].data]
           made == [says |-> says, judgments |-> None, evaluated |-> now, expires |-> ExpiresAfter(now)]
           b == [flights[i] EXCEPT !.made = made, !.token = mem'.token, !.at = "frame"]
<1>1. flights' = [flights EXCEPT ![i] = b]
  BY DEF CaptureLoads, SnapshotInv, FlightsOK
<1>2. Inside
  <2>1. MemoryOK(CollectionLoaded(mem)) /\ Follows(mem, CollectionLoaded(mem))
    BY Types, CollectionLoads
  <2>2. mem' = ShelfLoaded(CollectionLoaded(mem)) /\ disk' = disk /\ changes' = changes
    BY DEF CaptureLoads, outside
  <2>3. MemoryOK(mem') /\ Follows(CollectionLoaded(mem), mem')
    BY <2>1, <2>2, Types, ShelfLoads
  <2>4. QED
    BY <2>1, <2>2, <2>3, Types, Follows3 DEF Inside
<1>3. FlightOK(flights[i], mem, disk, changes) /\ flights[i].at = "capture"
  BY DEF SnapshotInv, FlightsOK, CaptureLoads, Building
<1>4. MadeShaped(made) /\ made.says[Shelf] = mem'.cached
  <2> DEFINE V == {mem'.cached} \cup {disk[f].data : f \in Files}
             U == {None, now, ExpiresAfter(now)}
  <2>1. says \in [Files -> V]
    OBVIOUS
  <2> HIDE DEF says, V
  <2>2. made \in MadeOf(U, V) /\ made.says = says
    BY <2>1 DEF MadeOf
  <2>3. QED
    BY <2>2 DEF MadeShaped, Files, says
<1> HIDE DEF made
<1>5. /\ b.at = "frame" /\ Shaped(b) /\ b.result = flights[i].result /\ b.calc = flights[i].calc
      /\ b.made = made /\ b.token = mem'.token
  <2>1. PICK U : flights[i] \in FlightsOf(U)
    BY <1>3 DEF FlightOK, Shaped
  <2>2. b \in FlightsOf(U \cup {made, mem'.token, "frame"})
    BY <2>1 DEF FlightsOf
  <2>3. /\ b.at = "frame" /\ b.result = flights[i].result /\ b.calc = flights[i].calc
        /\ b.made = made /\ b.token = mem'.token
    BY <2>1 DEF FlightsOf
  <2>4. QED
    BY <2>2, <2>3 DEF Shaped
<1> HIDE DEF b
<1>6. FlightOK(b, mem', disk', changes')
  <2>1. mem'.token \in Nat
    BY <1>2 DEF Inside, MemoryOK, Memories
  <2>2. QED
    BY <1>3, <1>4, <1>5, <2>1 DEF FlightOK, Captured
<1>7. QED
  BY <1>1, <1>2, <1>5, <1>6, BuildStep DEF CaptureLoads

LEMMA FrameTakenStep ==
  ASSUME SnapshotInv, NEW i \in DOMAIN flights, FrameTaken(i)
  PROVE  SnapshotInv'
<1> DEFINE a == flights[i]
           calc == [sig |-> disk[Collection].sig, token |-> mem'.token, judgments |-> judgments]
<1>1. Inside
  <2>1. MemoryOK(Hydrated(mem)) /\ Follows(mem, Hydrated(mem))
    BY Types, Hydrates
  <2>2. mem' = CollectionLoaded(Hydrated(mem)) /\ disk' = disk /\ changes' = changes
    BY DEF FrameTaken, Quiet, outside
  <2>3. MemoryOK(mem') /\ Follows(Hydrated(mem), mem')
    BY <2>1, <2>2, Types, CollectionLoads
  <2>4. QED
    BY <2>1, <2>2, <2>3, Types, Follows3 DEF Inside
<1>2. FlightOK(a, mem', disk', changes') /\ a.at = "frame"
  BY <1>1, InsideKeeps DEF Kept, FrameTaken, Building
<1>3. PICK U : a \in FlightsOf(U)
  BY <1>2 DEF FlightOK, Shaped
<1>4. CASE disk[Collection].data # a.made.says[Collection]
  <2> DEFINE b == [a EXCEPT !.at = "still"]
  <2>1. flights' = [flights EXCEPT ![i] = b]
    BY <1>4 DEF FrameTaken, SnapshotInv, FlightsOK
  <2>2. b \in FlightsOf(U \cup {"still"})
    BY <1>3 DEF FlightsOf
  <2>3. b.at = "still" /\ b.result = a.result /\ b.calc = a.calc /\ b.made = a.made /\ b.token = a.token
    BY <1>3 DEF FlightsOf
  <2> HIDE DEF b
  <2>4. FlightOK(b, mem', disk', changes')
    BY <1>2, <2>2, <2>3 DEF FlightOK, Captured, Shaped
  <2>5. QED
    BY <1>1, <2>1, <2>3, <2>4, BuildStep DEF FrameTaken, Quiet
<1>5. CASE disk[Collection].data = a.made.says[Collection]
  <2> DEFINE made == [a.made EXCEPT !.judgments = judgments]
             b == [a EXCEPT !.at = "prepare", !.made = made, !.calc = calc]
  <2>1. PICK T, V : a.made \in MadeOf(T, V)
    BY <1>2 DEF FlightOK, Captured, MadeShaped
  <2>2. made \in MadeOf(T \cup {judgments}, V) /\ made.says = a.made.says
    BY <2>1 DEF MadeOf
  <2>3. flights' = [flights EXCEPT ![i] = b]
    BY <1>3, <1>5 DEF FrameTaken, SnapshotInv, FlightsOK, FlightsOf
  <2> HIDE DEF made
  <2>4. b \in FlightsOf(U \cup {"prepare", made, calc})
    BY <1>3 DEF FlightsOf
  <2>5. b.at = "prepare" /\ b.result = a.result /\ b.calc = calc /\ b.made = made /\ b.token = a.token
    BY <1>3 DEF FlightsOf
  <2> HIDE DEF b
  <2>6. calc.sig = disk[Collection].sig /\ disk[Collection].sig \in Nat /\ disk[Collection].sig <= changes'
    BY <1>1, Types DEF DiskOK, FileStates, Files, Inside
  <2> HIDE DEF calc
  <2>7. disk' = disk
    BY <1>1 DEF Inside
  <2>8. FlightOK(b, mem', disk', changes')
    BY <1>2, <1>5, <2>2, <2>4, <2>5, <2>6, <2>7 DEF FlightOK, Captured, Shaped, MadeShaped
  <2>9. QED
    BY <1>1, <2>3, <2>5, <2>8, BuildStep DEF FrameTaken, Quiet
<1>6. QED
  BY <1>4, <1>5

LEMMA PreparedStep ==
  ASSUME SnapshotInv, NEW i \in DOMAIN flights, Prepared(i)
  PROVE  SnapshotInv'
<1> DEFINE a == flights[i]
<1>1. Inside
  BY Types, CollectionLoads DEF Prepared, Quiet, outside, Inside
<1>2. FlightOK(a, mem', disk', changes') /\ a.at = "prepare"
  BY <1>1, InsideKeeps DEF Kept, Prepared, Building
<1>3. PICK U : a \in FlightsOf(U)
  BY <1>2 DEF FlightOK, Shaped
<1>4. PICK calc \in {a.calc, None} : flights' = [flights EXCEPT ![i] = [a EXCEPT !.at = "still", !.calc = calc]]
  <2>1. CASE ValidateCurrent(a.calc, mem')
    <3>1. [a EXCEPT !.at = "still", !.calc = a.calc] = [a EXCEPT !.at = "still"]
      BY <1>3 DEF FlightsOf
    <3>2. flights' = [flights EXCEPT ![i] = [a EXCEPT !.at = "still"]]
      BY <2>1 DEF Prepared, SnapshotInv, FlightsOK
    <3>3. QED
      BY <3>1, <3>2
  <2>2. CASE ~ValidateCurrent(a.calc, mem')
    BY <2>2 DEF Prepared, SnapshotInv, FlightsOK
  <2>3. QED
    BY <2>1, <2>2
<1> DEFINE b == [a EXCEPT !.at = "still", !.calc = calc]
<1>5. b \in FlightsOf(U \cup {"still", None})
  BY <1>3 DEF FlightsOf
<1>6. b.at = "still" /\ b.result = a.result /\ b.calc = calc /\ b.made = a.made /\ b.token = a.token
  BY <1>3 DEF FlightsOf
<1> HIDE DEF b
<1>7. FlightOK(b, mem', disk', changes')
  BY <1>2, <1>5, <1>6 DEF FlightOK, Captured, Shaped
<1>8. QED
  BY <1>1, <1>4, <1>6, <1>7, BuildStep DEF Prepared, Quiet, b

LEMMA StillCurrentStep ==
  ASSUME SnapshotInv, NEW i \in DOMAIN flights, StillCurrent(i)
  PROVE  SnapshotInv'
<1> DEFINE a == flights[i]
<1>1. Inside
  <2>1. mem' \in {mem, CollectionLoaded(mem)} /\ disk' = disk /\ changes' = changes
    BY DEF StillCurrent, Quiet, outside
  <2>2. QED
    BY <2>1, Types, CollectionLoads DEF Inside
<1>2. FlightOK(a, mem', disk', changes') /\ a.at = "still"
  BY <1>1, InsideKeeps DEF Kept, StillCurrent, Building
<1>3. PICK U : a \in FlightsOf(U)
  BY <1>2 DEF FlightOK, Shaped
<1>4. PICK at \in {"publish", "clear"} : flights' = [flights EXCEPT ![i] = [a EXCEPT !.at = at]]
  BY DEF StillCurrent, SnapshotInv, FlightsOK
<1> DEFINE b == [a EXCEPT !.at = at]
<1>5. b \in FlightsOf(U \cup {at})
  BY <1>3 DEF FlightsOf
<1>6. b.at = at /\ b.result = a.result /\ b.calc = a.calc /\ b.made = a.made /\ b.token = a.token
  BY <1>3 DEF FlightsOf
<1> HIDE DEF b
<1>7. FlightOK(b, mem', disk', changes')
  BY <1>2, <1>5, <1>6 DEF FlightOK, Captured, Shaped
<1>8. QED
  BY <1>1, <1>4, <1>6, <1>7, BuildStep DEF StillCurrent, Quiet, b

LEMMA GivesUpStep ==
  ASSUME SnapshotInv, NEW i \in DOMAIN flights, GivesUp(i)
  PROVE  SnapshotInv'
<1> DEFINE a == flights[i]
           b == [a EXCEPT !.at = "done", !.result = "rejected"]
<1>1. Inside
  BY Types DEF GivesUp, outside, Inside
<1>2. Kept
  BY <1>1, InsideKeeps
<1>3. flights' = [flights EXCEPT ![i] = b]
  BY DEF GivesUp, SnapshotInv, FlightsOK
<1>4. PICK U : a \in FlightsOf(U)
  BY <1>2 DEF Kept, FlightOK, Shaped
<1>5. b \in FlightsOf(U \cup {"done", "rejected"}) /\ b.at = "done"
  BY <1>4 DEF FlightsOf
<1> HIDE DEF b
<1>6. FlightOK(b, mem', disk', changes')
  BY <1>5 DEF FlightOK, Captured, Shaped
<1>7. /\ \E S : flights' \in Seq(S)
      /\ DOMAIN flights' = DOMAIN flights
      /\ \A j \in DOMAIN flights : flights'[j] = IF j = i THEN b ELSE flights[j]
      /\ \A j \in DOMAIN flights' : FlightOK(flights'[j], mem', disk', changes')
  BY <1>2, <1>3, <1>6, OneFlight
<1>8. flight' # None => flight' = flight /\ flight # i
  BY DEF GivesUp
<1>9. FlightsOK'
  BY <1>7, <1>8 DEF SnapshotInv, FlightsOK
<1>10. JoinedFlightIsPending'
  BY <1>7, <1>8 DEF SnapshotInv, FlightsOK, JoinedFlightIsPending
<1>11. QED
  BY <1>2, <1>9, <1>10 DEF Kept, SnapshotInv, SectionOK, EntryIsWhatItIdentifies, GivesUp

LEMMA BuildFailedStep ==
  ASSUME SnapshotInv, NEW r \in Requests, BuildFailed(r)
  PROVE  SnapshotInv'
<1>1. Inside /\ mem' = mem
  BY Types DEF BuildFailed, outside, Inside
<1>2. UNCHANGED <<disk, entry, flight, flights, section>>
  BY DEF BuildFailed, outside
<1>3. SectionOK'
  BY <1>1, <1>2 DEF SnapshotInv, SectionOK
<1>4. QED
  BY <1>1, <1>2, <1>3, SectionStep

LEMMA CheckStep ==
  ASSUME SnapshotInv, NEW r \in Requests, Check(r)
  PROVE  SnapshotInv'
<1>1. PICK identity \in {Says(disk), None}, m \in {mem, AuthorityRead(mem)} :
        Authority(identity, m) /\ mem' = m
  BY DEF Check
<1>2. Inside
  BY <1>1, AuthorityStep DEF Check, outside, Inside
<1>3. Kept
  BY <1>2, InsideKeeps
<1>4. UNCHANGED <<flight, flights>> /\ section' = None /\ entry' \in {entry, None}
  BY DEF Check
<1>5. QED
  BY <1>3, <1>4
  DEF Kept, SnapshotInv, FlightsOK, SectionOK, JoinedFlightIsPending, EntryIsWhatItIdentifies

LEMMA ReserveStep ==
  ASSUME SnapshotInv, NEW r \in Requests, Reserve(r)
  PROVE  SnapshotInv'
<1>1. PICK identity \in {Says(disk), None}, m \in {mem, AuthorityRead(mem)} :
        /\ Authority(identity, m) /\ mem' = m
        /\ entry' \in {entry, None}
        /\ \/ UNCHANGED <<flight, flights>>
           \/ flight' = Len(flights) + 1 /\ flights' = Append(flights, NewFlight(identity, m))
  BY DEF Reserve
<1>2. Inside
  BY <1>1, AuthorityStep DEF Reserve, outside, Inside
<1>3. Kept
  BY <1>2, InsideKeeps
<1>4. section' = None
  BY DEF Reserve
<1>5. CASE UNCHANGED <<flight, flights>>
  BY <1>1, <1>3, <1>4, <1>5
  DEF Kept, SnapshotInv, FlightsOK, SectionOK, JoinedFlightIsPending, EntryIsWhatItIdentifies
<1>6. CASE flight' = Len(flights) + 1 /\ flights' = Append(flights, NewFlight(identity, m))
  <2> DEFINE b == NewFlight(identity, m)
  <2>1. PICK S : flights \in Seq(S)
    BY DEF SnapshotInv, FlightsOK
  <2>2. /\ b.at = "authority" /\ b.calc = None /\ b.result = "pending"
        /\ b \in FlightsOf({"authority", section.enabled, m.token, identity, None, 0, "pending", FALSE})
    BY DEF NewFlight, FlightsOf
  <2> HIDE DEF b
  <2>3. FlightOK(b, mem', disk', changes')
    BY <2>2 DEF FlightOK, Captured, Shaped
  <2>4. /\ flights' \in Seq(S \cup {b}) /\ Len(flights') = Len(flights) + 1
        /\ flights'[Len(flights) + 1] = b
        /\ \A j \in DOMAIN flights : flights'[j] = flights[j]
        /\ DOMAIN flights' = DOMAIN flights \cup {Len(flights) + 1}
    BY <1>6, <2>1 DEF b
  <2>5. FlightsOK'
    BY <1>3, <1>6, <2>3, <2>4 DEF FlightsOK, Kept
  <2>6. JoinedFlightIsPending'
    BY <1>6, <2>2, <2>4 DEF JoinedFlightIsPending
  <2>7. QED
    BY <1>1, <1>3, <1>4, <2>5, <2>6 DEF Kept, SnapshotInv, SectionOK, EntryIsWhatItIdentifies
<1>7. QED
  BY <1>1, <1>5, <1>6

\* What is stored is what the files say: the settings because no token moved and nothing was
\* fenced since they were captured, the collection because its signature is still the one that
\* was scored.
LEMMA StoredSaysIdentity ==
  ASSUME SnapshotInv, NEW i \in DOMAIN flights, Deciding(i), NEW identity, NEW m,
         Authority(identity, m), Publishable(i, identity, m), flights[i].calc # None
  PROVE  flights[i].made.says = identity
<1> DEFINE b == flights[i]
<1>1. /\ section.of = i /\ section.at = "decide" /\ section.valid /\ section # None
      /\ b.base # None /\ b.base = identity /\ m.down = {} /\ b.token = m.token
  BY DEF Publishable, Deciding
<1>2. identity = Says(disk) /\ m = AuthorityRead(mem)
  BY <1>1 DEF Authority
<1>3. b.at = "publish" /\ FlightOK(b, mem, disk, changes)
  BY <1>1 DEF SnapshotInv, SectionOK, FlightsOK
<1>4. /\ MemoryOK(m) /\ Follows(mem, m)
      /\ m.down = {} /\ m.token = mem.token =>
           /\ mem.down = {} /\ mem.authority # None
           /\ \A f \in Files : mem.authority[f].sig = disk[f].sig
  BY <1>2, Types, AuthorityReads
<1>5. mem.token \in Nat /\ m.token \in Nat /\ b.token \in Nat /\ b.token <= mem.token
  BY <1>3, <1>4, Types DEF MemoryOK, Memories, FlightOK, Captured
<1>6. b.token = mem.token /\ m.token = mem.token
  BY <1>1, <1>4, <1>5 DEF Follows
<1>7. /\ mem.down = {} /\ mem.authority # None
      /\ mem.authority[Shelf].sig = disk[Shelf].sig
      /\ mem.authority[Collection].sig = disk[Collection].sig
  BY <1>1, <1>4, <1>6 DEF Files
<1>8. b.made.says[Shelf] = disk[Shelf].data
  BY <1>3, <1>6, <1>7, Types DEF FlightOK, Captured, MemoryOK
<1>9. b.made.says[Collection] = disk[Collection].data
  <2>1. b.calc.sig = disk[Collection].sig
    BY <1>1, <1>7 DEF SnapshotInv, SectionOK
  <2>2. QED
    BY <1>3, <2>1 DEF FlightOK, Captured
<1>10. PICK U, V : b.made \in MadeOf(U, V)
  BY <1>3 DEF FlightOK, Captured, MadeShaped
<1>11. b.made.says \in [Files -> V]
  BY <1>10 DEF MadeOf
<1>12. QED
  BY <1>2, <1>8, <1>9, <1>11 DEF Says, Files

LEMMA PublishStep ==
  ASSUME SnapshotInv, NEW i \in DOMAIN flights, Publish(i)
  PROVE  SnapshotInv'
<1> DEFINE a == flights[i]
<1>1. PICK identity \in {Says(disk), None}, m \in {mem, AuthorityRead(mem)} :
       /\ Authority(identity, m)
       /\ mem' = m
       /\ IF ~Publishable(i, identity, m)
          THEN /\ flights' = [flights EXCEPT ![i].at = "clear"]
               /\ UNCHANGED <<entry, flight>>
          ELSE LET b == flights[i]
                   stored == b.calc # None /\ IsReusable(b.calc, m)
               IN /\ entry' = IF stored
                              THEN [identity |-> identity, token |-> b.token, made |-> b.made,
                                    calc |-> b.calc]
                              ELSE entry
                  /\ Landed(i, stored)
                  /\ flights' = [flights EXCEPT ![i].at = "done", ![i].result = "resolved",
                                                ![i].cacheable = stored, ![i].identity = identity]
  BY DEF Publish
<1>2. Inside
  BY <1>1, AuthorityStep DEF Publish, outside, Inside
<1>3. Kept
  BY <1>2, InsideKeeps
<1>4. PICK U : a \in FlightsOf(U)
  BY <1>3 DEF Kept, FlightOK, Shaped
<1>5. Deciding(i) /\ section' = None
  BY DEF Publish
<1>6. CASE ~Publishable(i, identity, m)
  <2> DEFINE b == [a EXCEPT !.at = "clear"]
  <2>1. flights' = [flights EXCEPT ![i] = b]
    BY <1>1, <1>6 DEF SnapshotInv, FlightsOK
  <2>2. b \in FlightsOf(U \cup {"clear"}) /\ b.at = "clear" /\ b.result = a.result
    BY <1>4 DEF FlightsOf
  <2> HIDE DEF b
  <2>3. FlightOK(b, mem', disk', changes')
    BY <2>2 DEF FlightOK, Captured, Shaped
  <2>4. QED
    BY <1>1, <1>2, <1>5, <1>6, <2>1, <2>2, <2>3, BuildStep
<1>7. CASE Publishable(i, identity, m)
  <2> DEFINE stored == a.calc # None /\ IsReusable(a.calc, m)
             b == [a EXCEPT !.at = "done", !.result = "resolved", !.cacheable = stored,
                            !.identity = identity]
  <2>1. flights' = [flights EXCEPT ![i] = b]
    BY <1>1, <1>7 DEF SnapshotInv, FlightsOK
  <2>2. b \in FlightsOf(U \cup {"done", "resolved", stored, identity}) /\ b.at = "done"
    BY <1>4 DEF FlightsOf
  <2> HIDE DEF b
  <2>3. FlightOK(b, mem', disk', changes')
    BY <2>2 DEF FlightOK, Captured, Shaped
  <2>4. /\ \E S : flights' \in Seq(S)
        /\ DOMAIN flights' = DOMAIN flights
        /\ \A j \in DOMAIN flights' : FlightOK(flights'[j], mem', disk', changes')
    BY <1>3, <2>1, <2>3, OneFlight
  <2>5. flight' = None
    BY <1>1, <1>7 DEF Landed
  <2>6. EntryIsWhatItIdentifies'
    <3>1. a.calc # None => a.made.says = identity
      BY <1>1, <1>5, <1>7, StoredSaysIdentity
    <3>2. entry' = IF stored THEN [identity |-> identity, token |-> a.token, made |-> a.made,
                                   calc |-> a.calc]
                   ELSE entry
      BY <1>1, <1>7
    <3>3. QED
      BY <3>1, <3>2 DEF SnapshotInv, EntryIsWhatItIdentifies
  <2>7. QED
    BY <1>3, <1>5, <2>4, <2>5, <2>6 DEF Kept, SnapshotInv, FlightsOK, SectionOK, JoinedFlightIsPending
<1>8. QED
  BY <1>6, <1>7

(***************************************************************************)
(* The specification                                                       *)
(***************************************************************************)
LEMMA InitIsRight ==
  Init => SnapshotInv
<1> SUFFICES ASSUME Init PROVE SnapshotInv
  OBVIOUS
<1>1. PICK x \in Data : disk = [f \in Files |-> [data |-> x, rev |-> 0, sig |-> 0]]
  BY DEF Init
<1>2. /\ disk \in [Files -> FileStates] /\ changes \in {0, 2}
      /\ \A f \in Files : disk[f].sig = 0 /\ disk[f].rev = 0
  BY <1>1 DEF Init, ColdStart, WarmStart, FileStates
<1>3. DiskOK
  BY <1>2 DEF DiskOK
<1>4. MemoryOK(mem)
  <2>1. CASE ColdStart
    BY <1>2, <2>1, SnapshotConstants DEF ColdStart, MemoryOK, Memories, Files
  <2>2. CASE WarmStart
    <3>1. mem.cached = disk[Shelf].data /\ mem.cached \in Data
      BY <1>1, <2>2 DEF WarmStart, Files
    <3>2. QED
      BY <1>2, <2>2, <3>1, SnapshotConstants DEF WarmStart, MemoryOK, Memories
  <2>3. QED
    BY <2>1, <2>2 DEF Init
<1>5. FlightsOK /\ SectionOK /\ JoinedFlightIsPending /\ EntryIsWhatItIdentifies
  <2>1. flights = <<>> /\ flights \in Seq({}) /\ DOMAIN flights = {}
    BY DEF Init
  <2>2. QED
    BY <2>1 DEF Init, FlightsOK, SectionOK, JoinedFlightIsPending, EntryIsWhatItIdentifies
<1>6. QED
  BY <1>3, <1>4, <1>5 DEF SnapshotInv

LEMMA NextKeeps ==
  SnapshotInv /\ [Next]_vars => SnapshotInv'
<1> SUFFICES ASSUME SnapshotInv, [Next]_vars PROVE SnapshotInv'
  OBVIOUS
<1>1. CASE Surroundings
  BY <1>1, EditStep, SaveStep, AroundStep DEF Surroundings
<1>2. CASE Works
  <2>1. CASE Validate
    BY <2>1, ValidateStep
  <2>2. CASE \E w \in Requests \cup DOMAIN flights : Enter(w)
    BY <2>2, EnterStep
  <2>3. CASE \E i \in DOMAIN flights : Builds(i)
    BY <2>3, BuildBeginsStep, CaptureHydratesStep, CaptureLoadsStep, FrameTakenStep, PreparedStep,
       StillCurrentStep, PublishStep, GivesUpStep DEF Builds
  <2>4. CASE \E r \in Requests : Asks(r)
    BY <2>4, ReserveStep, BuildFailedStep, CheckStep DEF Asks
  <2>5. QED
    BY <1>2, <2>1, <2>2, <2>3, <2>4 DEF Works
<1>3. CASE UNCHANGED vars
  <2>1. Inside /\ UNCHANGED <<disk, mem, entry, flight, flights, section>>
    BY <1>3, Types DEF vars, Inside
  <2>2. SectionOK'
    BY <2>1 DEF SnapshotInv, SectionOK
  <2>3. QED
    BY <2>1, <2>2, SectionStep
<1>4. QED
  BY <1>1, <1>2, <1>3 DEF Next

\* The memory, the flights and the sections stay as the steps leave them: what storage would
\* serve is the file's as long as nothing was fenced, what a build captured is what storage would
\* serve as long as the token has not moved, and what a section validated still holds unless the
\* authority read that ends it will notice.
THEOREM SnapshotInvariant == Spec => []SnapshotInv
<1>1. Init => SnapshotInv
  BY InitIsRight
<1>2. SnapshotInv /\ [Next]_vars => SnapshotInv'
  BY NextKeeps
<1>3. QED
  BY <1>1, <1>2, PTL DEF Spec

\* The cached snapshot says exactly what the files said together under the identity it is cached
\* with (publish, collection-snapshot-cache-service.ts), for any requests, data and bound.
THEOREM CachedSaysWhatItIdentifies == Spec => []EntryIsWhatItIdentifies
<1>1. SnapshotInv => EntryIsWhatItIdentifies
  BY DEF SnapshotInv
<1>2. QED
  BY <1>1, SnapshotInvariant, PTL

\* Whoever joins a flight joins one that has not landed and will still be settled.
THEOREM NobodyJoinsALandedFlight == Spec => []JoinedFlightIsPending
<1>1. SnapshotInv => JoinedFlightIsPending
  BY DEF SnapshotInv
<1>2. QED
  BY <1>1, SnapshotInvariant, PTL

(***************************************************************************)
(* What is answered: the freshness and the judgments of every snapshot,    *)
(* from the build that made it to the request that takes it.               *)
(***************************************************************************)
Dated(made, t) ==
  made.evaluated \in Nat /\ made.evaluated <= t /\ made.expires = ExpiresAfter(made.evaluated)

NotAhead(j, revision) == j \in Nat /\ (revision # Gone => j <= revision)

\* When `a` expires at the latest when `b` does.
NoLater(a, b) == b = None \/ (a # None /\ a <= b)

\* A result that was stored is no newer than what is cached, which may be answered in its place.
BuiltOK(b, cached, revision, t) ==
  /\ b.at # "done" => b.result = "pending" /\ b.cacheable = FALSE
  /\ Captured(b) \/ (b.result = "resolved") =>
       Dated(b.made, t) /\ (b.calc # None => b.made.judgments = b.calc.judgments)
  /\ b.result = "resolved" /\ b.calc # None => b.identity # None /\ b.made.says = b.identity
  /\ b.cacheable =>
       /\ b.result = "resolved" /\ b.calc # None /\ NotAhead(b.calc.judgments, revision)
       /\ cached # None => /\ cached.calc.judgments >= b.calc.judgments
                           /\ NoLater(b.made.expires, cached.made.expires)

CachedOK(cached, revision, t) ==
  cached # None => /\ cached.identity # None /\ cached.made.judgments = cached.calc.judgments
                   /\ NotAhead(cached.calc.judgments, revision) /\ Dated(cached.made, t)

RequestsOf(U) == [at : U, attempt : U, flight : U, answer : U]

WaitersOK ==
  /\ \E U : requests \in [Requests -> RequestsOf(U)]
  /\ \A r \in Requests : requests[r].at = "wait" => requests[r].flight \in DOMAIN flights
  /\ section # None /\ section.of \in Requests /\ requests[section.of].at = "wait" =>
       flights[requests[section.of].flight].result = "resolved"

TimesOK == now \in Nat /\ judgments \in Nat \cup {Gone}

AnswersOK ==
  /\ TimesOK /\ WaitersOK /\ CachedOK(entry, judgments, now)
  /\ \A i \in DOMAIN flights : BuiltOK(flights[i], entry, judgments, now)

LEMMA LeastTransition ==
  ASSUME NEW S \in SUBSET Nat, S # {}
  PROVE  \E m \in S : \A n \in S : m <= n
<1> DEFINE Less == {p \in Nat \X Nat : p[1] < p[2]}
<1>1. IsWellFoundedOn(Less, Nat)
  BY NatLessThanWellFounded DEF OpToRel
<1>2. \A m, n \in Nat : <<n, m>> \notin Less => m <= n
  OBVIOUS
<1> HIDE DEF Less
<1>3. \E m \in S : \A n \in S : ~(<<n, m>> \in Less)
  BY <1>1, WFMin
<1>4. QED
  BY <1>2, <1>3

\* The next transition is the first one there is after `t`.
LEMMA NextTransition ==
  ASSUME NEW t \in Nat
  PROVE  \/ ExpiresAfter(t) = None /\ \A u \in Transitions : ~(u > t)
         \/ /\ ExpiresAfter(t) \in Transitions /\ ExpiresAfter(t) > t
            /\ \A u \in Transitions : u > t => ExpiresAfter(t) <= u
<1> DEFINE After == {u \in Transitions : u > t}
<1>1. CASE After # {}
  <2>1. After \in SUBSET Nat
    BY SnapshotConstants
  <2>2. PICK m \in After : \A n \in After : m <= n
    BY <1>1, <2>1, LeastTransition
  <2>3. m \in Transitions /\ m > t /\ \A w \in Transitions : w > t => m <= w
    BY <2>2
  <2>4. ExpiresAfter(t) = CHOOSE u \in Transitions : u > t /\ \A w \in Transitions : w > t => u <= w
    BY <2>3 DEF ExpiresAfter
  <2>5. QED
    BY <2>3, <2>4
<1>2. CASE After = {}
  BY <1>2 DEF ExpiresAfter
<1>3. QED
  BY <1>1, <1>2

LEMMA ExpiryIsATime ==
  ASSUME NEW t \in Nat
  PROVE  ExpiresAfter(t) = None \/ ExpiresAfter(t) \in Nat
BY NextTransition, SnapshotConstants

\* As long as a snapshot is fresh, nothing evaluated up to now outlives it.
LEMMA FreshOutlives ==
  ASSUME NEW a, NEW b, now \in Nat, Dated(a, now), Dated(b, now), Fresh(b)
  PROVE  NoLater(a.expires, b.expires)
<1>1. a.evaluated \in Nat /\ a.evaluated <= now /\ b.evaluated \in Nat
  BY DEF Dated
<1>2. CASE b.expires = None
  BY <1>2 DEF NoLater
<1>3. CASE b.expires # None
  <2>1. b.expires \in Transitions /\ b.expires \in Nat
    BY <1>1, <1>3, NextTransition, SnapshotConstants DEF Dated
  <2>2. b.expires > a.evaluated
    BY <1>1, <1>3, <2>1 DEF Fresh
  <2>3. a.expires \in Transitions /\ a.expires <= b.expires
    BY <1>1, <2>1, <2>2, NextTransition DEF Dated
  <2>4. QED
    BY <2>3, SnapshotConstants DEF NoLater
<1>4. QED
  BY <1>2, <1>3

(***************************************************************************)
(* Steps                                                                   *)
(***************************************************************************)
Later == /\ now' \in Nat /\ now' >= now
         /\ judgments' \in Nat \cup {Gone}
         /\ judgments' # Gone => judgments # Gone /\ judgments' >= judgments

LEMMA StaysDated ==
  ASSUME TimesOK, Later, NEW made, Dated(made, now)
  PROVE  Dated(made, now')
BY DEF Dated, TimesOK, Later

LEMMA StaysBuilt ==
  ASSUME TimesOK, Later, NEW b, NEW cached, BuiltOK(b, cached, judgments, now)
  PROVE  BuiltOK(b, cached, judgments', now')
<1>1. NotAhead(b.calc.judgments, judgments) => NotAhead(b.calc.judgments, judgments')
  BY SnapshotConstants DEF NotAhead, TimesOK, Later
<1>2. QED
  BY <1>1, StaysDated DEF BuiltOK

LEMMA StaysCached ==
  ASSUME TimesOK, Later, NEW cached, CachedOK(cached, judgments, now)
  PROVE  CachedOK(cached, judgments', now')
<1>1. NotAhead(cached.calc.judgments, judgments) => NotAhead(cached.calc.judgments, judgments')
  BY SnapshotConstants DEF NotAhead, TimesOK, Later
<1>2. QED
  BY <1>1, StaysDated DEF CachedOK

LEMMA Unbothered ==
  ASSUME TimesOK, UNCHANGED <<now, judgments>>
  PROVE  Later
BY SnapshotConstants DEF TimesOK, Later

\* The steps that leave the flights, the entry and the requests alone.
LEMMA AsideKeeps ==
  ASSUME AnswersOK, Later, UNCHANGED <<entry, flights, requests>>,
         section' # None /\ section'.of \in Requests /\ requests[section'.of].at = "wait" =>
           flights[requests[section'.of].flight].result = "resolved"
  PROVE  AnswersOK'
<1>1. TimesOK' /\ WaitersOK'
  BY DEF AnswersOK, Later, TimesOK, WaitersOK
<1>2. CachedOK(entry, judgments', now')
  BY StaysCached DEF AnswersOK
<1>3. \A i \in DOMAIN flights : BuiltOK(flights[i], entry, judgments', now')
  BY StaysBuilt DEF AnswersOK
<1>4. QED
  BY <1>1, <1>2, <1>3 DEF AnswersOK

LEMMA AsideStep ==
  ASSUME SnapshotInv, AnswersOK,
         \/ \E f \in Files, x \in Data : Edit(f, x) \/ Save(f, x)
         \/ Judge \/ Tick \/ Validate \/ UNCHANGED vars
         \/ \E i \in DOMAIN flights : CaptureHydrates(i)
  PROVE  AnswersOK'
<1>1. UNCHANGED <<entry, flights, requests>>
  BY DEF Edit, Save, Judge, Tick, Validate, CaptureHydrates, vars
<1>2. Later
  <2>1. CASE UNCHANGED <<now, judgments>>
    BY <2>1, Unbothered DEF AnswersOK
  <2>2. CASE Judge
    BY <2>2, SnapshotConstants DEF Judge, AnswersOK, TimesOK, Later
  <2>3. CASE Tick
    BY <2>3, SnapshotConstants DEF Tick, AnswersOK, TimesOK, Later
  <2>4. QED
    BY <2>1, <2>2, <2>3 DEF Edit, Save, Validate, CaptureHydrates, outside, vars
<1>3. section' # None /\ section'.of \in Requests => section # None /\ section.of = section'.of
  <2>1. CASE section' = section
    BY <2>1
  <2>2. CASE Validate
    BY <2>2 DEF Validate, SnapshotInv, SectionOK
  <2>3. ASSUME NEW i \in DOMAIN flights, CaptureHydrates(i)
        PROVE  section'.of \notin Requests
    BY <2>3, Types DEF CaptureHydrates
  <2>4. QED
    BY <2>1, <2>2, <2>3 DEF Edit, Save, Judge, Tick, vars
<1>4. QED
  BY <1>1, <1>2, <1>3, AsideKeeps DEF AnswersOK, WaitersOK

\* A request only looks at the build it waits for when that has been published.
LEMMA EnterAsideStep ==
  ASSUME SnapshotInv, AnswersOK, NEW w \in Requests \cup DOMAIN flights, Enter(w)
  PROVE  AnswersOK'
<1>1. UNCHANGED <<entry, flights, requests>> /\ section'.of = w
  BY DEF Enter
<1>2. Later
  BY Unbothered DEF Enter, outside, AnswersOK
<1>3. w \in Requests /\ requests[w].at = "wait" => flights[requests[w].flight].result = "resolved"
  BY DEF Enter, Wants, Woken
<1>4. QED
  BY <1>1, <1>2, <1>3, AsideKeeps

\* One build moves on, and what is cached stays or is replaced.
LEMMA BuildMoves ==
  ASSUME SnapshotInv, SnapshotInv', AnswersOK, NEW i \in DOMAIN flights, NEW b,
         flights' = [flights EXCEPT ![i] = b], flights[i].at # "done",
         BuiltOK(b, entry', judgments, now), CachedOK(entry', judgments, now),
         \A j \in DOMAIN flights \ {i} : BuiltOK(flights[j], entry', judgments, now),
         UNCHANGED <<now, judgments, requests>>, section' \in {section, None}
  PROVE  AnswersOK'
<1>1. /\ DOMAIN flights' = DOMAIN flights
      /\ \A j \in DOMAIN flights : flights'[j] = IF j = i THEN b ELSE flights[j]
  BY DEF SnapshotInv, FlightsOK
<1>2. flights[i].result # "resolved"
  BY DEF AnswersOK, BuiltOK
<1>3. WaitersOK'
  BY <1>1, <1>2 DEF AnswersOK, WaitersOK
<1>4. TimesOK'
  BY DEF AnswersOK, TimesOK
<1>5. QED
  BY <1>1, <1>3, <1>4 DEF AnswersOK

LEMMA BuildGoesOn ==
  ASSUME SnapshotInv, SnapshotInv', AnswersOK, NEW i \in DOMAIN flights, NEW b,
         flights' = [flights EXCEPT ![i] = b], flights[i].at # "done",
         BuiltOK(b, entry, judgments, now),
         UNCHANGED <<entry, now, judgments, requests>>, section' \in {section, None}
  PROVE  AnswersOK'
<1>1. CachedOK(entry', judgments, now) /\ BuiltOK(b, entry', judgments, now)
  BY DEF AnswersOK
<1>2. \A j \in DOMAIN flights \ {i} : BuiltOK(flights[j], entry', judgments, now)
  BY DEF AnswersOK
<1>3. QED
  BY <1>1, <1>2, BuildMoves

\* What FlightOK and BuiltOK say of a build that is not done.
LEMMA AtWork ==
  ASSUME SnapshotInv, AnswersOK, NEW i \in DOMAIN flights, flights[i].at # "done"
  PROVE  /\ FlightOK(flights[i], mem, disk, changes) /\ \E U : flights[i] \in FlightsOf(U)
         /\ BuiltOK(flights[i], entry, judgments, now)
         /\ flights[i].result = "pending" /\ flights[i].cacheable = FALSE
BY DEF SnapshotInv, FlightsOK, FlightOK, Shaped, AnswersOK, BuiltOK

LEMMA BuildBeginsAnswers ==
  ASSUME SnapshotInv, SnapshotInv', AnswersOK, NEW i \in DOMAIN flights, BuildBegins(i)
  PROVE  AnswersOK'
<1>1. PICK identity \in {Says(disk), None} :
        flights' = [flights EXCEPT ![i].base = identity, ![i].at = "capture"]
  BY DEF BuildBegins
<1> DEFINE b == [flights[i] EXCEPT !.base = identity, !.at = "capture"]
<1>2. flights' = [flights EXCEPT ![i] = b]
  BY <1>1 DEF SnapshotInv, FlightsOK
<1>3. /\ \E U : flights[i] \in FlightsOf(U)
      /\ flights[i].result = "pending" /\ flights[i].cacheable = FALSE /\ flights[i].at # "done"
  BY AtWork DEF BuildBegins, Building
<1>4. b.at = "capture" /\ b.result = "pending" /\ b.cacheable = FALSE
  BY <1>3 DEF FlightsOf
<1> HIDE DEF b
<1>5. BuiltOK(b, entry, judgments, now)
  BY <1>4 DEF BuiltOK, Captured
<1>6. QED
  BY <1>2, <1>3, <1>5, BuildGoesOn DEF BuildBegins, Quiet, outside

LEMMA CaptureLoadsAnswers ==
  ASSUME SnapshotInv, SnapshotInv', AnswersOK, NEW i \in DOMAIN flights, CaptureLoads(i)
  PROVE  AnswersOK'
<1> DEFINE made == [says |-> [f \in Files |-> IF f = Shelf THEN mem'.cached ELSE disk[f].data],
                    judgments |-> None, evaluated |-> now, expires |-> ExpiresAfter(now)]
           b == [flights[i] EXCEPT !.made = made, !.token = mem'.token, !.at = "frame"]
<1>1. flights' = [flights EXCEPT ![i] = b]
  BY DEF CaptureLoads, SnapshotInv, FlightsOK
<1>2. Dated(made, now)
  BY DEF Dated, AnswersOK, TimesOK
<1> HIDE DEF made
<1>3. /\ flights[i].at = "capture" /\ FlightOK(flights[i], mem, disk, changes)
      /\ \E U : flights[i] \in FlightsOf(U)
      /\ flights[i].result = "pending" /\ flights[i].cacheable = FALSE
  BY AtWork DEF CaptureLoads, Building
<1>4. flights[i].calc = None
  BY <1>3 DEF FlightOK
<1>5. /\ b.at = "frame" /\ b.result = "pending" /\ b.cacheable = FALSE /\ b.made = made
      /\ b.calc = None
  BY <1>3, <1>4 DEF FlightsOf
<1> HIDE DEF b
<1>6. BuiltOK(b, entry, judgments, now)
  BY <1>2, <1>5 DEF BuiltOK
<1>7. QED
  BY <1>1, <1>3, <1>6, BuildGoesOn DEF CaptureLoads, outside

LEMMA FrameTakenAnswers ==
  ASSUME SnapshotInv, SnapshotInv', AnswersOK, NEW i \in DOMAIN flights, FrameTaken(i)
  PROVE  AnswersOK'
<1> DEFINE a == flights[i]
           calc == [sig |-> disk[Collection].sig, token |-> mem'.token, judgments |-> judgments]
           made == [a.made EXCEPT !.judgments = judgments]
<1>1. /\ a.at = "frame" /\ FlightOK(a, mem, disk, changes) /\ BuiltOK(a, entry, judgments, now)
      /\ \E U : a \in FlightsOf(U)
      /\ a.result = "pending" /\ a.cacheable = FALSE
  BY AtWork DEF FrameTaken, Building
<1>2. MadeShaped(a.made) /\ a.calc = None /\ Dated(a.made, now)
  BY <1>1 DEF FlightOK, BuiltOK, Captured
<1>3. Dated(made, now) /\ made.judgments = judgments /\ calc.judgments = judgments
  <2>1. PICK U, V : a.made \in MadeOf(U, V)
    BY <1>2 DEF MadeShaped
  <2>2. made.judgments = judgments /\ made.evaluated = a.made.evaluated /\ made.expires = a.made.expires
    BY <2>1 DEF MadeOf
  <2>3. QED
    BY <1>2, <2>2 DEF Dated
<1> HIDE DEF made, calc
<1>4. \/ flights' = [flights EXCEPT ![i] = [a EXCEPT !.at = "still"]]
      \/ flights' = [flights EXCEPT ![i] = [a EXCEPT !.at = "prepare", !.made = made, !.calc = calc]]
  <2>1. CASE disk[Collection].data # a.made.says[Collection]
    BY <2>1 DEF FrameTaken, SnapshotInv, FlightsOK
  <2>2. CASE disk[Collection].data = a.made.says[Collection]
    BY <1>1, <2>2 DEF FrameTaken, SnapshotInv, FlightsOK, FlightsOf, made, calc
  <2>3. QED
    BY <2>1, <2>2
<1>5. CASE flights' = [flights EXCEPT ![i] = [a EXCEPT !.at = "still"]]
  <2> DEFINE b == [a EXCEPT !.at = "still"]
  <2>1. /\ b.at = "still" /\ b.result = "pending" /\ b.cacheable = FALSE /\ b.made = a.made
        /\ b.calc = None
    BY <1>1, <1>2 DEF FlightsOf
  <2> HIDE DEF b
  <2>2. BuiltOK(b, entry, judgments, now)
    BY <1>2, <2>1 DEF BuiltOK
  <2>3. QED
    BY <1>1, <1>5, <2>2, BuildGoesOn DEF FrameTaken, Quiet, outside, b
<1>6. CASE flights' = [flights EXCEPT ![i] = [a EXCEPT !.at = "prepare", !.made = made, !.calc = calc]]
  <2> DEFINE b == [a EXCEPT !.at = "prepare", !.made = made, !.calc = calc]
  <2>1. /\ b.at = "prepare" /\ b.result = "pending" /\ b.cacheable = FALSE /\ b.made = made
        /\ b.calc = calc
    BY <1>1 DEF FlightsOf
  <2> HIDE DEF b
  <2>2. BuiltOK(b, entry, judgments, now)
    BY <1>3, <2>1 DEF BuiltOK
  <2>3. QED
    BY <1>1, <1>6, <2>2, BuildGoesOn DEF FrameTaken, Quiet, outside, b
<1>7. QED
  BY <1>4, <1>5, <1>6

LEMMA PreparedAnswers ==
  ASSUME SnapshotInv, SnapshotInv', AnswersOK, NEW i \in DOMAIN flights, Prepared(i)
  PROVE  AnswersOK'
<1> DEFINE a == flights[i]
<1>1. /\ a.at = "prepare" /\ BuiltOK(a, entry, judgments, now) /\ \E U : a \in FlightsOf(U)
      /\ a.result = "pending" /\ a.cacheable = FALSE
  BY AtWork DEF Prepared, Building
<1>2. PICK calc \in {a.calc, None} : flights' = [flights EXCEPT ![i] = [a EXCEPT !.at = "still", !.calc = calc]]
  <2>1. CASE ValidateCurrent(a.calc, mem')
    <3>1. [a EXCEPT !.at = "still", !.calc = a.calc] = [a EXCEPT !.at = "still"]
      BY <1>1 DEF FlightsOf
    <3>2. flights' = [flights EXCEPT ![i] = [a EXCEPT !.at = "still"]]
      BY <2>1 DEF Prepared, SnapshotInv, FlightsOK
    <3>3. QED
      BY <3>1, <3>2
  <2>2. CASE ~ValidateCurrent(a.calc, mem')
    BY <2>2 DEF Prepared, SnapshotInv, FlightsOK
  <2>3. QED
    BY <2>1, <2>2
<1> DEFINE b == [a EXCEPT !.at = "still", !.calc = calc]
<1>3. /\ b.at = "still" /\ b.result = "pending" /\ b.cacheable = FALSE /\ b.made = a.made
      /\ b.calc = calc
  BY <1>1 DEF FlightsOf
<1> HIDE DEF b
<1>4. BuiltOK(b, entry, judgments, now)
  BY <1>1, <1>3 DEF BuiltOK, Captured
<1>5. QED
  BY <1>1, <1>2, <1>4, BuildGoesOn DEF Prepared, Quiet, outside, b

LEMMA StillCurrentAnswers ==
  ASSUME SnapshotInv, SnapshotInv', AnswersOK, NEW i \in DOMAIN flights, StillCurrent(i)
  PROVE  AnswersOK'
<1> DEFINE a == flights[i]
<1>1. /\ a.at = "still" /\ BuiltOK(a, entry, judgments, now) /\ \E U : a \in FlightsOf(U)
      /\ a.result = "pending" /\ a.cacheable = FALSE
  BY AtWork DEF StillCurrent, Building
<1>2. PICK at \in {"publish", "clear"} : flights' = [flights EXCEPT ![i] = [a EXCEPT !.at = at]]
  BY DEF StillCurrent, SnapshotInv, FlightsOK
<1> DEFINE b == [a EXCEPT !.at = at]
<1>3. /\ b.at = at /\ b.result = "pending" /\ b.cacheable = FALSE /\ b.made = a.made
      /\ b.calc = a.calc
  BY <1>1 DEF FlightsOf
<1> HIDE DEF b
<1>4. BuiltOK(b, entry, judgments, now)
  BY <1>1, <1>3 DEF BuiltOK, Captured
<1>5. QED
  BY <1>1, <1>2, <1>4, BuildGoesOn DEF StillCurrent, Quiet, outside, b

LEMMA GivesUpAnswers ==
  ASSUME SnapshotInv, SnapshotInv', AnswersOK, NEW i \in DOMAIN flights, GivesUp(i)
  PROVE  AnswersOK'
<1> DEFINE a == flights[i]
           b == [a EXCEPT !.at = "done", !.result = "rejected"]
<1>1. /\ a.at = "clear" /\ \E U : a \in FlightsOf(U) /\ a.cacheable = FALSE
  BY AtWork DEF GivesUp, Building
<1>2. flights' = [flights EXCEPT ![i] = b]
  BY DEF GivesUp, SnapshotInv, FlightsOK
<1>3. b.at = "done" /\ b.result = "rejected" /\ b.cacheable = FALSE
  BY <1>1 DEF FlightsOf
<1> HIDE DEF b
<1>4. BuiltOK(b, entry, judgments, now)
  BY <1>3 DEF BuiltOK, Captured
<1>5. QED
  BY <1>1, <1>2, <1>4, BuildGoesOn DEF GivesUp, outside

\* What is stored is as new as the judgments are, and still fresh: it outlives whatever was
\* stored before.
LEMMA PublishAnswers ==
  ASSUME SnapshotInv, SnapshotInv', AnswersOK, NEW i \in DOMAIN flights, Publish(i)
  PROVE  AnswersOK'
<1> DEFINE a == flights[i]
<1>1. PICK identity \in {Says(disk), None}, m \in {mem, AuthorityRead(mem)} :
       /\ Authority(identity, m)
       /\ mem' = m
       /\ IF ~Publishable(i, identity, m)
          THEN /\ flights' = [flights EXCEPT ![i].at = "clear"]
               /\ UNCHANGED <<entry, flight>>
          ELSE LET b == flights[i]
                   stored == b.calc # None /\ IsReusable(b.calc, m)
               IN /\ entry' = IF stored
                              THEN [identity |-> identity, token |-> b.token, made |-> b.made,
                                    calc |-> b.calc]
                              ELSE entry
                  /\ Landed(i, stored)
                  /\ flights' = [flights EXCEPT ![i].at = "done", ![i].result = "resolved",
                                                ![i].cacheable = stored, ![i].identity = identity]
  BY DEF Publish
<1>2. Deciding(i) /\ section' = None /\ UNCHANGED <<now, judgments, requests>>
  BY DEF Publish, outside
<1>3. a.at = "publish"
  BY <1>2 DEF Deciding, SnapshotInv, SectionOK
<1>4. /\ BuiltOK(a, entry, judgments, now) /\ \E U : a \in FlightsOf(U)
      /\ a.result = "pending" /\ a.cacheable = FALSE
  BY <1>3, AtWork
<1>5. CASE ~Publishable(i, identity, m)
  <2> DEFINE b == [a EXCEPT !.at = "clear"]
  <2>1. flights' = [flights EXCEPT ![i] = b]
    BY <1>1, <1>5 DEF SnapshotInv, FlightsOK
  <2>2. b.at = "clear" /\ b.result = "pending" /\ b.cacheable = FALSE
    BY <1>4 DEF FlightsOf
  <2> HIDE DEF b
  <2>3. BuiltOK(b, entry, judgments, now)
    BY <2>2 DEF BuiltOK, Captured
  <2>4. QED
    BY <1>1, <1>2, <1>3, <1>5, <2>1, <2>3, BuildGoesOn
<1>6. CASE Publishable(i, identity, m)
  <2> DEFINE stored == a.calc # None /\ IsReusable(a.calc, m)
             b == [a EXCEPT !.at = "done", !.result = "resolved", !.cacheable = stored,
                            !.identity = identity]
             new == [identity |-> identity, token |-> a.token, made |-> a.made, calc |-> a.calc]
  <2>1. flights' = [flights EXCEPT ![i] = b] /\ entry' = IF stored THEN new ELSE entry
    BY <1>1, <1>6 DEF SnapshotInv, FlightsOK
  <2>2. stored \in BOOLEAN /\ (stored => a.calc # None /\ a.calc.judgments = judgments /\ judgments # Gone)
    BY DEF IsReusable, IsCurrent
  <2>3. a.calc # None => identity # None /\ a.made.says = identity
    BY <1>1, <1>2, <1>6, StoredSaysIdentity DEF Publishable
  <2>4. Dated(a.made, now) /\ Fresh(a.made) /\ (a.calc # None => a.made.judgments = a.calc.judgments)
    BY <1>3, <1>4, <1>6 DEF BuiltOK, Captured, Publishable
  <2>5. NoLater(a.made.expires, a.made.expires) /\ now \in Nat /\ judgments \in Nat \cup {Gone}
    <3>1. now \in Nat /\ judgments \in Nat \cup {Gone}
      BY DEF AnswersOK, TimesOK
    <3>2. QED
      BY <2>4, <3>1, FreshOutlives
  <2>6. /\ new.identity = identity /\ new.made = a.made /\ new.calc = a.calc
    OBVIOUS
  <2> HIDE DEF new
  <2>7. stored => NotAhead(a.calc.judgments, judgments)
    BY <2>2, <2>5 DEF NotAhead
  <2> HIDE DEF stored
  <2>8. /\ b.at = "done" /\ b.result = "resolved" /\ b.cacheable = stored /\ b.identity = identity
        /\ b.made = a.made /\ b.calc = a.calc
    BY <1>4 DEF FlightsOf
  <2> HIDE DEF b
  <2>9. CASE stored
    <3>1. entry' = new
      BY <2>1, <2>9
    <3>2. BuiltOK(b, new, judgments, now)
      BY <2>2, <2>3, <2>4, <2>5, <2>6, <2>7, <2>8, <2>9 DEF BuiltOK, stored, NotAhead
    <3>3. CachedOK(new, judgments, now)
      BY <2>2, <2>3, <2>4, <2>6, <2>7, <2>9 DEF CachedOK
    <3>4. ASSUME NEW j \in DOMAIN flights
          PROVE  BuiltOK(flights[j], new, judgments, now)
      <4>1. BuiltOK(flights[j], entry, judgments, now)
        BY DEF AnswersOK
      <4>2. flights[j].cacheable =>
              /\ new.calc.judgments >= flights[j].calc.judgments
              /\ NoLater(flights[j].made.expires, new.made.expires)
        <5> SUFFICES ASSUME flights[j].cacheable
                     PROVE  /\ new.calc.judgments >= flights[j].calc.judgments
                            /\ NoLater(flights[j].made.expires, new.made.expires)
          OBVIOUS
        <5>1. NotAhead(flights[j].calc.judgments, judgments) /\ Dated(flights[j].made, now)
          BY <4>1 DEF BuiltOK
        <5>2. new.calc.judgments >= flights[j].calc.judgments
          BY <2>2, <2>5, <2>6, <2>9, <5>1 DEF NotAhead
        <5>3. NoLater(flights[j].made.expires, new.made.expires)
          BY <2>4, <2>5, <2>6, <5>1, FreshOutlives
        <5>4. QED
          BY <5>2, <5>3
      <4>3. QED
        BY <4>1, <4>2 DEF BuiltOK
    <3>5. QED
      BY <1>2, <1>3, <2>1, <3>1, <3>2, <3>3, <3>4, BuildMoves
  <2>10. CASE ~stored
    <3>1. entry' = entry
      BY <2>1, <2>10
    <3>2. BuiltOK(b, entry, judgments, now)
      BY <2>3, <2>4, <2>8, <2>10 DEF BuiltOK
    <3>3. QED
      BY <1>2, <1>3, <2>1, <3>1, <3>2, BuildGoesOn
  <2>11. QED
    BY <2>9, <2>10
<1>7. QED
  BY <1>5, <1>6

\* One request moves on; the entry may be dropped and a flight begun.
LEMMA RequestMoves ==
  ASSUME SnapshotInv, AnswersOK, NEW r \in Requests, NEW q,
         requests' = [requests EXCEPT ![r] = q], \E U : q \in RequestsOf(U),
         q.at = "wait" => q.flight \in DOMAIN flights',
         entry' \in {entry, None}, UNCHANGED <<now, judgments>>,
         \A j \in DOMAIN flights : j \in DOMAIN flights' /\ flights'[j] = flights[j],
         \A j \in DOMAIN flights' \ DOMAIN flights : BuiltOK(flights'[j], entry', judgments, now),
         section' = None \/ (section' = section /\ (section # None => section.of # r))
  PROVE  AnswersOK'
<1>1. /\ \E U : requests' \in [Requests -> RequestsOf(U)]
      /\ \A s \in Requests : requests'[s] = IF s = r THEN q ELSE requests[s]
  <2>1. PICK U : requests \in [Requests -> RequestsOf(U)]
    BY DEF AnswersOK, WaitersOK
  <2>2. PICK V : q \in RequestsOf(V)
    OBVIOUS
  <2>3. requests' \in [Requests -> RequestsOf(U \cup V)]
    BY <2>1, <2>2 DEF RequestsOf
  <2>4. QED
    BY <2>1, <2>3
<1>2. WaitersOK'
  BY <1>1 DEF AnswersOK, WaitersOK
<1>3. TimesOK' /\ CachedOK(entry', judgments, now)
  BY DEF AnswersOK, TimesOK, CachedOK
<1>4. \A j \in DOMAIN flights : BuiltOK(flights[j], entry', judgments, now)
  <2>1. \A j \in DOMAIN flights : BuiltOK(flights[j], entry, judgments, now)
    BY DEF AnswersOK
  <2>2. CASE entry' = entry
    BY <2>1, <2>2
  <2>3. CASE entry' = None
    BY <2>1, <2>3 DEF BuiltOK
  <2>4. QED
    BY <2>2, <2>3
<1>5. QED
  BY <1>2, <1>3, <1>4 DEF AnswersOK

LEMMA ReserveAnswers ==
  ASSUME SnapshotInv, AnswersOK, NEW r \in Requests, Reserve(r)
  PROVE  AnswersOK'
<1>1. PICK identity \in {Says(disk), None}, m \in {mem, AuthorityRead(mem)} :
       IF Hit(identity, m)
       THEN Answered(r, entry.made, TRUE) /\ UNCHANGED <<entry, flight, flights>>
       ELSE /\ entry' = IF entry # None /\ IsUsable(identity, m) THEN entry ELSE None
            /\ IF Joinable(identity, m)
               THEN UNCHANGED <<flight, flights>>
               ELSE /\ flight' = Len(flights) + 1
                    /\ flights' = Append(flights, NewFlight(identity, m))
            /\ requests' = [requests EXCEPT ![r].at = "wait", ![r].flight = flight']
  BY DEF Reserve
<1>2. section' = None /\ UNCHANGED <<now, judgments>>
  BY DEF Reserve, outside
<1>3. PICK U : requests \in [Requests -> RequestsOf(U)]
  BY DEF AnswersOK, WaitersOK
<1>4. PICK S : flights \in Seq(S)
  BY DEF SnapshotInv, FlightsOK
<1>5. CASE Hit(identity, m)
  <2> DEFINE answer == [made |-> entry.made, complete |-> TRUE]
             q == [requests[r] EXCEPT !.at = "answered", !.answer = answer]
  <2>1. requests' = [requests EXCEPT ![r] = q]
    BY <1>1, <1>3, <1>5 DEF Answered, RequestsOf
  <2> HIDE DEF answer
  <2>2. q \in RequestsOf(U \cup {"answered", answer}) /\ q.at = "answered"
    BY <1>3 DEF RequestsOf
  <2> HIDE DEF q
  <2>3. entry' = entry /\ flights' = flights
    BY <1>1, <1>5
  <2>4. QED
    BY <1>2, <2>1, <2>2, <2>3, RequestMoves
<1>6. CASE ~Hit(identity, m)
  <2> DEFINE q == [requests[r] EXCEPT !.at = "wait", !.flight = flight']
  <2>1. requests' = [requests EXCEPT ![r] = q]
    BY <1>1, <1>3, <1>6 DEF RequestsOf
  <2>2. q \in RequestsOf(U \cup {"wait", flight'}) /\ q.at = "wait" /\ q.flight = flight'
    BY <1>3 DEF RequestsOf
  <2> HIDE DEF q
  <2>3. entry' \in {entry, None}
    BY <1>1, <1>6
  <2>4. CASE Joinable(identity, m)
    <3>1. flight' = flight /\ flights' = flights
      BY <1>1, <1>6, <2>4
    <3>2. flight \in DOMAIN flights
      BY <2>4 DEF Joinable, SnapshotInv, FlightsOK
    <3>3. QED
      BY <1>2, <2>1, <2>2, <2>3, <3>1, <3>2, RequestMoves
  <2>5. CASE ~Joinable(identity, m)
    <3> DEFINE b == NewFlight(identity, m)
    <3>1. flight' = Len(flights) + 1 /\ flights' = Append(flights, b)
      BY <1>1, <1>6, <2>5
    <3>2. b.at = "authority" /\ b.result = "pending" /\ b.cacheable = FALSE
      BY DEF NewFlight
    <3> HIDE DEF b
    <3>3. BuiltOK(b, entry', judgments, now)
      BY <3>2 DEF BuiltOK, Captured
    <3>4. /\ flights'[Len(flights) + 1] = b
          /\ \A j \in DOMAIN flights : j \in DOMAIN flights' /\ flights'[j] = flights[j]
          /\ DOMAIN flights' = DOMAIN flights \cup {Len(flights) + 1}
      BY <1>4, <3>1
    <3>5. \A j \in DOMAIN flights' \ DOMAIN flights : BuiltOK(flights'[j], entry', judgments, now)
      BY <3>3, <3>4
    <3>6. q.flight \in DOMAIN flights'
      BY <2>2, <3>1, <3>4
    <3>7. QED
      BY <1>2, <2>1, <2>2, <2>3, <3>4, <3>5, <3>6, RequestMoves
  <2>6. QED
    BY <2>4, <2>5
<1>7. QED
  BY <1>5, <1>6

\* Starting over, or giving up.
LEMMA AgainShaped ==
  ASSUME AnswersOK, NEW r \in Requests, Again(r)
  PROVE  \E q : /\ requests' = [requests EXCEPT ![r] = q]
                /\ \E U : q \in RequestsOf(U)
                /\ q.at \in {"reserve", "refused"}
<1>1. PICK U : requests \in [Requests -> RequestsOf(U)]
  BY DEF AnswersOK, WaitersOK
<1> DEFINE p == requests[r]
           again == [p EXCEPT !.at = "reserve", !.attempt = 1, !.flight = None]
           over == [p EXCEPT !.at = "refused"]
<1>2. requests' = [requests EXCEPT ![r] = again] \/ requests' = [requests EXCEPT ![r] = over]
  BY <1>1 DEF Again
<1>3. again \in RequestsOf(U \cup {"reserve", 1, None}) /\ again.at = "reserve"
  BY <1>1 DEF RequestsOf
<1>4. over \in RequestsOf(U \cup {"refused"}) /\ over.at = "refused"
  BY <1>1 DEF RequestsOf
<1> HIDE DEF again, over
<1>5. QED
  BY <1>2, <1>3, <1>4

LEMMA BuildFailedAnswers ==
  ASSUME SnapshotInv, AnswersOK, NEW r \in Requests, BuildFailed(r)
  PROVE  AnswersOK'
<1>1. PICK q : /\ requests' = [requests EXCEPT ![r] = q]
               /\ \E U : q \in RequestsOf(U)
               /\ q.at \in {"reserve", "refused"}
  BY AgainShaped DEF BuildFailed
<1>2. section # None => section.of # r
  BY DEF BuildFailed, Woken, AnswersOK, WaitersOK
<1>3. UNCHANGED <<entry, flights, section, now, judgments>>
  BY DEF BuildFailed, outside
<1>4. QED
  BY <1>1, <1>2, <1>3, RequestMoves

LEMMA CheckAnswers ==
  ASSUME SnapshotInv, AnswersOK, NEW r \in Requests, Check(r)
  PROVE  AnswersOK'
<1> DEFINE b == flights[requests[r].flight]
<1>1. PICK identity \in {Says(disk), None}, m \in {mem, AuthorityRead(mem)} :
        /\ IF Acceptable(b, identity, m)
           THEN Answered(r, IF b.cacheable THEN entry.made ELSE b.made, b.calc # None)
           ELSE Again(r)
        /\ entry' = IF entry # None /\ Superseded(b, identity, m) /\ entry.token # m.token
                    THEN None ELSE entry
  BY DEF Check
<1>2. section' = None /\ UNCHANGED <<now, judgments, flights>> /\ entry' \in {entry, None}
  BY <1>1 DEF Check, outside
<1>3. PICK U : requests \in [Requests -> RequestsOf(U)]
  BY DEF AnswersOK, WaitersOK
<1>4. CASE Acceptable(b, identity, m)
  <2> DEFINE answer == [made |-> IF b.cacheable THEN entry.made ELSE b.made, complete |-> b.calc # None]
             q == [requests[r] EXCEPT !.at = "answered", !.answer = answer]
  <2>1. requests' = [requests EXCEPT ![r] = q]
    BY <1>1, <1>3, <1>4 DEF Answered, RequestsOf
  <2> HIDE DEF answer
  <2>2. q \in RequestsOf(U \cup {"answered", answer}) /\ q.at = "answered"
    BY <1>3 DEF RequestsOf
  <2> HIDE DEF q
  <2>3. QED
    BY <1>2, <2>1, <2>2, RequestMoves
<1>5. CASE ~Acceptable(b, identity, m)
  <2>1. PICK q : /\ requests' = [requests EXCEPT ![r] = q]
                 /\ \E V : q \in RequestsOf(V)
                 /\ q.at \in {"reserve", "refused"}
    BY <1>1, <1>5, AgainShaped
  <2>2. QED
    BY <1>2, <2>1, RequestMoves
<1>6. QED
  BY <1>4, <1>5

LEMMA InitAnswers ==
  Init => AnswersOK
<1> SUFFICES ASSUME Init PROVE AnswersOK
  OBVIOUS
<1>1. requests \in [Requests -> RequestsOf({"reserve", 0, None})] /\ \A r \in Requests : requests[r].at = "reserve"
  BY DEF Init, RequestsOf
<1>2. flights = <<>> /\ DOMAIN flights = {} /\ section = None /\ entry = None /\ now = 0 /\ judgments = 0
  BY DEF Init
<1>3. QED
  BY <1>1, <1>2 DEF AnswersOK, TimesOK, WaitersOK, CachedOK

LEMMA NextAnswers ==
  SnapshotInv /\ SnapshotInv' /\ AnswersOK /\ [Next]_vars => AnswersOK'
<1> SUFFICES ASSUME SnapshotInv, SnapshotInv', AnswersOK, [Next]_vars PROVE AnswersOK'
  OBVIOUS
<1>1. CASE Surroundings \/ UNCHANGED vars \/ Validate
  BY <1>1, AsideStep DEF Surroundings
<1>2. CASE \E w \in Requests \cup DOMAIN flights : Enter(w)
  BY <1>2, EnterAsideStep
<1>3. CASE \E i \in DOMAIN flights : Builds(i)
  BY <1>3, AsideStep, BuildBeginsAnswers, CaptureLoadsAnswers, FrameTakenAnswers, PreparedAnswers,
     StillCurrentAnswers, PublishAnswers, GivesUpAnswers DEF Builds
<1>4. CASE \E r \in Requests : Asks(r)
  BY <1>4, ReserveAnswers, BuildFailedAnswers, CheckAnswers DEF Asks
<1>5. QED
  BY <1>1, <1>2, <1>3, <1>4 DEF Next, Works

\* Every snapshot a request may still be answered with carries the judgments it was calculated
\* with and expires when its facts do, and what is cached is never older than what was stored.
THEOREM AnswersInvariant == Spec => [](SnapshotInv /\ AnswersOK)
<1>1. Init => SnapshotInv /\ AnswersOK
  BY InitIsRight, InitAnswers
<1>2. SnapshotInv /\ AnswersOK /\ [Next]_vars => (SnapshotInv /\ AnswersOK)'
  BY NextKeeps, NextAnswers
<1>3. QED
  BY <1>1, <1>2, PTL DEF Spec

(***************************************************************************)
(* The answer                                                              *)
(***************************************************************************)
Told(r) ==
  requests'[r].at = "answered" /\ requests[r].at # "answered" /\ requests'[r].answer.complete

Current(made) == made.says = Says(disk) /\ made.judgments = judgments /\ Fresh(made)

\* What is answered from the entry is reusable and identified by the authority just read.
LEMMA HitIsCurrent ==
  ASSUME SnapshotInv, AnswersOK, NEW identity, NEW m, Authority(identity, m), Hit(identity, m)
  PROVE  Current(entry.made)
<1>1. /\ entry # None /\ entry.calc.judgments = judgments /\ entry.identity = identity /\ Fresh(entry.made)
  BY DEF Hit, IsReusable, IsCurrent, IsUsable
<1>2. entry.identity # None /\ entry.made.judgments = entry.calc.judgments
  BY <1>1 DEF AnswersOK, CachedOK
<1>3. entry.made.says = entry.identity
  BY <1>1 DEF SnapshotInv, EntryIsWhatItIdentifies
<1>4. identity = Says(disk)
  BY <1>1, <1>2 DEF Authority
<1>5. QED
  BY <1>1, <1>2, <1>3, <1>4 DEF Current

\* What is answered to those who waited for a build: the build itself, or an entry that has
\* replaced it and can be no older.
LEMMA AcceptedIsCurrent ==
  ASSUME SnapshotInv, AnswersOK, NEW i \in DOMAIN flights, flights[i].result = "resolved",
         flights[i].calc # None,
         NEW identity, NEW m, Authority(identity, m), Acceptable(flights[i], identity, m)
  PROVE  Current(IF flights[i].cacheable THEN entry.made ELSE flights[i].made)
<1> DEFINE b == flights[i]
<1>1. /\ b.identity # None /\ b.made.says = b.identity
      /\ Dated(b.made, now) /\ b.made.judgments = b.calc.judgments
      /\ b.cacheable => /\ NotAhead(b.calc.judgments, judgments)
                        /\ entry # None => /\ entry.calc.judgments >= b.calc.judgments
                                           /\ NoLater(b.made.expires, entry.made.expires)
  BY DEF AnswersOK, BuiltOK
<1>2. /\ identity = b.identity /\ Fresh(b.made) /\ b.calc.judgments = judgments
  BY <1>1 DEF Acceptable, Superseded, IsCurrent
<1>3. identity = Says(disk)
  BY <1>1, <1>2 DEF Authority
<1>4. CASE ~b.cacheable
  BY <1>1, <1>2, <1>3, <1>4 DEF Current
<1>5. CASE b.cacheable
  <2>1. entry # None /\ entry.identity = identity
    BY <1>5 DEF Acceptable
  <2>2. /\ entry.made.judgments = entry.calc.judgments /\ NotAhead(entry.calc.judgments, judgments)
        /\ Dated(entry.made, now) /\ entry.made.says = entry.identity
    BY <2>1 DEF AnswersOK, CachedOK, SnapshotInv, EntryIsWhatItIdentifies
  <2>3. entry.calc.judgments = judgments
    <3>1. judgments \in Nat /\ judgments # Gone
      BY <1>1, <1>2, <1>5, SnapshotConstants DEF NotAhead
    <3>2. QED
      BY <1>1, <1>2, <1>5, <2>1, <2>2, <3>1 DEF NotAhead
  <2>4. Fresh(entry.made)
    <3>1. /\ now \in Nat /\ entry.made.evaluated \in Nat /\ entry.made.evaluated <= now
          /\ NoLater(b.made.expires, entry.made.expires)
      BY <1>1, <1>5, <2>1, <2>2 DEF AnswersOK, TimesOK, Dated
    <3>2. \A made : Dated(made, now) /\ made.expires # None => made.expires \in Nat
      BY ExpiryIsATime DEF Dated
    <3>3. QED
      BY <1>1, <1>2, <2>2, <3>1, <3>2 DEF Fresh, NoLater
  <2>5. QED
    BY <1>3, <1>5, <2>1, <2>2, <2>3, <2>4 DEF Current
<1>6. QED
  BY <1>4, <1>5

LEMMA ToldIsCurrent ==
  ASSUME SnapshotInv, AnswersOK, [Next]_vars, NEW r \in Requests, Told(r)
  PROVE  Current(requests'[r].answer.made)
<1>1. PICK U : requests \in [Requests -> RequestsOf(U)]
  BY DEF AnswersOK, WaitersOK
<1>2. PICK s \in Requests : Asks(s)
  <2>1. requests' # requests
    BY DEF Told
  <2>2. ~UNCHANGED vars /\ ~Surroundings /\ ~Validate
    BY <2>1 DEF vars, Surroundings, Edit, Save, Judge, Tick, Validate
  <2>3. ~\E w \in Requests \cup DOMAIN flights : Enter(w)
    BY <2>1 DEF Enter
  <2>4. ~\E i \in DOMAIN flights : Builds(i)
    BY <2>1 DEF Builds, BuildBegins, CaptureHydrates, CaptureLoads, FrameTaken, Prepared, StillCurrent,
       Publish, GivesUp, Quiet
  <2>5. QED
    BY <2>2, <2>3, <2>4 DEF Next, Works
<1>3. ASSUME NEW made, NEW complete, Answered(s, made, complete)
      PROVE  made = requests'[r].answer.made /\ complete
  <2> DEFINE answer == [made |-> made, complete |-> complete]
  <2>1. \A q \in Requests : q # s => requests'[q] = requests[q]
    BY <1>1, <1>3 DEF Answered
  <2>2. requests'[s].answer = answer
    BY <1>1, <1>3 DEF Answered, RequestsOf
  <2>3. QED
    BY <2>1, <2>2 DEF Told
<1>4. ~Again(s)
  <2> SUFFICES ASSUME Again(s) PROVE FALSE
    OBVIOUS
  <2>1. PICK q : /\ requests' = [requests EXCEPT ![s] = q]
                 /\ q.at \in {"reserve", "refused"}
    BY AgainShaped
  <2>2. QED
    BY <1>1, <2>1 DEF Told
<1>5. CASE Reserve(s)
  <2>1. PICK identity \in {Says(disk), None}, m \in {mem, AuthorityRead(mem)} :
          /\ Authority(identity, m)
          /\ Hit(identity, m) => Answered(s, entry.made, TRUE)
          /\ ~Hit(identity, m) => requests' = [requests EXCEPT ![s].at = "wait", ![s].flight = flight']
    BY <1>5 DEF Reserve
  <2>2. Hit(identity, m)
    BY <1>1, <2>1 DEF Told, RequestsOf
  <2>3. QED
    BY <1>3, <2>1, <2>2, HitIsCurrent
<1>6. CASE Check(s)
  <2> DEFINE i == requests[s].flight
             made == IF flights[i].cacheable THEN entry.made ELSE flights[i].made
             complete == flights[i].calc # None
  <2>1. PICK identity \in {Says(disk), None}, m \in {mem, AuthorityRead(mem)} :
          /\ Authority(identity, m)
          /\ IF Acceptable(flights[i], identity, m) THEN Answered(s, made, complete) ELSE Again(s)
    BY <1>6 DEF Check
  <2>2. Acceptable(flights[i], identity, m)
    BY <1>4, <2>1
  <2>3. i \in DOMAIN flights /\ flights[i].result = "resolved"
    BY <1>6 DEF Check, Deciding, AnswersOK, WaitersOK
  <2> HIDE DEF made, complete
  <2>4. made = requests'[r].answer.made /\ complete
    BY <1>3, <2>1, <2>2
  <2>5. QED
    BY <2>1, <2>2, <2>3, <2>4, AcceptedIsCurrent DEF made, complete
<1>7. QED
  BY <1>2, <1>4, <1>5, <1>6 DEF Asks, BuildFailed

\* A complete snapshot is answered only while the files say what it shows, the judgments are
\* those it was calculated with and none of its facts has become stale (resolve and reserve of
\* collection-snapshot-cache-service.ts), wherever it comes from and whatever changes meanwhile.
THEOREM AnswersStayCurrent == Spec => AnswersAreCurrent
<1>1. /\ SnapshotInv /\ AnswersOK
      /\ [Next]_vars
      => [\A r \in Requests :
           requests'[r].at = "answered" /\ requests[r].at # "answered" /\ requests'[r].answer.complete =>
             LET made == requests'[r].answer.made
             IN made.says = Says(disk) /\ made.judgments = judgments /\ Fresh(made)]_vars
  BY ToldIsCurrent DEF Told, Current
<1>2. QED
  BY <1>1, AnswersInvariant, PTL DEF Spec, AnswersAreCurrent
===============================================================================
