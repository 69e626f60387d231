---------------------------- MODULE SnapshotCache ----------------------------
(***************************************************************************)
(* The collection snapshot that pages are drawn from                       *)
(* (collection-snapshot-cache-service.ts, collection-snapshot-service.ts). *)
(* Requests that find no usable entry share a build, the flight; the build *)
(* reads the files and the judgments in several sections of the            *)
(* coordinator, with the calculation between them, and what it made is     *)
(* checked again when it is published and when a request takes it.         *)
(*                                                                         *)
(* Of the files there are two: the collection, which storage never caches  *)
(* and whose signature the scoring compares, and a settings file that      *)
(* storage caches and only the authority read looks at (shelf-config).     *)
(* An authority read is one step, which SourceStorage shows it amounts to. *)
(* Between the other steps an editor may replace a file without touching   *)
(* its revision, and the judgments may change or be lost.                  *)
(***************************************************************************)
EXTENDS Integers, Sequences

CONSTANTS Requests,
          Collection, Shelf,  \* the two files
          Data,               \* what a file may say
          Enabled,            \* the collections in which semantic redundancy is enabled
          None, Gone,         \* Gone: there is no cache of judgments any more
          Startup,            \* the vector's source "startup"
          Transitions,        \* when some game's facts become stale
          MaxChanges          \* bound: what changes or fails around the cache; see Change

Files == {Collection, Shelf}

ASSUME SnapshotConstants ==
  /\ Collection # Shelf /\ Startup \notin Files /\ Enabled \subseteq Data /\ None \notin Data
  /\ None \notin Requests \cup Nat /\ Gone \notin Nat /\ Requests \cap Nat = {}
  /\ Transitions \subseteq Nat
  /\ MaxChanges \in Nat

VARIABLES
  disk,      \* [Files -> [data, rev, sig]]
  mem,       \* storage: the source vector, the cached settings, the last authority read
  judgments, \* the revision of the cache of judgments, or Gone
  now,       \* the clock the snapshot's freshness is measured by
  entry,     \* the cached snapshot, or None
  flight,    \* the flight later requests may join, or None
  flights,   \* every flight and its build
  requests,  \* [Requests -> where it stands]
  section,   \* the section of the coordinator that is open, or None
  changes    \* what MaxChanges bounds

vars == <<disk, mem, judgments, now, entry, flight, flights, requests, section, changes>>

Says(dk) == [f \in Files |-> dk[f].data]

\* The daemon has just been started; in the bounds of one run this counts for two changes.
ColdStart ==
  /\ mem = [revs |-> [f \in Files |-> None], down |-> {Startup}, token |-> 0,
            cached |-> None, authority |-> None]
  /\ changes = 2

\* It has been in use, but no snapshot is cached.
WarmStart ==
  /\ mem = [revs |-> [f \in Files |-> 0], down |-> {}, token |-> 0,
            cached |-> disk[Shelf].data, authority |-> disk]
  /\ changes = 0

Init ==
  /\ \E x \in Data \ Enabled : disk = [f \in Files |-> [data |-> x, rev |-> 0, sig |-> 0]]
  /\ ColdStart \/ WarmStart
  /\ judgments = 0 /\ now = 0
  /\ entry = None /\ flight = None /\ flights = <<>>
  /\ requests = [r \in Requests |-> [at |-> "reserve", attempt |-> 0, flight |-> None, answer |-> None]]
  /\ section = None

\* An edit of the collection counts for one, everything else that changes or fails for two:
\* only such an edit is taken back, or made twice, in the bounds of one run.
Change(n) == changes + n <= MaxChanges /\ changes' = changes + n
Signature == changes + 1

(***************************************************************************)
(* What the storage remembers                                              *)
(***************************************************************************)
\* mutate(): the token moves whenever the vector does.
Moved(m, next) ==
  IF next.revs = m.revs /\ next.down = m.down THEN next ELSE [next EXCEPT !.token = @ + 1]

\* loadCollection and the reads of a capture of the scoring's sources
CollectionLoaded(m) ==
  Moved(m, [m EXCEPT !.revs[Collection] = disk[Collection].rev, !.down = @ \ {Collection}])

ShelfLoaded(m) ==
  IF m.cached # None /\ Shelf \notin m.down THEN m
  ELSE Moved(m, [m EXCEPT !.revs[Shelf] = disk[Shelf].rev, !.down = @ \ {Shelf},
                          !.cached = disk[Shelf].data])

\* hydrateSourceVector, where the vector is not available
Hydrated(m) ==
  IF m.down = {} THEN m
  ELSE LET loaded == ShelfLoaded(CollectionLoaded(m)) IN Moved(loaded, [loaded EXCEPT !.down = {}])

Fence(m, F) ==
  Moved(m, [m EXCEPT !.down = @ \cup F, !.cached = IF Shelf \in F THEN None ELSE @,
                     !.authority = disk])

\* Mutant: a file is the same as long as its revision is.
AuthorityOfRevisions(m) ==
  Fence(m, {f \in Files : m.authority = None \/ m.authority[f].rev # disk[f].rev})

\* readCollectionSnapshotAuthority: a file this process has not seen at its signature is fenced.
AuthorityRead(m) ==
  Fence(m, {f \in Files : m.authority = None \/ m.authority[f].sig # disk[f].sig})

\* The identity it returns, or none when it fails; `m` is what storage then remembers.
Authority(identity, m) ==
  \/ identity = Says(disk) /\ m = AuthorityRead(mem) /\ UNCHANGED changes
  \/ identity = None /\ m = mem /\ Change(2)

(***************************************************************************)
(* What changes around the cache                                           *)
(***************************************************************************)
Edit(f, x) ==
  /\ Change(IF f = Collection THEN 1 ELSE 2) /\ x # disk[f].data
  /\ disk' = [disk EXCEPT ![f].data = x, ![f].sig = Signature]
  /\ UNCHANGED <<mem, judgments, now, entry, flight, flights, requests, section>>

\* The daemon's own save publishes its revision; only the next authority read sees the signature.
Save(f, x) ==
  /\ Change(2) /\ section = None /\ x # disk[f].data
  /\ disk' = [disk EXCEPT ![f] = [data |-> x, rev |-> @.rev + 1, sig |-> Signature]]
  /\ mem' = Moved(mem, [mem EXCEPT !.revs[f] = disk[f].rev + 1, !.down = @ \ {f},
                                   !.cached = IF f = Shelf THEN x ELSE @])
  /\ UNCHANGED <<judgments, now, entry, flight, flights, requests, section>>

Judge ==
  /\ Change(2) /\ judgments # Gone
  /\ judgments' \in {judgments + 1, Gone}
  /\ UNCHANGED <<disk, mem, now, entry, flight, flights, requests, section>>

Tick ==
  /\ Change(2) /\ now' = now + 1
  /\ UNCHANGED <<disk, mem, judgments, entry, flight, flights, requests, section>>

outside == <<disk, judgments, now>>

(***************************************************************************)
(* Currentness                                                             *)
(***************************************************************************)
\* nextBggDataStaleTransition
ExpiresAfter(t) ==
  IF \E u \in Transitions : u > t
  THEN CHOOSE u \in Transitions : u > t /\ \A w \in Transitions : w > t => u <= w
  ELSE None

\* freshAt
Fresh(made) == now >= made.evaluated /\ (made.expires = None \/ now < made.expires)

\* Mutant: judgments that changed since do not matter.
CurrentSources(calc, m) == calc.token = m.token

\* isCurrent of a calculation: [sig, token, judgments]
IsCurrent(calc, m) == calc.token = m.token /\ calc.judgments = judgments

\* isReusable
IsReusable(calc, m) == calc.judgments # Gone /\ IsCurrent(calc, m)

\* publishCurrent, with the capture of the sources it starts with
ValidateCurrent(calc, m) == calc.sig = disk[Collection].sig /\ IsCurrent(calc, m)

\* isUsable
IsUsable(identity, m) ==
  entry.identity = identity /\ m.down = {} /\ entry.token = m.token /\ Fresh(entry.made)

(***************************************************************************)
(* The three sections in which the cache decides: each first asks whether  *)
(* semantic redundancy is enabled, then whether the calculation at stake   *)
(* is still current, and reads the authority last.                         *)
(***************************************************************************)
Woken(r, result) == requests[r].at = "wait" /\ flights[requests[r].flight].result = result

Wants(w) == IF w \in Requests THEN requests[w].at = "reserve" \/ Woken(w, "resolved")
            ELSE flights[w].at = "publish"

\* The calculation behind what the section is about, or None.
AtStake(w) ==
  IF w \notin Requests THEN flights[w].calc
  ELSE IF requests[w].at = "wait" THEN flights[requests[w].flight].calc
  ELSE IF entry # None THEN entry.calc ELSE None

Enter(w) ==
  /\ section = None /\ Wants(w)
  /\ mem' = CollectionLoaded(mem)
  /\ section' = [of |-> w, at |-> IF AtStake(w) = None THEN "decide" ELSE "validate", valid |-> FALSE,
                 enabled |-> disk[Collection].data \in Enabled]
  /\ UNCHANGED <<outside, entry, flight, flights, requests, changes>>

Validate ==
  /\ section # None /\ section.at = "validate"
  /\ mem' = CollectionLoaded(mem)
  /\ section' = [section EXCEPT !.at = "decide",
                                !.valid = ValidateCurrent(AtStake(section.of), mem')]
  /\ UNCHANGED <<outside, entry, flight, flights, requests, changes>>

Deciding(w) == section # None /\ section.of = w /\ section.at = "decide"

(***************************************************************************)
(* reserve                                                                 *)
(***************************************************************************)
Answered(r, made, complete) ==
  requests' = [requests EXCEPT ![r].at = "answered",
                               ![r].answer = [made |-> made, complete |-> complete]]

\* Mutant: any flight will do.
AnyFlight(identity, m) == flight # None

Joinable(identity, m) ==
  /\ flight # None
  /\ flights[flight].enabled = section.enabled
  /\ flights[flight].vector = m.token
  /\ flights[flight].identity = identity

NewFlight(identity, m) ==
  [at |-> "authority", enabled |-> section.enabled, vector |-> m.token, identity |-> identity,
   base |-> None, made |-> None, token |-> 0, calc |-> None, result |-> "pending", cacheable |-> FALSE]

Hit(identity, m) ==
  entry # None /\ section.valid /\ IsReusable(entry.calc, m) /\ IsUsable(identity, m)

Reserve(r) ==
  /\ Deciding(r) /\ requests[r].at = "reserve"
  /\ \E identity \in {Says(disk), None}, m \in {mem, AuthorityRead(mem)} :
       /\ Authority(identity, m)
       /\ mem' = m
       /\ IF Hit(identity, m)
          THEN Answered(r, entry.made, TRUE) /\ UNCHANGED <<entry, flight, flights>>
          ELSE /\ entry' = IF entry # None /\ IsUsable(identity, m) THEN entry ELSE None
               /\ IF Joinable(identity, m)
                  THEN UNCHANGED <<flight, flights>>
                  ELSE /\ flight' = Len(flights) + 1
                       /\ flights' = Append(flights, NewFlight(identity, m))
               /\ requests' = [requests EXCEPT ![r].at = "wait", ![r].flight = flight']
  /\ section' = None
  /\ UNCHANGED outside

(***************************************************************************)
(* finishBuild and buildSnapshot                                           *)
(***************************************************************************)
Building(i, at) == flights[i].at = at
Quiet == section = None /\ UNCHANGED <<outside, entry, flight, requests, section>>

BuildBegins(i) ==
  /\ Building(i, "authority") /\ Quiet
  /\ \E identity \in {Says(disk), None}, m \in {mem, AuthorityRead(mem)} :
       /\ Authority(identity, m)
       /\ mem' = m
       /\ flights' = [flights EXCEPT ![i].base = identity, ![i].at = "capture"]

\* capture: the vector is hydrated, and then every source is loaded
CaptureHydrates(i) ==
  /\ Building(i, "capture") /\ section = None
  /\ mem' = Hydrated(mem)
  /\ section' = [of |-> i, at |-> "load", valid |-> FALSE, enabled |-> FALSE]
  /\ UNCHANGED <<outside, entry, flight, flights, requests, changes>>

CaptureLoads(i) ==
  /\ Building(i, "capture") /\ section # None /\ section.of = i
  /\ mem' = ShelfLoaded(CollectionLoaded(mem))
  /\ flights' = [flights EXCEPT
       ![i].made = [says |-> [f \in Files |-> IF f = Shelf THEN mem'.cached ELSE disk[f].data],
                    judgments |-> None, evaluated |-> now, expires |-> ExpiresAfter(now)],
       ![i].token = mem'.token, ![i].at = "frame"]
  /\ section' = None
  /\ UNCHANGED <<outside, entry, flight, requests, changes>>

\* The scoring captures the sources again, refuses what differs from the first capture, and
\* calculates; without it the snapshot is degraded.
FrameTaken(i) ==
  /\ Building(i, "frame") /\ Quiet /\ UNCHANGED changes
  /\ mem' = CollectionLoaded(Hydrated(mem))
  /\ flights' =
       IF disk[Collection].data # flights[i].made.says[Collection]
       THEN [flights EXCEPT ![i].at = "still"]
       ELSE [flights EXCEPT ![i].at = "prepare", ![i].made.judgments = judgments,
               ![i].calc = [sig |-> disk[Collection].sig, token |-> mem'.token, judgments |-> judgments]]

Prepared(i) ==
  /\ Building(i, "prepare") /\ Quiet /\ UNCHANGED changes
  /\ mem' = CollectionLoaded(mem)
  /\ flights' = IF ValidateCurrent(flights[i].calc, mem')
                THEN [flights EXCEPT ![i].at = "still"]
                ELSE [flights EXCEPT ![i].at = "still", ![i].calc = None]

\* validateSemanticScoringInputCurrent and stillCurrent, sections that follow each other and of
\* which only the first reads a file
StillCurrent(i) ==
  /\ Building(i, "still") /\ Quiet /\ UNCHANGED changes
  /\ LET b == flights[i]
     IN /\ mem' = IF b.calc = None THEN mem ELSE CollectionLoaded(mem)
        /\ flights' = [flights EXCEPT ![i].at =
             IF b.token = mem'.token /\ (b.calc # None => ValidateCurrent(b.calc, mem'))
             THEN "publish" ELSE "clear"]

(***************************************************************************)
(* The publication section                                                 *)
(***************************************************************************)
Publishable(i, identity, m) ==
  LET b == flights[i]
  IN /\ section.enabled = b.enabled
     /\ b.token = m.token
     /\ b.calc # None => section.valid /\ b.base # None /\ b.base = identity /\ m.down = {}
     /\ flight = i
     /\ Fresh(b.made)

\* Mutant: only a build that is stored ends its flight.
LandedIfStored(i, stored) == flight' = IF stored THEN None ELSE flight

\* However it was published, nobody joins this flight any more; its promise is resolved as soon
\* as the section is left.
Landed(i, stored) == flight' = None

Publish(i) ==
  /\ Deciding(i)
  /\ \E identity \in {Says(disk), None}, m \in {mem, AuthorityRead(mem)} :
       /\ Authority(identity, m)
       /\ mem' = m
       /\ IF ~Publishable(i, identity, m)
          THEN /\ flights' = [flights EXCEPT ![i].at = "clear"]
               /\ UNCHANGED <<entry, flight>>
          ELSE LET b == flights[i]
                   stored == b.calc # None /\ IsReusable(b.calc, m)
               IN /\ entry' = IF stored
                              THEN [identity |-> identity, token |-> b.token, made |-> b.made,
                                    calc |-> b.calc]
                              ELSE entry
                  /\ Landed(i, stored)
                  /\ flights' = [flights EXCEPT ![i].at = "done", ![i].result = "resolved",
                                                ![i].cacheable = stored, ![i].identity = identity]
  /\ section' = None
  /\ UNCHANGED <<outside, requests>>

\* Mutant: the failure is only logged.
GivesUpQuietly(i) ==
  /\ Building(i, "clear") /\ section = None
  /\ flight' = IF flight = i THEN None ELSE flight
  /\ flights' = [flights EXCEPT ![i].at = "done"]
  /\ UNCHANGED <<outside, mem, entry, requests, section, changes>>

\* The catch: the flight is given up, and then its promise is rejected.
GivesUp(i) ==
  /\ Building(i, "clear") /\ section = None
  /\ flight' = IF flight = i THEN None ELSE flight
  /\ flights' = [flights EXCEPT ![i].at = "done", ![i].result = "rejected"]
  /\ UNCHANGED <<outside, mem, entry, requests, section, changes>>

(***************************************************************************)
(* resolve: two attempts                                                   *)
(***************************************************************************)
Again(r) ==
  requests' = [requests EXCEPT ![r] =
    IF @.attempt = 0 THEN [@ EXCEPT !.at = "reserve", !.attempt = 1, !.flight = None]
                     ELSE [@ EXCEPT !.at = "refused"]]

BuildFailed(r) ==
  /\ Woken(r, "rejected")
  /\ Again(r)
  /\ UNCHANGED <<outside, mem, entry, flight, flights, section, changes>>

Superseded(b, identity, m) ==
  \/ section.enabled # b.enabled
  \/ b.calc # None /\ ~section.valid
  \/ b.identity # None /\ identity # b.identity
  \/ b.token # m.token
  \/ ~Fresh(b.made)

\* A result that may be cached is answered from the entry, not from the build.
Acceptable(b, identity, m) ==
  /\ ~Superseded(b, identity, m)
  /\ b.calc # None => IsCurrent(b.calc, m)
  /\ b.cacheable =>
       /\ identity # None /\ m.down = {}
       /\ entry # None /\ entry.identity = identity /\ entry.token = m.token

Check(r) ==
  /\ Deciding(r) /\ requests[r].at = "wait"
  /\ LET b == flights[requests[r].flight]
     IN \E identity \in {Says(disk), None}, m \in {mem, AuthorityRead(mem)} :
          /\ Authority(identity, m)
          /\ mem' = m
          /\ IF Acceptable(b, identity, m)
             THEN Answered(r, IF b.cacheable THEN entry.made ELSE b.made, b.calc # None)
             ELSE Again(r)
          /\ entry' = IF entry # None /\ Superseded(b, identity, m) /\ entry.token # m.token
                      THEN None ELSE entry
  /\ section' = None
  /\ UNCHANGED <<outside, flight, flights>>

(***************************************************************************)
Builds(i) ==
  \/ BuildBegins(i) \/ CaptureHydrates(i) \/ CaptureLoads(i) \/ FrameTaken(i) \/ Prepared(i)
  \/ StillCurrent(i) \/ Publish(i) \/ GivesUp(i)

Asks(r) == Reserve(r) \/ BuildFailed(r) \/ Check(r)

Surroundings == \/ \E f \in Files, x \in Data : Edit(f, x) \/ Save(f, x)
                \/ Judge \/ Tick

Works == \/ Validate
         \/ \E w \in Requests \cup DOMAIN flights : Enter(w)
         \/ \E i \in DOMAIN flights : Builds(i)
         \/ \E r \in Requests : Asks(r)

Next == Surroundings \/ Works

Spec == Init /\ [][Next]_vars

\* A section that was entered goes on, the coordinator's queue is served, and a promise that
\* was settled wakes who awaits it.
FairSpec == Spec /\ WF_vars(Works)

(***************************************************************************)
(* Properties                                                              *)
(***************************************************************************)
\* The build reads one file after another while the editor works, and its authority is read
\* before and after it: yet what is cached says exactly what the files said together under the
\* identity it is cached with.
EntryIsWhatItIdentifies == entry # None => entry.made.says = entry.identity

\* Whether it comes from the entry, from a build of one's own or from one that was joined, a
\* complete snapshot is answered only while the files say what it shows, the judgments are those
\* it was calculated with and none of its facts has become stale.
AnswersAreCurrent ==
  [][\A r \in Requests :
       requests'[r].at = "answered" /\ requests[r].at # "answered" /\ requests'[r].answer.complete =>
         LET made == requests'[r].answer.made
         IN made.says = Says(disk) /\ made.judgments = judgments /\ Fresh(made)]_vars

\* No request ever joins a flight that has landed ("resolve outside the lock only after no later
\* caller can join this completed flight").
JoinedFlightIsPending == flight # None => flights[flight].result = "pending" /\ flights[flight].at # "done"

\* A request is answered or refused, whatever the build it waits for ran into.
EveryRequestIsAnswered ==
  <>(\A r \in Requests : requests[r].at \in {"answered", "refused"})
=============================================================================
