------------------------- MODULE RunControllerProofs -------------------------
(***************************************************************************)
(* Proofs about the run controller, for any number of previews, limits and *)
(* changes.                                                                *)
(*                                                                         *)
(* The properties are not inductive.  What they rest on: a start that *)
(* is being prepared has a pending receipt, which nothing but its own      *)
(* answer removes; an authorization that was begun was consumed; and what  *)
(* a scan saw is true as long as the revision it saw is the cache's.       *)
(***************************************************************************)
EXTENDS RunController, TLAPS

HandleHasReceipt == activeHandle # None => receipts[activeHandle].state = "active"
PreparedHasReceipt ==
  \A p \in Previews : starts[p].stage # "idle" => receipts[p].state = "pending"
NotesAreOfCollection ==
  \A p \in Previews : starts[p].notes => p \notin WishlistPreviews
BegunIsConsumed ==
  \A p \in Previews : authorizations[p].executed => authorizations[p].consumed
ScanIsHonest ==
  ~configured =>
    \A p \in Previews : starts[p].stage = "admission" =>
      /\ starts[p].seen.revision <= judgments.revision
      /\ starts[p].seen.revision = judgments.revision =>
           starts[p].seen.requiresProvider = ~judgments.complete

ControllerInv ==
  /\ TypeOK
  /\ LiveRunIsReachable /\ HandleHasReceipt
  /\ PreparedHasReceipt
  /\ NotesAreOfCollection
  /\ BegunIsConsumed
  /\ ScanIsHonest

(***************************************************************************)
(* The helpers keep the types, and lose no receipt that is in use.         *)
(***************************************************************************)
\* Trimming drops authorizations from the map and changes nothing else about them.
LEMMA TrimmedKeeps ==
  ASSUME NEW a \in [Previews -> Authorization]
  PROVE  /\ Trimmed(a) \in [Previews -> Authorization]
         /\ \A p \in Previews : /\ Trimmed(a)[p].executed = a[p].executed
                                /\ Trimmed(a)[p].consumed = a[p].consumed
BY DEF Trimmed, Authorization

\* So does the expiry of records that every start begins with.
LEMMA KeptAuthorizationsKeeps ==
  ASSUME authorizations \in [Previews -> Authorization]
  PROVE  /\ KeptAuthorizations \in [Previews -> Authorization]
         /\ \A p \in Previews :
              /\ KeptAuthorizations[p].executed = authorizations[p].executed
              /\ KeptAuthorizations[p].consumed = authorizations[p].consumed
BY DEF KeptAuthorizations, Authorization

\* A receipt that is pending or of a live run does not expire.
LEMMA KeptReceiptsKeeps ==
  ASSUME receipts \in [Previews -> Receipt]
  PROVE  /\ KeptReceipts \in [Previews -> Receipt]
         /\ \A p \in Previews :
              receipts[p].state \in {"pending", "active"} => KeptReceipts[p] = receipts[p]
         /\ \A p \in Previews : KeptReceipts[p].state \in {"absent", receipts[p].state}
BY DEF KeptReceipts, Receipt, NoReceipt

\* A start that is received is checked first.
LEMMA CheckingIsStart ==
  ASSUME NEW notes \in BOOLEAN
  PROVE  /\ NoStart \in Start
         /\ [NoStart EXCEPT !.stage = "checking", !.notes = notes] \in Start
<1>1. NoStart \in Start
  BY ControllerAssumption DEF NoStart, Start, Unseen, Readiness
<1>2. "checking" \in {"idle"} \cup Waiting
  BY DEF Waiting
<1> QED
  BY <1>1, <1>2 DEF Start

(***************************************************************************)
(* The initial states, and one lemma for each group of actions.            *)
(***************************************************************************)
LEMMA InitInv == Init => ControllerInv
<1> SUFFICES ASSUME Init PROVE ControllerInv
  OBVIOUS
<1> USE ControllerAssumption
<1>1. TypeOK
  <2>1. Unissued \in Authorization
    BY DEF Unissued, Authorization
  <2>2. NoReceipt \in Receipt
    BY DEF NoReceipt, Receipt
  <2>3. NoStart \in Start
    BY CheckingIsStart
  <2>4. /\ sources \in [version : 0..MaxChanges, notes : BOOLEAN]
        /\ judgments \in [revision : 0..MaxChanges, complete : BOOLEAN]
    BY DEF Init
  <2>5. /\ authorizations \in [Previews -> Authorization]
        /\ receipts \in [Previews -> Receipt]
        /\ starts \in [Previews -> Start]
    BY <2>1, <2>2, <2>3 DEF Init
  <2>6. wishlist \in 0..MaxChanges
    BY DEF Init
  <2>7. /\ configured \in BOOLEAN /\ batch \in BOOLEAN
        /\ activeHandle \in Previews \cup {None} /\ running \in Previews \cup {None}
    BY Zenon DEF Init
  <2> QED
    BY <2>4, <2>5, <2>6, <2>7 DEF TypeOK
<1>2. LiveRunIsReachable /\ HandleHasReceipt
  BY DEF Init, LiveRunIsReachable, HandleHasReceipt
<1>3. PreparedHasReceipt /\ NotesAreOfCollection /\ BegunIsConsumed /\ ScanIsHonest
  BY DEF Init, PreparedHasReceipt, NotesAreOfCollection, BegunIsConsumed, ScanIsHonest, NoStart, Unissued
<1> QED
  BY <1>1, <1>2, <1>3 DEF ControllerInv

LEMMA PreviewInv ==
  ASSUME ControllerInv, NEW p \in Previews, Preview(p)
  PROVE  ControllerInv'
<1> USE ControllerAssumption DEF ControllerInv, Preview, world, service
<1> DEFINE a == [authorizations EXCEPT ![p].state = "held",
                                       ![p].sources = sources.version,
                                       ![p].wishlist = wishlist]
<1>1. a \in [Previews -> Authorization]
  BY DEF TypeOK, Authorization
<1>2. \A q \in Previews : /\ a[q].executed = authorizations[q].executed
                          /\ a[q].consumed = authorizations[q].consumed
  BY DEF TypeOK, Authorization
<1>3. authorizations' = Trimmed(a)
  OBVIOUS
<1> HIDE DEF a
<1>4. TypeOK'
  <2>1. authorizations' \in [Previews -> Authorization]
    BY <1>1, <1>3, TrimmedKeeps
  <2> QED
    BY <2>1 DEF TypeOK
<1>5. BegunIsConsumed'
  BY <1>1, <1>2, <1>3, TrimmedKeeps DEF BegunIsConsumed
<1>6. /\ LiveRunIsReachable' /\ HandleHasReceipt' /\ PreparedHasReceipt'
      /\ NotesAreOfCollection' /\ ScanIsHonest'
  BY DEF LiveRunIsReachable, HandleHasReceipt, PreparedHasReceipt, NotesAreOfCollection, ScanIsHonest
<1> QED
  BY <1>4, <1>5, <1>6

\* Receiving a start expires records, and may begin to prepare it.
LEMMA ReceiveInv ==
  ASSUME ControllerInv, NEW p \in Previews,
         Answer(p) \/ \E notes \in BOOLEAN : Receive(p, notes)
  PROVE  ControllerInv'
<1> USE ControllerAssumption DEF ControllerInv, world, service
<1>1. /\ authorizations' = KeptAuthorizations
      /\ authorizations \in [Previews -> Authorization]
      /\ receipts \in [Previews -> Receipt]
  BY DEF Answer, Receive, TypeOK
<1>2. BegunIsConsumed'
  BY <1>1, KeptAuthorizationsKeeps DEF BegunIsConsumed
<1>3. CASE Answer(p)
  <2>1. TypeOK'
    BY <1>1, <1>3, KeptAuthorizationsKeeps, KeptReceiptsKeeps DEF Answer, TypeOK
  <2>2. LiveRunIsReachable' /\ HandleHasReceipt'
    BY <1>1, <1>3, KeptReceiptsKeeps DEF Answer, TypeOK, LiveRunIsReachable, HandleHasReceipt
  <2>3. PreparedHasReceipt'
    BY <1>1, <1>3, KeptReceiptsKeeps DEF Answer, PreparedHasReceipt
  <2>4. NotesAreOfCollection' /\ ScanIsHonest'
    BY <1>3 DEF Answer, NotesAreOfCollection, ScanIsHonest
  <2> QED
    BY <1>2, <2>1, <2>2, <2>3, <2>4
<1>4. ASSUME NEW notes \in BOOLEAN, Receive(p, notes)
      PROVE  ControllerInv'
  <2> USE <1>4 DEF Receive
  <2>1. TypeOK'
    <3>1. [NoStart EXCEPT !.stage = "checking", !.notes = notes] \in Start
      BY CheckingIsStart
    <3>2. [state |-> "pending", expired |-> FALSE] \in Receipt
      BY DEF Receipt
    <3> QED
      BY <1>1, <3>1, <3>2, KeptAuthorizationsKeeps, KeptReceiptsKeeps DEF TypeOK
  <2>2. receipts[p].state \notin {"pending", "active"}
    BY <1>1, KeptReceiptsKeeps DEF Receipt
  <2>3. LiveRunIsReachable' /\ HandleHasReceipt'
    BY <1>1, <2>2, KeptReceiptsKeeps DEF TypeOK, LiveRunIsReachable, HandleHasReceipt
  <2>4. PreparedHasReceipt'
    BY <1>1, KeptReceiptsKeeps DEF PreparedHasReceipt, TypeOK
  <2>5. NotesAreOfCollection' /\ ScanIsHonest'
    BY DEF NotesAreOfCollection, ScanIsHonest, TypeOK, Start, NoStart
  <2> QED
    BY <1>2, <2>1, <2>3, <2>4, <2>5
<1> QED
  BY <1>3, <1>4

\* A refusal forgets the receipt of the start, which is not that of a live run.
LEMMA RefuseInv ==
  ASSUME ControllerInv, NEW p \in Previews, Refuse(p), starts[p].stage # "idle",
         batch' \in BOOLEAN, UNCHANGED <<world, authorizations, activeHandle, running>>
  PROVE  ControllerInv'
<1> USE ControllerAssumption DEF ControllerInv, Refuse, world
<1>1. TypeOK'
  BY DEF TypeOK, NoStart, Start, Unseen, Readiness, NoReceipt, Receipt
<1>2. LiveRunIsReachable' /\ HandleHasReceipt'
  BY DEF TypeOK, LiveRunIsReachable, HandleHasReceipt, PreparedHasReceipt
<1>3. PreparedHasReceipt'
  BY DEF TypeOK, PreparedHasReceipt, NoStart
<1>4. NotesAreOfCollection' /\ BegunIsConsumed' /\ ScanIsHonest'
  BY DEF TypeOK, NotesAreOfCollection, BegunIsConsumed, ScanIsHonest, NoStart
<1> QED
  BY <1>1, <1>2, <1>3, <1>4

\* A start that goes on keeps its receipt and its notes; where it is scanned, it is scanned
\* as the judgments are.
LEMMA GoesInv ==
  ASSUME ControllerInv, NEW p \in Previews, starts[p].stage # "idle",
         NEW s \in Start, starts' = [starts EXCEPT ![p] = s],
         s.stage # "idle", s.notes = starts[p].notes,
         s.stage = "admission" /\ ~configured =>
           s.seen = [revision |-> judgments.revision, requiresProvider |-> ~judgments.complete],
         UNCHANGED <<world, authorizations, receipts, activeHandle, service>>
  PROVE  ControllerInv'
<1> USE ControllerAssumption DEF ControllerInv, world, service
<1>1. TypeOK'
  BY DEF TypeOK
<1>2. LiveRunIsReachable' /\ HandleHasReceipt' /\ BegunIsConsumed'
  BY DEF LiveRunIsReachable, HandleHasReceipt, BegunIsConsumed
<1>3. PreparedHasReceipt' /\ NotesAreOfCollection'
  BY DEF TypeOK, PreparedHasReceipt, NotesAreOfCollection
<1>4. ScanIsHonest'
  BY DEF TypeOK, ScanIsHonest
<1> QED
  BY <1>1, <1>2, <1>3, <1>4

\* What a start does before its admission: it is refused, or goes on.
LEMMA PrepareInv ==
  ASSUME ControllerInv, NEW p \in Previews, Prepare(p)
  PROVE  ControllerInv'
<1> USE ControllerAssumption DEF ControllerInv
<1>1. starts[p] \in Start /\ judgments \in [revision : 0..MaxChanges, complete : BOOLEAN]
  BY DEF TypeOK
<1>2. UNCHANGED <<world, authorizations, activeHandle, service>> /\ starts[p].stage # "idle"
  BY DEF Prepare, Check, Permit, Validate, Scan
<1>3. CASE Refuse(p)
  BY <1>2, <1>3, RefuseInv DEF TypeOK, service
<1>4. ASSUME NEW stage \in Waiting \ {"admission"}, Goes(p, stage)
      PROVE  ControllerInv'
  <2> DEFINE s == [starts[p] EXCEPT !.stage = stage]
  <2>1. s \in Start /\ s.stage = stage /\ s.notes = starts[p].notes
    BY <1>1 DEF Start
  <2>2. starts' = [starts EXCEPT ![p] = s] /\ UNCHANGED receipts
    BY <1>4 DEF Goes
  <2>3. stage # "idle" /\ stage # "admission"
    BY DEF Waiting
  <2> HIDE DEF s
  <2> QED
    BY <1>2, <2>1, <2>2, <2>3, GoesInv
<1>5. CASE Scan(p)
  <2> DEFINE seen == IF configured THEN Unseen
                     ELSE [revision |-> judgments.revision,
                           requiresProvider |-> ~judgments.complete]
             s == [starts[p] EXCEPT !.stage = "admission", !.seen = seen]
  <2>1. seen \in Readiness
    BY <1>1 DEF Readiness, Unseen
  <2>2. "admission" \in Waiting /\ "admission" # "idle"
    BY DEF Waiting
  <2>3. ~configured => seen = [revision |-> judgments.revision,
                               requiresProvider |-> ~judgments.complete]
    OBVIOUS
  <2>4. starts' = [starts EXCEPT ![p] = s] /\ UNCHANGED receipts
    BY <1>5 DEF Scan
  <2> HIDE DEF seen
  <2>5. s \in Start /\ s.stage = "admission" /\ s.notes = starts[p].notes /\ s.seen = seen
    BY <1>1, <2>1, <2>2 DEF Start
  <2> HIDE DEF s
  <2> QED
    BY <1>2, <2>2, <2>3, <2>4, <2>5, GoesInv
<1>6. Refuse(p) \/ (\E stage \in Waiting \ {"admission"} : Goes(p, stage)) \/ Scan(p)
  <2>1. {"permission", "validating", "scanning"} \subseteq Waiting \ {"admission"}
    BY DEF Waiting
  <2> QED
    BY <2>1, Zenon DEF Prepare, Check, Permit, Validate
<1> QED
  BY <1>3, <1>4, <1>5, <1>6

\* The admission that begins a run makes its receipt the one of the live run.
LEMMA BeginInv ==
  ASSUME ControllerInv, NEW p \in Previews, Reserve(p), Begins(p)
  PROVE  ControllerInv'
<1> USE ControllerAssumption DEF ControllerInv
<1> DEFINE a == [authorizations[p] EXCEPT !.consumed = TRUE, !.executed = TRUE]
           r == [receipts[p] EXCEPT !.state = "active", !.expired = FALSE]
<1>1. receipts[p].state = "pending" /\ starts[p].stage = "admission"
  BY DEF PreparedHasReceipt, Reserve
<1>2. a \in Authorization /\ a.consumed /\ a.executed
  BY DEF TypeOK, Authorization
<1>3. r \in Receipt /\ r.state = "active"
  BY DEF TypeOK, Receipt
<1>4. authorizations' = [authorizations EXCEPT ![p] = a]
  BY DEF TypeOK, Reserve
<1>5. receipts' = [receipts EXCEPT ![p] = r]
  BY <1>1 DEF TypeOK, Reserve
<1>6. /\ running' = p /\ activeHandle' = p /\ batch' = TRUE
      /\ starts' = [starts EXCEPT ![p] = NoStart]
      /\ UNCHANGED <<sources, wishlist, judgments, configured>>
  BY DEF Reserve, world
<1> HIDE DEF a, r
<1>7. TypeOK'
  BY <1>2, <1>3, <1>4, <1>5, <1>6, CheckingIsStart DEF TypeOK
<1>8. LiveRunIsReachable' /\ HandleHasReceipt'
  BY <1>3, <1>5, <1>6 DEF TypeOK, LiveRunIsReachable, HandleHasReceipt
<1>9. PreparedHasReceipt'
  BY <1>5, <1>6 DEF TypeOK, PreparedHasReceipt, NoStart
<1>10. BegunIsConsumed'
  BY <1>2, <1>4 DEF TypeOK, BegunIsConsumed
<1>11. NotesAreOfCollection' /\ ScanIsHonest'
  BY <1>6 DEF TypeOK, NotesAreOfCollection, ScanIsHonest, NoStart
<1> QED
  BY <1>7, <1>8, <1>9, <1>10, <1>11

LEMMA AdmitInv ==
  ASSUME ControllerInv, NEW p \in Previews, Admit(p)
  PROVE  ControllerInv'
<1> USE ControllerAssumption DEF ControllerInv
<1>1. starts[p].stage = "admission" /\ starts[p] \in Start /\ batch \in BOOLEAN
  BY DEF Admit, Decline, ScanAgain, Conflict, Reserve, TypeOK
<1>2. CASE Decline(p) \/ Conflict(p)
  BY <1>1, <1>2, RefuseInv DEF Decline, Conflict, service
<1>3. CASE Reserve(p) /\ ~Begins(p)
  BY <1>1, <1>3, RefuseInv DEF Reserve
<1>4. CASE Reserve(p) /\ Begins(p)
  BY <1>4, BeginInv
<1>5. CASE ScanAgain(p)
  <2> DEFINE s == [starts[p] EXCEPT !.stage = "scanning", !.attempt = @ + 1]
  <2>1. starts[p].attempt \in 0..MaxAttempts - 1 /\ starts[p].attempt + 1 # MaxAttempts
    BY <1>1, <1>5 DEF Start, ScanAgain, LastAttempt
  <2>2. starts[p].attempt + 1 \in 0..MaxAttempts - 1
    BY <2>1
  <2>3. "scanning" \in Waiting /\ "scanning" # "idle" /\ "scanning" # "admission"
    BY DEF Waiting
  <2>4. s \in Start /\ s.stage = "scanning" /\ s.notes = starts[p].notes
    BY <1>1, <2>2, <2>3 DEF Start
  <2>5. starts' = [starts EXCEPT ![p] = s]
    BY <1>5 DEF ScanAgain
  <2>6. UNCHANGED <<world, authorizations, receipts, activeHandle, service>>
    BY <1>5 DEF ScanAgain
  <2> HIDE DEF s
  <2> QED
    BY <1>1, <2>3, <2>4, <2>5, <2>6, GoesInv
<1> QED
  BY <1>2, <1>3, <1>4, <1>5 DEF Admit

\* The end of a run: its receipt is live until the run is settled.
LEMMA EndInv ==
  ASSUME ControllerInv, Settle \/ Resolve \/ \E p \in Previews : Release(p)
  PROVE  ControllerInv'
<1> USE ControllerAssumption DEF ControllerInv
<1>1. UNCHANGED <<world, authorizations, starts>>
  BY DEF Settle, Resolve, Release
<1>2. NotesAreOfCollection' /\ BegunIsConsumed' /\ ScanIsHonest'
  BY <1>1 DEF NotesAreOfCollection, BegunIsConsumed, ScanIsHonest, world
<1>3. CASE Settle \/ Resolve
  <2>1. /\ running' \in {None, running} /\ batch' \in BOOLEAN
        /\ UNCHANGED <<receipts, activeHandle>>
    BY <1>3 DEF Settle, Resolve
  <2>2. TypeOK'
    BY <1>1, <2>1 DEF TypeOK, world
  <2>3. LiveRunIsReachable' /\ HandleHasReceipt' /\ PreparedHasReceipt'
    BY <1>1, <2>1 DEF LiveRunIsReachable, HandleHasReceipt, PreparedHasReceipt
  <2> QED
    BY <1>2, <2>2, <2>3
<1>4. ASSUME NEW p \in Previews, Release(p)
      PROVE  ControllerInv'
  <2>1. /\ activeHandle = p /\ activeHandle' = None /\ running = None
        /\ UNCHANGED <<running, batch>>
    BY <1>4 DEF Release, LiveRunIsReachable, service
  <2>2. receipts[p].state = "active"
    BY <2>1, ControllerAssumption DEF HandleHasReceipt
  <2>3. receipts' = [receipts EXCEPT ![p].state = "replay", ![p].expired = FALSE]
    BY <1>4, <2>2 DEF Release
  <2>4. receipts' \in [Previews -> Receipt]
    BY <2>3 DEF TypeOK, Receipt
  <2>5. TypeOK'
    BY <1>1, <2>1, <2>4 DEF TypeOK, world
  <2>6. LiveRunIsReachable' /\ HandleHasReceipt'
    BY <2>1 DEF LiveRunIsReachable, HandleHasReceipt
  <2>7. PreparedHasReceipt'
    BY <1>1, <2>2, <2>3 DEF TypeOK, PreparedHasReceipt
  <2> QED
    BY <1>2, <2>5, <2>6, <2>7
<1> QED
  BY <1>3, <1>4

\* The rest of the daemon, and time: sources, wishlist and judgments only move on.
LEMMA EnvironmentInv ==
  ASSUME ControllerInv,
         \/ ChangeSources \/ ChangeWishlist \/ ChangeJudgments
         \/ \E p \in Previews : AuthorizationExpires(p) \/ ReceiptExpires(p)
  PROVE  ControllerInv'
<1> USE ControllerAssumption DEF ControllerInv
<1>1. CASE ChangeSources \/ ChangeWishlist
  <2>1. UNCHANGED <<judgments, configured, authorizations, receipts, starts, activeHandle, service>>
    BY <1>1 DEF ChangeSources, ChangeWishlist
  <2>2. sources' \in [version : 0..MaxChanges, notes : BOOLEAN]
    BY <1>1 DEF ChangeSources, ChangeWishlist, MayChange, TypeOK
  <2>3. wishlist' \in 0..MaxChanges
    BY <1>1 DEF ChangeSources, ChangeWishlist, MayChange, TypeOK
  <2>4. TypeOK'
    BY <2>1, <2>2, <2>3 DEF TypeOK, service
  <2> QED
    BY <2>1, <2>4 DEF LiveRunIsReachable, HandleHasReceipt, PreparedHasReceipt,
                      NotesAreOfCollection, BegunIsConsumed, ScanIsHonest, service
<1>2. CASE ChangeJudgments
  <2>1. UNCHANGED <<sources, wishlist, configured, authorizations, receipts, starts,
                    activeHandle, service>>
    BY <1>2 DEF ChangeJudgments
  <2>2. /\ judgments' \in [revision : 0..MaxChanges, complete : BOOLEAN]
        /\ judgments'.revision = judgments.revision + 1
    BY <1>2 DEF ChangeJudgments, MayChange, TypeOK
  <2>3. TypeOK'
    BY <2>1, <2>2 DEF TypeOK, service
  <2>4. ScanIsHonest'
    <3>1. /\ judgments.revision \in 0..MaxChanges
          /\ \A p \in Previews : starts[p].seen.revision \in 0..MaxChanges
      BY DEF TypeOK, Start, Readiness
    <3>2. ASSUME ~configured, NEW p \in Previews, starts[p].stage = "admission"
          PROVE  /\ starts[p].seen.revision <= judgments'.revision
                 /\ starts[p].seen.revision # judgments'.revision
      BY <2>2, <3>1, <3>2 DEF ScanIsHonest
    <3> QED
      BY <2>1, <3>2 DEF ScanIsHonest
  <2> QED
    BY <2>1, <2>3, <2>4 DEF LiveRunIsReachable, HandleHasReceipt, PreparedHasReceipt,
                            NotesAreOfCollection, BegunIsConsumed, service
<1>3. ASSUME NEW p \in Previews, AuthorizationExpires(p)
      PROVE  ControllerInv'
  <2>1. /\ authorizations' = [authorizations EXCEPT ![p].expired = TRUE]
        /\ UNCHANGED <<world, receipts, starts, activeHandle, service>>
    BY <1>3 DEF AuthorizationExpires
  <2>2. authorizations' \in [Previews -> Authorization]
    <3>1. authorizations \in [Previews -> Authorization]
      BY DEF TypeOK
    <3>2. [authorizations[p] EXCEPT !.expired = TRUE] \in Authorization
      BY <3>1 DEF Authorization
    <3> QED
      BY <2>1, <3>1, <3>2
  <2>3. TypeOK'
    BY <2>1, <2>2 DEF TypeOK, world, service
  <2>4. BegunIsConsumed'
    BY <2>1 DEF TypeOK, BegunIsConsumed
  <2> QED
    BY <2>1, <2>3, <2>4 DEF LiveRunIsReachable, HandleHasReceipt, PreparedHasReceipt,
                            NotesAreOfCollection, ScanIsHonest, world, service
<1>4. ASSUME NEW p \in Previews, ReceiptExpires(p)
      PROVE  ControllerInv'
  <2>1. /\ receipts' = [receipts EXCEPT ![p].expired = TRUE]
        /\ UNCHANGED <<world, authorizations, starts, activeHandle, service>>
    BY <1>4 DEF ReceiptExpires
  <2>2. /\ receipts' \in [Previews -> Receipt]
        /\ \A q \in Previews : receipts'[q].state = receipts[q].state
    BY <2>1 DEF TypeOK, Receipt
  <2>3. TypeOK'
    BY <2>1, <2>2 DEF TypeOK, world, service
  <2>4. LiveRunIsReachable' /\ HandleHasReceipt' /\ PreparedHasReceipt'
    BY <2>1, <2>2 DEF TypeOK, LiveRunIsReachable, HandleHasReceipt, PreparedHasReceipt, service
  <2> QED
    BY <2>1, <2>3, <2>4 DEF NotesAreOfCollection, BegunIsConsumed, ScanIsHonest, world
<1> QED
  BY <1>1, <1>2, <1>3, <1>4

(***************************************************************************)
(* The theorems.                                                           *)
(***************************************************************************)
\* Every step keeps the invariant.
LEMMA InvariantStep == ControllerInv /\ [Next]_vars => ControllerInv'
<1> SUFFICES ASSUME ControllerInv, [Next]_vars PROVE ControllerInv'
  OBVIOUS
<1>1. CASE UNCHANGED vars
  BY <1>1 DEF ControllerInv, TypeOK, LiveRunIsReachable, HandleHasReceipt, PreparedHasReceipt,
              NotesAreOfCollection, BegunIsConsumed, ScanIsHonest, vars, world, service
<1>2. CASE Next
  BY <1>2, PreviewInv, ReceiveInv, PrepareInv, AdmitInv, EndInv, EnvironmentInv DEF Next
<1> QED
  BY <1>1, <1>2

\* The invariant on which the theorems rest.
LEMMA InvariantHolds == Spec => []ControllerInv
<1> QED
  BY InitInv, InvariantStep, PTL DEF Spec

\* The types are kept, and with them: the controller can reach the run that is executing,
\* and a repeated start finds its receipt.
THEOREM ControllerInvariant == Spec => [](TypeOK /\ LiveRunIsReachable)
<1>1. ControllerInv => TypeOK /\ LiveRunIsReachable
  BY DEF ControllerInv
<1> QED
  BY InvariantHolds, <1>1, PTL

\* A run begins only at the admission that reserves its batch.
LEMMA OnlyReserveBegins ==
  ASSUME ControllerInv, [Next]_vars, NEW p \in Previews, running # p, running' = p
  PROVE  Reserve(p) /\ Begins(p)
<1>1. running' # running /\ running' # None
  BY ControllerAssumption
<1>2. PICK q \in Previews : Reserve(q) /\ Begins(q)
  BY <1>1, Zenon DEF Next, Preview, Answer, Receive, Prepare, Check, Permit, Validate, Scan,
     Admit, Decline, ScanAgain, Conflict, Reserve, Release, AuthorizationExpires,
     ReceiptExpires, Settle, Resolve, ChangeSources, ChangeWishlist, ChangeJudgments,
     vars, service
<1> QED
  BY <1>2 DEF Reserve

\* A run begins as it was disclosed, whatever changes while its start waits, and without a
\* provider only when it needs none.
THEOREM RunsBeginAsDisclosed == Spec => BeginsAsDisclosed
<1>1. ASSUME ControllerInv, [Next]_vars, NEW p \in Previews, running # p, running' = p
      PROVE  /\ ~authorizations[p].expired /\ ~authorizations[p].executed
             /\ StillCurrent(p)
             /\ starts[p].notes => sources.notes /\ p \notin WishlistPreviews
             /\ ~configured => judgments.complete
  <2>1. Reserve(p) /\ Begins(p)
    BY <1>1, OnlyReserveBegins
  <2>2. ASSUME ~configured PROVE judgments.complete
    <3>1. /\ starts[p].stage = "admission"
          /\ starts[p].seen.revision = judgments.revision /\ ~starts[p].seen.requiresProvider
      BY <2>1, <2>2 DEF Reserve, Ready, Outdated, LacksProvider
    <3> QED
      BY <1>1, <2>2, <3>1 DEF ControllerInv, ScanIsHonest, TypeOK
  <2> QED
    BY <1>1, <2>1, <2>2
       DEF Reserve, Begins, Ready, Admissible, ControllerInv, NotesAreOfCollection
<1>2. ControllerInv /\ [Next]_vars =>
        [\A p \in Previews : running # p /\ running' = p =>
           /\ ~authorizations[p].expired /\ ~authorizations[p].executed
           /\ StillCurrent(p)
           /\ starts[p].notes => sources.notes /\ p \notin WishlistPreviews
           /\ ~configured => judgments.complete]_vars
  BY <1>1
<1> QED
  BY InvariantHolds, <1>2, PTL DEF Spec, BeginsAsDisclosed

\* Where the wishlist is that of the preview, a refused start leaves the stored batch alone:
\* the frozen run that cannot begin is refused before its batch is reserved.
THEOREM RefusalsStrandNothingElse == Spec => OnlyWishlistStrandsBatch
<1>1. ASSUME ControllerInv, [Next]_vars, NEW p \in Previews,
             Refused(p), authorizations[p].wishlist = wishlist
      PROVE  batch' = batch
  <2>1. SUFFICES ASSUME batch' # batch PROVE FALSE
    OBVIOUS
  <2>2. CASE Settle \/ Resolve
    BY <1>1, <2>2 DEF Settle, Resolve, Refused
  <2>3. CASE \E q \in Previews : Reserve(q)
    <3>1. PICK q \in Previews : Reserve(q)
      BY <2>3
    <3>2. q = p
      BY <1>1, <3>1 DEF Refused, Reserve, Refuse, ControllerInv, TypeOK
    <3>3. ~Begins(p)
      BY <1>1, <3>1, <3>2 DEF Refused, Reserve
    <3>4. SourcesMatch(p) /\ ~authorizations[p].consumed
      BY <3>1, <3>2 DEF Reserve, Ready, Admissible
    <3> QED
      BY <1>1, <3>3, <3>4 DEF Begins, StillCurrent, ControllerInv, BegunIsConsumed
  <2>4. UNCHANGED batch \/ Settle \/ Resolve \/ \E q \in Previews : Reserve(q)
    BY <1>1, Zenon DEF Next, Preview, Answer, Receive, Prepare, Check, Permit, Validate, Scan,
       Admit, Decline, ScanAgain, Conflict, Release, AuthorizationExpires, ReceiptExpires,
       ChangeSources, ChangeWishlist, ChangeJudgments, vars, service
  <2> QED
    BY <2>1, <2>2, <2>3, <2>4
<1>2. ControllerInv /\ [Next]_vars =>
        [\A p \in Previews :
           Refused(p) /\ authorizations[p].wishlist = wishlist => batch' = batch]_vars
  BY <1>1
<1> QED
  BY InvariantHolds, <1>2, PTL DEF Spec, OnlyWishlistStrandsBatch
==============================================================================
