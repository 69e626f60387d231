-------------------------- MODULE AnalystTurnsProofs --------------------------
(***************************************************************************)
(* Who may be cancelled is who answers, the client is told what the        *)
(* registry records, streams end in a terminal event and the maps of       *)
(* identities stay bounded: for any calls, requests and limit.             *)
(***************************************************************************)
EXTENDS AnalystTurns, FiniteSetTheorems, TLAPS

(***************************************************************************)
(* One call: its turn and its record.  From the reservation on the record  *)
(* stays active until the ending is committed or released.                 *)
(***************************************************************************)
Silent == {"absent", "validating", "refused", "opening", "asked", "answering", "catching"}
Reserving == {"writing", "reporting"}

CallOK(t, o) ==
  /\ t \in Turn /\ o \in Operation
  /\ o.state # "terminal" => o.outcome = None
  /\ t.stage \in {"absent", "validating"} => t.reading
  /\ ~t.reading => ~o.attached
  /\ "transport-lost" \in {o.outcome, o.pending} => ~o.attached
  /\ t.stage \in Silent => t.told = None
  /\ t.stage \in {"answering"} \cup Reserving => t.ending \in OwnOutcomes
  /\ t.stage \notin Reserving => ~o.reserved
  /\ t.stage \in Reserving => /\ o.state = "active" /\ o.reserved /\ o.defers
                              /\ t.told = IF t.wrote THEN t.ending ELSE None
  /\ t.stage = "reporting" /\ ~t.wrote => ~t.reading
  /\ t.stage = "closing" =>
       /\ t.told \in TerminalEvents => o.state = "terminal" /\ o.outcome = t.told
       /\ o.attached /\ ~(o.outcome = "cancelled" /\ t.deadline) => t.told \in TerminalEvents
  /\ t.stage = "settled" /\ t.told \in TerminalEvents => o.state = "absent"

(***************************************************************************)
(* The registers of the route                                              *)
(***************************************************************************)
Validating(c) == turn[c].stage = "validating"

RegistersOK ==
  /\ TypeOK
  /\ active \in [Conversations -> Calls \cup {None}]
  /\ \A v \in Conversations : active[v] # None => turn[active[v]].stage \in Running
  /\ \A c \in Calls : turn[c].stage # "absent" => request[c] \in Request
  /\ \A c \in Calls : Validating(c) => /\ active[Conversation(c)] = None
                                       /\ pending[Conversation(c)] # None
  /\ \A c, d \in Calls : Validating(c) /\ Validating(d) /\ Conversation(c) = Conversation(d) => c = d

IdentitiesOK ==
  /\ IsFiniteSet(Retained) /\ IsFiniteSet(used)
  /\ RetainedWithinLimit

TurnsInv ==
  /\ RegistersOK /\ IdentitiesOK /\ AnsweringTurnIsActive
  /\ \A c \in Calls : CallOK(turn[c], op[c])

(***************************************************************************)
(* The registry's functions                                                *)
(***************************************************************************)
LEMMA Cancellation ==
  ASSUME NEW o \in Operation, o.state # "terminal" => o.outcome = None
  PROVE  LET p == Cancelled(o)
         IN /\ p \in Operation
            /\ p.attached = o.attached /\ p.reserved = o.reserved /\ p.defers = o.defers
            /\ o.state # "active" => p = o
            /\ o.reserved => p.state = o.state /\ p.outcome = o.outcome
            /\ p.state # "terminal" => p.outcome = None
            /\ p.pending \in {o.pending, "cancelled"}
            /\ p.outcome # o.outcome => p.outcome = "cancelled" /\ o.state = "active"
            /\ p.state = "absent" <=> o.state = "absent"
BY DEF Cancelled, CancelAccepted, CommittedOutcome, Operation, Outcomes, OwnOutcomes, Interruptions, None

LEMMA Detachment ==
  ASSUME NEW o \in Operation, o.state # "terminal" => o.outcome = None
  PROVE  LET p == Detached(o)
         IN /\ p \in Operation
            /\ ~p.attached /\ p.reserved = o.reserved /\ p.defers = o.defers
            /\ o.state # "active" => p.state = o.state /\ p.outcome = o.outcome
            /\ o.reserved /\ o.defers => p.state = o.state /\ p.outcome = o.outcome
            /\ p.state # "terminal" => p.outcome = None
            /\ p.outcome # o.outcome => p.outcome = "transport-lost" /\ o.state = "active"
            /\ p.state = "absent" <=> o.state = "absent"
BY DEF Detached, Terminalized, CommittedOutcome, Operation, Outcomes, OwnOutcomes, Interruptions, None

LEMMA Reservation ==
  ASSUME NEW o \in Operation
  PROVE  LET p == Reserved(o, TRUE)
         IN /\ p \in Operation /\ p.reserved /\ p.defers
            /\ p.attached = o.attached /\ p.state = o.state /\ p.outcome = o.outcome
            /\ p.pending = o.pending
BY DEF Reserved, Operation

LEMMA Commitment ==
  ASSUME NEW o \in Operation, NEW x \in OwnOutcomes, o.state = "active", o.reserved
  PROVE  LET p == Committed(o, x)
         IN /\ p \in Operation /\ ~p.reserved
            /\ p.attached = o.attached /\ p.state = "terminal" /\ p.outcome = x
            /\ p.pending = None
BY DEF Committed, CommittedOutcome, Operation, Outcomes, OwnOutcomes, Interruptions, None

LEMMA Release ==
  ASSUME NEW o \in Operation, o.state = "active", o.reserved, o.outcome = None,
         o.pending = "transport-lost" => ~o.attached
  PROVE  LET p == Released(o)
         IN /\ p \in Operation /\ ~p.reserved
            /\ p.attached = o.attached
            /\ p.state # "terminal" => p.outcome = None
            /\ p.outcome = "transport-lost" => ~p.attached
            /\ p.pending = None
BY DEF Released, CommittedOutcome, Operation, Outcomes, OwnOutcomes, Interruptions, None

(***************************************************************************)
(* Steps                                                                   *)
(***************************************************************************)
LEMMA Facts ==
  ASSUME TurnsInv, NEW c \in Calls
  PROVE  /\ CallOK(turn[c], op[c]) /\ turn[c] \in Turn /\ op[c] \in Operation
         /\ op[c].state # "terminal" => op[c].outcome = None
         /\ turn \in [Calls -> Turn] /\ op \in [Calls -> Operation]
BY DEF TurnsInv, RegistersOK, TypeOK, CallOK

\* A step of one admitted turn: its stage and its record, and whether it gives up its conversation.
LEMMA TurnStep ==
  ASSUME TurnsInv, NEW c \in Calls, NEW t, NEW o,
         turn' = [turn EXCEPT ![c] = t], op' = [op EXCEPT ![c] = o], CallOK(t, o),
         turn[c].stage \in Running, t.stage \in Running \cup {"settled"},
         t.stage = "settled" => active' = Retired(c),
         t.stage \in Answering => turn[c].stage \in Answering,
         active' \in {active, Retired(c)}, t.stage \in Answering => active' = active,
         UNCHANGED <<request, pending, identity, used>>
  PROVE  TurnsInv'
<1>1. /\ \A d \in Calls : /\ turn'[d] = (IF d = c THEN t ELSE turn[d])
                            /\ op'[d] = (IF d = c THEN o ELSE op[d])
                            /\ Conversation(d)' = Conversation(d)
  BY Facts DEF Conversation
<1>2. \A d \in Calls : CallOK(turn'[d], op'[d])
  BY <1>1, Facts
<1>3. turn' \in [Calls -> Turn] /\ op' \in [Calls -> Operation]
  BY Facts DEF CallOK
<1>4. active \in [Conversations -> Calls \cup {None}]
  BY DEF TurnsInv, RegistersOK
<1>5. /\ active' \in [Conversations -> Calls \cup {None}]
      /\ \A v \in Conversations : active'[v] \in {active[v], None}
      /\ t.stage \in Answering => active' = active
      /\ \A v \in Conversations : active[v] # c => active'[v] = active[v]
  BY <1>4 DEF Retired
<1>6. TypeOK'
  BY <1>1, <1>3, <1>5 DEF TurnsInv, RegistersOK, TypeOK
<1>7. \A d \in Calls : Validating(d)' => Validating(d) /\ d # c
  BY <1>1 DEF Validating, Running, Answering
<1>8. RegistersOK'
  <2>1. \A d \in Calls : turn'[d].stage # "absent" => request'[d] \in Request
    BY <1>1 DEF TurnsInv, RegistersOK, Running, Answering
  <2>2. \A d \in Calls : Validating(d)' => /\ active'[Conversation(d)'] = None
                                          /\ pending'[Conversation(d)'] # None
    <3> SUFFICES ASSUME NEW d \in Calls, Validating(d)'
                 PROVE  active'[Conversation(d)'] = None /\ pending'[Conversation(d)'] # None
      OBVIOUS
    <3>1. Conversation(d) \in Conversations
      BY <1>7 DEF TurnsInv, RegistersOK, Conversation, Request, Validating
    <3>2. QED
      BY <1>1, <1>5, <1>7, <3>1 DEF TurnsInv, RegistersOK
  <2>3. \A d, e \in Calls : Validating(d)' /\ Validating(e)' /\ Conversation(d)' = Conversation(e)' => d = e
    BY <1>1, <1>7 DEF TurnsInv, RegistersOK
  <2>4. \A v \in Conversations : active'[v] # None => turn'[active'[v]].stage \in Running
    <3> SUFFICES ASSUME NEW v \in Conversations, active'[v] # None
                 PROVE  turn'[active'[v]].stage \in Running
      OBVIOUS
    <3>1. /\ active'[v] = active[v] /\ active[v] \in Calls /\ turn[active[v]].stage \in Running
          /\ Conversation(active[v]) = v
      BY <1>4, <1>5 DEF TurnsInv, RegistersOK, TypeOK
    <3>2. CASE active[v] # c
      BY <1>1, <3>1, <3>2
    <3>3. CASE active[v] = c /\ t.stage \in Running
      BY <1>1, <3>1, <3>3
    <3>4. CASE active[v] = c /\ active' = Retired(c)
      BY <1>4, <3>1, <3>4 DEF Retired
    <3>5. QED
      BY <3>2, <3>3, <3>4
  <2>5. QED
    BY <1>5, <1>6, <2>1, <2>2, <2>3, <2>4 DEF RegistersOK
<1>9. AnsweringTurnIsActive'
  <2> SUFFICES ASSUME NEW d \in Calls, turn'[d].stage \in Answering
               PROVE  active'[Conversation(d)'] = d
    BY DEF AnsweringTurnIsActive
  <2>1. active[Conversation(d)] = d /\ turn[d].stage \in Answering
    BY <1>1 DEF TurnsInv, AnsweringTurnIsActive
  <2>2. Conversation(d) \in Conversations
    BY <2>1 DEF TurnsInv, RegistersOK, Conversation, Request, Answering
  <2>3. d = c => active' = active
    BY <1>1, <1>5
  <2>4. QED
    BY <1>1, <1>5, <2>1, <2>2, <2>3
<1>10. IdentitiesOK'
  BY DEF TurnsInv, IdentitiesOK, RetainedWithinLimit, Retained
<1>11. QED
  BY <1>2, <1>8, <1>9, <1>10 DEF TurnsInv

\* The steps before anything is published.
LEMMA QuietStep ==
  ASSUME TurnsInv, NEW c \in Calls, NEW t \in Turn, turn' = [turn EXCEPT ![c] = t],
         turn[c].stage \in {"opening", "asked", "answering"},
         t.stage \in {"opening", "asked", "answering", "catching"},
         t.told = turn[c].told, t.reading = turn[c].reading,
         t.stage = "answering" => t.ending \in OwnOutcomes,
         UNCHANGED <<request, op, registers>>
  PROVE  TurnsInv'
<1> DEFINE o == op[c]
<1>1. CallOK(t, o)
  BY Facts DEF CallOK, Silent, Reserving
<1>2. /\ op' = [op EXCEPT ![c] = o] /\ UNCHANGED <<request, pending, identity, used>>
      /\ active' \in {active, Retired(c)} /\ (t.stage \in Answering => active' = active)
  BY Facts DEF registers
<1> HIDE DEF o
<1>3. /\ turn[c].stage \in Running /\ t.stage \in Running
      /\ t.stage \in Answering => turn[c].stage \in Answering
  BY DEF Running, Answering
<1>4. QED
  BY <1>1, <1>2, <1>3, TurnStep

LEMMA OpeningSteps ==
  ASSUME TurnsInv, NEW c \in Calls, Break(c) \/ Emit(c) \/ Ask(c) \/ WaitExpires(c) \/ Answered(c)
  PROVE  TurnsInv'
<1> DEFINE a == turn[c]
<1>1. a \in Turn /\ turn \in [Calls -> Turn]
  BY Facts
<1>2. \A x \in {"asked", "catching"} : /\ [a EXCEPT !.stage = x] \in Turn
                                      /\ [a EXCEPT !.stage = x].stage = x
                                      /\ [a EXCEPT !.stage = x].told = a.told
                                      /\ [a EXCEPT !.stage = x].reading = a.reading
  BY <1>1 DEF Turn, Running, Answering
<1>3. ASSUME NEW x \in {"asked", "catching"}, Goes(c, x), a.stage \in {"opening", "asked", "answering"},
             UNCHANGED <<request, op, registers>>
      PROVE  TurnsInv'
  <2>1. turn' = [turn EXCEPT ![c] = [a EXCEPT !.stage = x]]
    BY <1>1, <1>3 DEF Goes
  <2>2. QED
    BY <1>2, <1>3, <2>1, QuietStep
<1>4. CASE Break(c)
  BY <1>3, <1>4 DEF Break
<1>5. CASE Ask(c)
  BY <1>3, <1>5 DEF Ask, At
<1>6. CASE WaitExpires(c)
  BY <1>3, <1>6 DEF WaitExpires, At
<1>7. CASE Emit(c)
  <2>1. CASE Goes(c, "catching")
    BY <1>3, <1>7, <2>1 DEF Emit
  <2>2. CASE turn' = [turn EXCEPT ![c].left = @ - 1]
    <3> DEFINE t == [a EXCEPT !.left = @ - 1]
    <3>1. /\ t \in Turn /\ t.stage = a.stage /\ t.told = a.told /\ t.reading = a.reading
          /\ t.ending = a.ending
      BY <1>1, <1>7 DEF Emit, Turn
    <3>2. turn' = [turn EXCEPT ![c] = t] /\ a.stage \in {"opening", "answering"}
          /\ UNCHANGED <<request, op, registers>>
      BY <1>1, <1>7, <2>2 DEF Emit
    <3>3. a.stage = "answering" => a.ending \in OwnOutcomes
      BY Facts DEF CallOK
    <3> HIDE DEF t
    <3>4. QED
      BY <3>1, <3>2, <3>3, QuietStep
  <2>3. QED
    BY <1>7, <2>1, <2>2 DEF Emit
<1>8. CASE Answered(c)
  <2>1. CASE Goes(c, "catching")
    BY <1>3, <1>8, <2>1 DEF Answered, At
  <2>2. CASE \E n \in {0, AnswerEvents}, x \in OwnOutcomes, stage \in {"catching", "answering"} :
          turn' = [turn EXCEPT ![c].stage = stage, ![c].left = n, ![c].ending = x]
    <3>1. PICK n \in {0, AnswerEvents}, x \in OwnOutcomes, stage \in {"catching", "answering"} :
            turn' = [turn EXCEPT ![c].stage = stage, ![c].left = n, ![c].ending = x]
      BY <2>2
    <3> DEFINE t == [a EXCEPT !.stage = stage, !.left = n, !.ending = x]
    <3>2. n \in Nat
      BY AnalystAssumption
    <3>3. t \in Turn /\ t.stage = stage /\ t.told = a.told /\ t.reading = a.reading /\ t.ending = x
      BY <1>1, <3>2 DEF Turn, Running, Answering
    <3>4. turn' = [turn EXCEPT ![c] = t]
      BY <1>1, <3>1
    <3> HIDE DEF t
    <3>5. QED
      BY <1>8, <3>3, <3>4, QuietStep DEF Answered, At
  <2>3. QED
    BY <1>8, <2>1, <2>2 DEF Answered, OwnOutcomes
<1>9. QED
  BY <1>4, <1>5, <1>6, <1>7, <1>8

\* publishTerminal's first half, from the handler or from its catch block.
LEMMA Publication ==
  ASSUME TurnsInv, NEW c \in Calls, NEW x \in OwnOutcomes, NEW parses \in BOOLEAN,
         Publish(c, x, parses), turn[c].stage \in {"answering", "catching"},
         turn[c].stage = "catching" => parses, MayReserve(op[c]),
         active' \in {active, Retired(c)}, turn[c].stage = "answering" => active' = active,
         UNCHANGED <<request, pending, identity, used>>
  PROVE  TurnsInv'
<1> DEFINE a == turn[c]
           wrote == Writable(c) /\ parses
           stage == IF At(c, "answering") THEN "writing" ELSE "reporting"
           told == IF wrote THEN x ELSE a.told
           t == [a EXCEPT !.stage = stage, !.ending = x, !.wrote = wrote, !.told = told]
           o == Reserved(op[c], TRUE)
<1>1. a \in Turn /\ turn \in [Calls -> Turn] /\ op \in [Calls -> Operation] /\ op[c] \in Operation
      /\ CallOK(a, op[c])
  BY Facts
<1>2. a.told = None /\ (wrote <=> a.reading /\ parses)
  BY <1>1 DEF CallOK, Silent, Writable
<1>3. /\ wrote \in BOOLEAN /\ stage \in Reserving /\ told \in {x, None}
      /\ stage = "reporting" => a.stage = "catching"
      /\ stage = "writing" => a.stage = "answering"
  BY <1>2 DEF Reserving, At
<1>4. turn' = [turn EXCEPT ![c] = t] /\ op' = [op EXCEPT ![c] = o]
  BY <1>1 DEF Publish
<1> HIDE DEF wrote, stage
<1>5. /\ t \in Turn /\ t.stage = stage /\ t.ending = x /\ t.wrote = wrote /\ t.reading = a.reading
      /\ t.told = IF t.wrote THEN t.ending ELSE None
  BY <1>1, <1>2, <1>3 DEF Turn, Running, Reserving, Answering, OwnOutcomes, TerminalEvents
<1>6. /\ o \in Operation /\ o.reserved /\ o.defers /\ o.state = "active"
      /\ o.attached = op[c].attached /\ o.outcome = op[c].outcome /\ o.pending = op[c].pending
  BY <1>1, Reservation DEF MayReserve
<1>7. stage = "reporting" /\ ~wrote => ~a.reading
  BY <1>2, <1>3
<1> HIDE DEF t, o
<1>8. CallOK(t, o)
  <2>1. t.stage \in Reserving /\ t.stage \notin {"absent", "validating", "closing", "settled"} \cup Silent
    BY <1>3, <1>5 DEF Reserving, Silent
  <2>2. t.stage = "reporting" /\ ~t.wrote => ~t.reading
    BY <1>5, <1>7
  <2>3. /\ ~t.reading => ~o.attached
        /\ "transport-lost" \in {o.outcome, o.pending} => ~o.attached
        /\ o.state # "terminal" => o.outcome = None
    BY <1>1, <1>5, <1>6 DEF CallOK, MayReserve
  <2>4. QED
    BY <1>5, <1>6, <2>1, <2>2, <2>3 DEF CallOK
<1>9. /\ a.stage \in Running /\ t.stage \in Running /\ t.stage # "settled"
      /\ t.stage \in Answering => a.stage \in Answering /\ a.stage = "answering"
  BY <1>3, <1>5 DEF Running, Answering, Reserving
<1>10. QED
  BY <1>4, <1>8, <1>9, TurnStep

LEMMA ConcludeStep ==
  ASSUME TurnsInv, NEW c \in Calls, Conclude(c)
  PROVE  TurnsInv'
<1>1. turn[c].stage = "answering" /\ turn[c].ending \in OwnOutcomes
  BY Facts DEF CallOK, Conclude, At
<1>2. PICK parses \in BOOLEAN : Publish(c, turn[c].ending, parses)
  BY DEF Conclude
<1>3. /\ MayReserve(op[c]) /\ UNCHANGED <<request, pending, identity, used>>
      /\ active' \in {active, Retired(c)} /\ (turn[c].stage = "answering" => active' = active)
  BY DEF Conclude, registers
<1>4. /\ turn[c].stage \in {"answering", "catching"}
      /\ turn[c].stage = "catching" => parses
  BY <1>1
<1>5. QED
  BY <1>1, <1>2, <1>3, <1>4, Publication

LEMMA CatchFailedStep ==
  ASSUME TurnsInv, NEW c \in Calls, CatchFailed(c)
  PROVE  TurnsInv'
BY Publication DEF CatchFailed, At, OwnOutcomes

LEMMA CommitStep ==
  ASSUME TurnsInv, NEW c \in Calls, CommitEnding(c)
  PROVE  TurnsInv'
<1> DEFINE a == turn[c]
           t == [a EXCEPT !.stage = "closing"]
           o == Committed(op[c], a.ending)
<1>1. a \in Turn /\ turn \in [Calls -> Turn] /\ op \in [Calls -> Operation] /\ CallOK(a, op[c])
      /\ a.stage \in Reserving /\ a.wrote
  BY Facts DEF CommitEnding, Reserving
<1>2. turn' = [turn EXCEPT ![c] = t] /\ op' = [op EXCEPT ![c] = o]
  BY <1>1 DEF CommitEnding, Goes
<1>3. /\ t \in Turn /\ t.stage = "closing" /\ t.told = a.told /\ t.reading = a.reading
  BY <1>1 DEF Turn, Running, Answering
<1>4. /\ op[c] \in Operation /\ op[c].state = "active" /\ op[c].reserved
      /\ a.ending \in OwnOutcomes /\ a.told = a.ending
  BY <1>1 DEF CallOK
<1>5. /\ o \in Operation /\ ~o.reserved /\ o.attached = op[c].attached /\ o.state = "terminal"
      /\ o.outcome = a.ending /\ o.pending = None
  BY <1>4, Commitment
<1> HIDE DEF t, o
<1>6. CallOK(t, o)
  BY <1>1, <1>3, <1>4, <1>5 DEF CallOK, Reserving, Silent, OwnOutcomes, TerminalEvents, None
<1>7. a.stage \in Running /\ t.stage \in Running /\ t.stage \notin Answering
  BY <1>1, <1>3 DEF Running, Answering, Reserving
<1>8. QED
  BY <1>2, <1>6, <1>7, TurnStep DEF CommitEnding

LEMMA ReleaseStep ==
  ASSUME TurnsInv, NEW c \in Calls, ReleaseEnding(c)
  PROVE  TurnsInv'
<1> DEFINE a == turn[c]
           stage == IF a.stage = "writing" THEN "catching" ELSE "closing"
           told == IF At(c, "writing") THEN a.told ELSE Broken(c)
           t == [a EXCEPT !.stage = stage, !.told = told]
           o == Released(op[c])
<1>1. a \in Turn /\ turn \in [Calls -> Turn] /\ op \in [Calls -> Operation] /\ CallOK(a, op[c])
      /\ a.stage \in Reserving /\ ~a.wrote
  BY Facts DEF ReleaseEnding, Reserving
<1>2. turn' = [turn EXCEPT ![c] = t] /\ op' = [op EXCEPT ![c] = o]
  BY <1>1 DEF ReleaseEnding
<1>3. /\ a.told = None /\ stage \in {"catching", "closing"} /\ told \in {"broken", None}
      /\ stage = "catching" => told = None
      /\ stage = "closing" => a.stage = "reporting"
  BY <1>1 DEF CallOK, At, Broken, Reserving
<1> HIDE DEF stage, told
<1>4. /\ t \in Turn /\ t.stage = stage /\ t.told = told /\ t.reading = a.reading
  BY <1>1, <1>3 DEF Turn, Running, Answering
<1>5. /\ op[c] \in Operation /\ op[c].state = "active" /\ op[c].reserved /\ op[c].outcome = None
      /\ op[c].pending = "transport-lost" => ~op[c].attached
  BY <1>1 DEF CallOK
<1>6. /\ o \in Operation /\ ~o.reserved /\ o.attached = op[c].attached
      /\ o.state # "terminal" => o.outcome = None
      /\ o.outcome = "transport-lost" => ~o.attached
      /\ o.pending = None
  BY <1>5, Release
<1>7. stage = "closing" => ~o.attached
  BY <1>1, <1>3, <1>6 DEF CallOK
<1> HIDE DEF t, o
<1>8. CallOK(t, o)
  BY <1>1, <1>3, <1>4, <1>6, <1>7 DEF CallOK, Reserving, Silent, TerminalEvents, None
<1>9. a.stage \in Running /\ t.stage \in Running \ Answering /\ t.stage # "settled"
  BY <1>1, <1>3, <1>4 DEF Running, Answering, Reserving
<1>10. QED
  BY <1>2, <1>8, <1>9, TurnStep DEF ReleaseEnding, registers

LEMMA CatchCancelledSteps ==
  ASSUME TurnsInv, NEW c \in Calls, CatchCancelled(c) \/ CatchExpired(c)
  PROVE  TurnsInv'
<1> DEFINE a == turn[c]
           o == op[c]
<1>1. /\ a \in Turn /\ turn \in [Calls -> Turn] /\ op \in [Calls -> Operation] /\ CallOK(a, o)
      /\ a.stage = "catching" /\ a.told = None /\ o.outcome = "cancelled" /\ o.state = "terminal"
      /\ Writable(c) <=> a.reading
  BY Facts DEF CatchCancelled, CatchExpired, At, CallOK, Silent, Writable, None
<1>2. PICK told \in {"cancelled", "broken", None} :
        /\ turn' = [turn EXCEPT ![c].stage = "closing", ![c].told = told]
        /\ told # "cancelled" => ~a.reading \/ a.deadline
  BY <1>1 DEF CatchCancelled, CatchExpired, Broken, None
<1> DEFINE t == [a EXCEPT !.stage = "closing", !.told = told]
<1>3. /\ turn' = [turn EXCEPT ![c] = t] /\ op' = [op EXCEPT ![c] = o]
      /\ active' = Retired(c) /\ UNCHANGED <<request, pending, identity, used>>
  BY <1>1, <1>2 DEF CatchCancelled, CatchExpired
<1>4. /\ t \in Turn /\ t.stage = "closing" /\ t.told = told /\ t.reading = a.reading
      /\ t.deadline = a.deadline
  BY <1>1 DEF Turn, Running, Answering, TerminalEvents
<1> HIDE DEF t, o
<1>5. CallOK(t, o)
  BY <1>1, <1>2, <1>4 DEF CallOK, Reserving, Silent, TerminalEvents, None
<1>6. a.stage \in Running /\ t.stage \in Running /\ t.stage \notin Answering
  BY <1>1, <1>4 DEF Running, Answering
<1>7. QED
  BY <1>3, <1>5, <1>6, TurnStep

LEMMA Finishing ==
  ASSUME TurnsInv, NEW c \in Calls, NEW told \in TerminalEvents \cup {"broken", None},
         Finish(c, told), turn[c].stage \in {"catching", "closing"},
         told \in TerminalEvents => op[c].state = "terminal"
  PROVE  TurnsInv'
<1> DEFINE a == turn[c]
           p == Detached(op[c])
           o == CleanedUp(p)
           t == [NoTurn EXCEPT !.stage = "settled", !.told = told]
<1>1. /\ a \in Turn /\ turn \in [Calls -> Turn] /\ op \in [Calls -> Operation] /\ op[c] \in Operation
      /\ CallOK(a, op[c])
      /\ op[c].state # "terminal" => op[c].outcome = None
  BY Facts
<1>2. turn' = [turn EXCEPT ![c] = t] /\ op' = [op EXCEPT ![c] = o]
  BY DEF Finish
<1>3. /\ t \in Turn /\ t.stage = "settled" /\ t.told = told /\ t.reading
  BY DEF Turn, NoTurn
<1>4. /\ p \in Operation /\ ~p.attached /\ ~p.reserved
      /\ p.state # "terminal" => p.outcome = None
      /\ told \in TerminalEvents => p.state = "terminal"
  BY <1>1, Detachment DEF CallOK, Reserving
<1> HIDE DEF p
<1>5. /\ o \in Operation /\ ~o.attached /\ ~o.reserved
      /\ o.state # "terminal" => o.outcome = None
      /\ told \in TerminalEvents => o.state = "absent"
  BY <1>4 DEF CleanedUp, NoOperation, Operation
<1> HIDE DEF t, o
<1>6. CallOK(t, o)
  BY <1>3, <1>5 DEF CallOK, Reserving, Silent, None
<1>7. a.stage \in Running /\ t.stage \notin Answering
  BY <1>3 DEF Running, Answering
<1>8. QED
  BY <1>2, <1>3, <1>6, <1>7, TurnStep DEF Finish

LEMMA CatchLostStep ==
  ASSUME TurnsInv, NEW c \in Calls, CatchLost(c)
  PROVE  TurnsInv'
<1>1. turn[c].stage = "catching" /\ turn[c].told = None
  BY Facts DEF CatchLost, At, CallOK, Silent
<1>2. Broken(c) \in {"broken", None}
  BY <1>1 DEF Broken
<1>3. QED
  BY <1>1, <1>2, Finishing DEF CatchLost, TerminalEvents, None

LEMMA CloseStep ==
  ASSUME TurnsInv, NEW c \in Calls, Close(c)
  PROVE  TurnsInv'
<1>1. /\ turn[c].stage = "closing" /\ turn[c].told \in TerminalEvents \cup {"broken", None}
      /\ turn[c].told \in TerminalEvents => op[c].state = "terminal"
  BY Facts DEF Close, At, CallOK, Turn
<1>2. QED
  BY <1>1, Finishing DEF Close

\* What happens to turns from outside: where they are stays as it was.
LEMMA OutsideStep ==
  ASSUME TurnsInv, turn' \in [Calls -> Turn], op' \in [Calls -> Operation],
         \A c \in Calls : turn'[c].stage = turn[c].stage /\ CallOK(turn'[c], op'[c]),
         UNCHANGED <<request, registers>>
  PROVE  TurnsInv'
<1>1. UNCHANGED <<request, active, pending, identity, used>>
  BY DEF registers
<1>2. RegistersOK'
  BY <1>1 DEF TurnsInv, RegistersOK, TypeOK, Validating, Conversation
<1>3. AnsweringTurnIsActive'
  BY <1>1 DEF TurnsInv, AnsweringTurnIsActive, Conversation
<1>4. IdentitiesOK'
  BY <1>1 DEF TurnsInv, IdentitiesOK, RetainedWithinLimit, Retained
<1>5. QED
  BY <1>2, <1>3, <1>4 DEF TurnsInv

LEMMA CancelledCallOK ==
  ASSUME NEW t, NEW o, CallOK(t, o)
  PROVE  CallOK(t, Cancelled(o)) /\ Cancelled(o) \in Operation
<1> DEFINE p == Cancelled(o)
<1>1. o \in Operation /\ (o.state # "terminal" => o.outcome = None)
  BY DEF CallOK
<1>2. /\ p \in Operation
      /\ p.attached = o.attached /\ p.reserved = o.reserved /\ p.defers = o.defers
      /\ o.state # "active" => p = o
      /\ o.reserved => p.state = o.state /\ p.outcome = o.outcome
      /\ p.state # "terminal" => p.outcome = None
      /\ p.pending \in {o.pending, "cancelled"}
      /\ p.outcome # o.outcome => p.outcome = "cancelled" /\ o.state = "active"
  BY <1>1, Cancellation
<1> HIDE DEF p
<1>3. CallOK(t, p)
  BY <1>2 DEF CallOK
<1>4. QED
  BY <1>2, <1>3 DEF p

LEMMA DetachedCallOK ==
  ASSUME NEW t, NEW o, CallOK(t, o)
  PROVE  CallOK(t, Detached(o)) /\ Detached(o) \in Operation /\ ~Detached(o).attached
<1> DEFINE p == Detached(o)
<1>1. o \in Operation /\ (o.state # "terminal" => o.outcome = None)
  BY DEF CallOK
<1>2. /\ p \in Operation
      /\ ~p.attached /\ p.reserved = o.reserved /\ p.defers = o.defers
      /\ o.state # "active" => p.state = o.state /\ p.outcome = o.outcome
      /\ o.reserved /\ o.defers => p.state = o.state /\ p.outcome = o.outcome
      /\ p.state # "terminal" => p.outcome = None
      /\ p.state = "absent" <=> o.state = "absent"
  BY <1>1, Detachment
<1> HIDE DEF p
<1>3. CallOK(t, p)
  BY <1>2 DEF CallOK
<1>4. QED
  BY <1>2, <1>3 DEF p

LEMMA OutsideSteps ==
  ASSUME TurnsInv,
         \/ \E c \in Calls : Expire(c) \/ ReaderCancels(c) \/ SignalFires(c)
         \/ \E v \in Conversations, id \in RequestIds, k \in Capabilities : Cancel(v, id, k)
         \/ CancelAll
  PROVE  TurnsInv'
<1>1. turn \in [Calls -> Turn] /\ op \in [Calls -> Operation] /\ \A c \in Calls : CallOK(turn[c], op[c])
  BY DEF TurnsInv, RegistersOK, TypeOK
<1>2. ASSUME NEW c \in Calls, Expire(c)
      PROVE  TurnsInv'
  <2> DEFINE t == [turn[c] EXCEPT !.deadline = TRUE]
  <2>1. turn' = [turn EXCEPT ![c] = t] /\ op' = op /\ UNCHANGED <<request, registers>>
    BY <1>1, <1>2 DEF Expire
  <2>2. /\ t \in Turn /\ t.stage = turn[c].stage /\ t.told = turn[c].told /\ t.reading = turn[c].reading
        /\ t.ending = turn[c].ending /\ t.wrote = turn[c].wrote /\ t.deadline
    BY <1>1 DEF Turn
  <2> HIDE DEF t
  <2>3. CallOK(t, op[c])
    BY <1>1, <2>2 DEF CallOK
  <2>4. QED
    BY <1>1, <2>1, <2>2, <2>3, OutsideStep
<1>3. ASSUME NEW c \in Calls, ReaderCancels(c)
      PROVE  TurnsInv'
  <2> DEFINE t == [turn[c] EXCEPT !.reading = FALSE]
             o == Detached(op[c])
  <2>1. turn' = [turn EXCEPT ![c] = t] /\ op' = [op EXCEPT ![c] = o] /\ UNCHANGED <<request, registers>>
    BY <1>1, <1>3 DEF ReaderCancels
  <2>2. /\ t \in Turn /\ t.stage = turn[c].stage /\ t.told = turn[c].told /\ ~t.reading
        /\ t.ending = turn[c].ending /\ t.wrote = turn[c].wrote /\ t.deadline = turn[c].deadline
        /\ t.stage \notin {"absent", "validating"}
    BY <1>1, <1>3 DEF Turn, ReaderCancels, Running, Answering
  <2>3. CallOK(turn[c], o) /\ o \in Operation /\ ~o.attached
    BY <1>1, DetachedCallOK
  <2> HIDE DEF t, o
  <2>4. CallOK(t, o)
    BY <2>2, <2>3 DEF CallOK
  <2>5. QED
    BY <1>1, <2>1, <2>2, <2>3, <2>4, OutsideStep
<1>4. ASSUME NEW c \in Calls, SignalFires(c)
      PROVE  TurnsInv'
  <2>1. turn' = turn /\ op' = [op EXCEPT ![c] = Detached(op[c])] /\ UNCHANGED <<request, registers>>
    BY <1>4 DEF SignalFires
  <2>2. CallOK(turn[c], Detached(op[c])) /\ Detached(op[c]) \in Operation
    BY <1>1, DetachedCallOK
  <2>3. QED
    BY <1>1, <2>1, <2>2, OutsideStep
<1>5. ASSUME NEW v \in Conversations, NEW id, NEW k, Cancel(v, id, k)
      PROVE  TurnsInv'
  <2> DEFINE c == active[v]
  <2>1. c \in Calls
    BY <1>5 DEF Cancel, TurnsInv, RegistersOK
  <2>2. turn' = turn /\ op' = [op EXCEPT ![c] = Cancelled(op[c])] /\ UNCHANGED <<request, registers>>
    BY <1>5 DEF Cancel
  <2>3. CallOK(turn[c], Cancelled(op[c])) /\ Cancelled(op[c]) \in Operation
    BY <1>1, <2>1, CancelledCallOK
  <2>4. QED
    BY <1>1, <2>1, <2>2, <2>3, OutsideStep
<1>6. CASE CancelAll
  <2>1. turn' = turn /\ UNCHANGED <<request, registers>>
        /\ op' = [c \in Calls |-> IF \E v \in Conversations : active[v] = c
                                THEN Cancelled(op[c]) ELSE op[c]]
    BY <1>6 DEF CancelAll
  <2>2. \A c \in Calls : CallOK(turn[c], Cancelled(op[c])) /\ Cancelled(op[c]) \in Operation
    BY <1>1, CancelledCallOK
  <2>3. QED
    BY <1>1, <2>1, <2>2, OutsideStep
<1>7. QED
  BY <1>2, <1>3, <1>4, <1>5, <1>6

(***************************************************************************)
(* Admission                                                               *)
(***************************************************************************)
\* A call that has not been admitted is registered nowhere.
LEMMA Unregistered ==
  ASSUME TurnsInv, NEW c \in Calls, turn[c].stage \notin Running, NEW v \in Conversations
  PROVE  active[v] # c
BY AnalystAssumption DEF TurnsInv, RegistersOK

LEMMA RefuseStep ==
  ASSUME TurnsInv, NEW c \in Calls, NEW r \in Asked, Refuse(c, r)
  PROVE  TurnsInv'
<1> DEFINE t == [turn[c] EXCEPT !.stage = "refused"]
<1>1. /\ turn \in [Calls -> Turn] /\ op \in [Calls -> Operation] /\ CallOK(turn[c], op[c])
      /\ turn[c].stage = "absent" /\ r \in Request
  BY Facts, AnalystAssumption DEF Refuse
<1>2. /\ turn' = [turn EXCEPT ![c] = t] /\ request' = [request EXCEPT ![c] = r] /\ op' = op
      /\ UNCHANGED <<active, pending, identity, used>>
  BY <1>1 DEF Refuse, registers
<1>3. t \in Turn /\ t.stage = "refused" /\ t.told = turn[c].told /\ t.reading = turn[c].reading
  BY <1>1 DEF Turn
<1> HIDE DEF t
<1>4. CallOK(t, op[c])
  BY <1>1, <1>3 DEF CallOK, Silent, Reserving
<1>5. /\ \A d \in Calls : /\ turn'[d] = (IF d = c THEN t ELSE turn[d])
                          /\ request'[d] = (IF d = c THEN r ELSE request[d])
      /\ \A d \in Calls : d # c => Conversation(d)' = Conversation(d)
  BY <1>1, <1>2 DEF TurnsInv, RegistersOK, TypeOK, Conversation
<1>6. \A v \in Conversations : active[v] # c
  BY <1>1, Unregistered DEF Running, Answering
<1>7. TypeOK'
  BY <1>1, <1>2, <1>3, <1>5, <1>6 DEF TurnsInv, RegistersOK, TypeOK
<1>8. RegistersOK'
  BY <1>1, <1>2, <1>3, <1>5, <1>6, <1>7 DEF TurnsInv, RegistersOK, Validating
<1>9. AnsweringTurnIsActive'
  BY <1>2, <1>3, <1>5 DEF TurnsInv, AnsweringTurnIsActive, Answering
<1>10. QED
  BY <1>2, <1>4, <1>5, <1>8, <1>9 DEF TurnsInv, IdentitiesOK, RetainedWithinLimit, Retained

LEMMA ReceiveStep ==
  ASSUME TurnsInv, NEW c \in Calls, NEW r \in Asked, Receive(c, r)
  PROVE  TurnsInv'
<1> DEFINE t == [turn[c] EXCEPT !.stage = "validating"]
<1>1. /\ turn \in [Calls -> Turn] /\ op \in [Calls -> Operation] /\ CallOK(turn[c], op[c])
      /\ turn[c].stage = "absent" /\ r \in Request
      /\ active[r.conversation] = None /\ pending[r.conversation] = None
      /\ r.id \in RequestIds /\ r.conversation \in Conversations /\ r.id # None
  BY Facts, AnalystAssumption DEF Receive, Free, Request
<1>2. /\ turn' = [turn EXCEPT ![c] = t] /\ request' = [request EXCEPT ![c] = r] /\ op' = op
      /\ pending' = [pending EXCEPT ![r.conversation] = r.id]
      /\ UNCHANGED <<active, identity, used>>
  BY <1>1 DEF Receive
<1>3. t \in Turn /\ t.stage = "validating" /\ t.told = turn[c].told /\ t.reading = turn[c].reading
  BY <1>1 DEF Turn
<1> HIDE DEF t
<1>4. CallOK(t, op[c])
  BY <1>1, <1>3 DEF CallOK, Silent, Reserving
<1>5. /\ \A d \in Calls : /\ turn'[d] = (IF d = c THEN t ELSE turn[d])
                          /\ request'[d] = (IF d = c THEN r ELSE request[d])
      /\ \A d \in Calls : d # c => Conversation(d)' = Conversation(d)
      /\ Conversation(c)' = r.conversation
      /\ \A v \in Conversations : pending'[v] = IF v = r.conversation THEN r.id ELSE pending[v]
  BY <1>1, <1>2 DEF TurnsInv, RegistersOK, TypeOK, Conversation
<1>6. \A v \in Conversations : active[v] # c
  BY <1>1, Unregistered DEF Running, Answering
<1>7. TypeOK'
  BY <1>1, <1>2, <1>3, <1>5, <1>6 DEF TurnsInv, RegistersOK, TypeOK
<1>8. RegistersOK'
  <2>1. \A d \in Calls : Validating(d) => Conversation(d) # r.conversation
    BY <1>1 DEF TurnsInv, RegistersOK
  <2>2. \A d \in Calls : Validating(d)' => d = c \/ Validating(d)
    BY <1>5 DEF Validating
  <2>3. \A d \in Calls : Validating(d)' => /\ active'[Conversation(d)'] = None
                                          /\ pending'[Conversation(d)'] # None
    <3>1. \A d \in Calls : Validating(d) => Conversation(d) \in Conversations
      BY DEF TurnsInv, RegistersOK, Conversation, Request, Validating
    <3>2. QED
      BY <1>1, <1>2, <1>5, <2>1, <2>2, <3>1 DEF TurnsInv, RegistersOK
  <2>4. \A d, e \in Calls : Validating(d)' /\ Validating(e)' /\ Conversation(d)' = Conversation(e)' => d = e
    BY <1>5, <2>1, <2>2 DEF TurnsInv, RegistersOK
  <2>5. \A v \in Conversations : active'[v] # None => turn'[active'[v]].stage \in Running
    BY <1>2, <1>5, <1>6 DEF TurnsInv, RegistersOK
  <2>6. \A d \in Calls : turn'[d].stage # "absent" => request'[d] \in Request
    BY <1>1, <1>5 DEF TurnsInv, RegistersOK
  <2>7. QED
    BY <1>2, <1>7, <2>3, <2>4, <2>5, <2>6 DEF TurnsInv, RegistersOK
<1>9. AnsweringTurnIsActive'
  BY <1>2, <1>3, <1>5 DEF TurnsInv, AnsweringTurnIsActive, Answering
<1>10. QED
  BY <1>2, <1>4, <1>5, <1>8, <1>9 DEF TurnsInv, IdentitiesOK, RetainedWithinLimit, Retained

LEMMA RejectStep ==
  ASSUME TurnsInv, NEW c \in Calls, Reject(c)
  PROVE  TurnsInv'
<1> DEFINE t == [turn[c] EXCEPT !.stage = "refused"]
<1>1. /\ turn \in [Calls -> Turn] /\ op \in [Calls -> Operation] /\ CallOK(turn[c], op[c])
      /\ turn[c].stage = "validating"
  BY Facts DEF Reject
<1>2. /\ turn' = [turn EXCEPT ![c] = t] /\ op' = op
      /\ pending' = [pending EXCEPT ![Conversation(c)] = None]
      /\ UNCHANGED <<request, active, identity, used>>
  BY <1>1 DEF Reject
<1>3. t \in Turn /\ t.stage = "refused" /\ t.told = turn[c].told /\ t.reading = turn[c].reading
  BY <1>1 DEF Turn
<1> HIDE DEF t
<1>4. CallOK(t, op[c])
  BY <1>1, <1>3 DEF CallOK, Silent, Reserving
<1>5. /\ \A d \in Calls : /\ turn'[d] = (IF d = c THEN t ELSE turn[d])
                          /\ Conversation(d)' = Conversation(d)
      /\ \A v \in Conversations : pending'[v] = IF v = Conversation(c) THEN None ELSE pending[v]
  BY <1>1, <1>2 DEF TurnsInv, RegistersOK, TypeOK, Conversation
<1>6. \A v \in Conversations : active[v] # c
  BY <1>1, Unregistered DEF Running, Answering
<1>7. TypeOK'
  BY <1>1, <1>2, <1>3, <1>5, <1>6 DEF TurnsInv, RegistersOK, TypeOK
<1>8. RegistersOK'
  <2>1. \A d \in Calls : Validating(d)' =>
          /\ Validating(d) /\ d # c /\ Conversation(d) # Conversation(c)
          /\ Conversation(d) \in Conversations
    BY <1>1, <1>3, <1>5 DEF Validating, TurnsInv, RegistersOK, Conversation, Request
  <2>2. QED
    BY <1>1, <1>2, <1>3, <1>5, <1>6, <1>7, <2>1 DEF TurnsInv, RegistersOK
<1>9. AnsweringTurnIsActive'
  BY <1>2, <1>3, <1>5 DEF TurnsInv, AnsweringTurnIsActive, Answering
<1>10. QED
  BY <1>2, <1>4, <1>5, <1>8, <1>9 DEF TurnsInv, IdentitiesOK, RetainedWithinLimit, Retained

LEMMA Claim ==
  LET o == Claimed(Started)
  IN /\ o \in Operation /\ o.state = "active" /\ ~o.reserved /\ o.outcome = None /\ o.pending = None
     /\ o.attached
BY DEF Claimed, Started, NoOperation, Operation, None

\* Neither map grows past the limit, because both are asked once the wait is over.
LEMMA AdmitRetains ==
  ASSUME TurnsInv, NEW c \in Calls, NEW connected, Admit(c, connected)
  PROVE  IdentitiesOK'
<1> DEFINE r == request[c]
           v == r.conversation
<1>1. /\ IsFiniteSet(Retained) /\ IsFiniteSet(used)
      /\ Cardinality(Retained) <= Limit /\ Cardinality(used) <= Limit
      /\ Cardinality(Retained) \in Nat /\ Cardinality(used) \in Nat /\ Limit \in Nat
  BY FS_CardinalityType, AnalystAssumption DEF TurnsInv, IdentitiesOK, RetainedWithinLimit
<1>2. r \in Request /\ v \in Conversations /\ r.capability # None
  BY AnalystAssumption DEF Admit, TurnsInv, RegistersOK, Request
<1>3. Retained' = Retained \cup {v} /\ used' = used \cup {r.id}
  <2>1. identity' = [identity EXCEPT ![v] = r.capability] /\ identity \in [Conversations -> Capabilities \cup {None}]
    BY DEF Admit, TurnsInv, RegistersOK, TypeOK
  <2>2. QED
    BY <1>2, <2>1 DEF Admit, Retained
<1>4. /\ IsFiniteSet(Retained \cup {v}) /\ IsFiniteSet(used \cup {r.id})
      /\ Cardinality(Retained \cup {v}) = IF v \in Retained THEN Cardinality(Retained) ELSE Cardinality(Retained) + 1
      /\ Cardinality(used \cup {r.id}) = IF r.id \in used THEN Cardinality(used) ELSE Cardinality(used) + 1
  BY <1>1, FS_AddElement
<1>5. /\ v \notin Retained => ~(Cardinality(Retained) >= Limit)
      /\ r.id \notin used => ~(Cardinality(used) >= Limit)
  BY <1>2 DEF Admit, TrackingUnavailable, Retained
<1>6. Cardinality(Retained)' <= Limit /\ Cardinality(used)' <= Limit
  BY <1>1, <1>3, <1>4, <1>5
<1>7. QED
  BY <1>3, <1>4, <1>6 DEF IdentitiesOK, RetainedWithinLimit

LEMMA AdmitStep ==
  ASSUME TurnsInv, NEW c \in Calls, NEW connected \in BOOLEAN, Admit(c, connected)
  PROVE  TurnsInv'
<1> DEFINE r == request[c]
           v == r.conversation
           claimed == Claimed(Started)
<1>1. /\ turn \in [Calls -> Turn] /\ op \in [Calls -> Operation] /\ CallOK(turn[c], op[c])
      /\ turn[c].stage = "validating" /\ r \in Request
      /\ r.id \in RequestIds /\ v \in Conversations /\ r.capability \in Capabilities
      /\ Validating(c) /\ v = Conversation(c) /\ active[v] = None
  BY Facts DEF Admit, Request, TurnsInv, RegistersOK, Validating, Conversation
<1>2. PICK stage \in {"opening", "catching"}, o \in {claimed, Detached(claimed)} :
        /\ op' = [op EXCEPT ![c] = o]
        /\ turn' = [turn EXCEPT ![c].stage = stage, ![c].left = OpeningEvents - 1]
  <2>1. CASE connected
    BY <2>1 DEF Admit
  <2>2. CASE ~connected
    BY <2>2 DEF Admit
  <2>3. QED
    BY <2>1, <2>2
<1> DEFINE t == [turn[c] EXCEPT !.stage = stage, !.left = OpeningEvents - 1]
<1>3. /\ turn' = [turn EXCEPT ![c] = t]
      /\ active' = [active EXCEPT ![v] = c] /\ pending' = [pending EXCEPT ![v] = None]
      /\ identity' = [identity EXCEPT ![v] = r.capability] /\ used' = used \cup {r.id}
      /\ request' = request
  BY <1>1, <1>2 DEF Admit
<1>4. /\ t \in Turn /\ t.stage = stage /\ t.told = turn[c].told /\ t.reading = turn[c].reading
  <2>1. OpeningEvents - 1 \in Nat
    BY AnalystAssumption
  <2>2. QED
    BY <1>1, <2>1 DEF Turn, Running, Answering
<1>5. /\ claimed \in Operation /\ claimed.state = "active" /\ ~claimed.reserved
      /\ claimed.outcome = None /\ claimed.pending = None
  BY Claim
<1> HIDE DEF claimed
<1>6. /\ o \in Operation /\ ~o.reserved
      /\ o.state # "terminal" => o.outcome = None
      /\ "transport-lost" \in {o.outcome, o.pending} => ~o.attached
  <2>1. CASE o = claimed
    BY <1>5, <2>1 DEF None
  <2>2. CASE o = Detached(claimed)
    BY <1>5, <2>2, Detachment
  <2>3. QED
    BY <1>2, <2>1, <2>2
<1> HIDE DEF t
<1>7. CallOK(t, o)
  BY <1>1, <1>4, <1>6 DEF CallOK, Silent, Reserving
<1>8. /\ active \in [Conversations -> Calls \cup {None}]
      /\ \A d \in Calls : /\ turn'[d] = (IF d = c THEN t ELSE turn[d])
                          /\ op'[d] = (IF d = c THEN o ELSE op[d])
                          /\ Conversation(d)' = Conversation(d)
      /\ \A w \in Conversations : /\ active'[w] = (IF w = v THEN c ELSE active[w])
                                  /\ pending'[w] = (IF w = v THEN None ELSE pending[w])
  BY <1>1, <1>2, <1>3 DEF TurnsInv, RegistersOK, TypeOK, Conversation
<1>9. \A w \in Conversations : active[w] # c
  BY <1>1, Unregistered DEF Running, Answering
<1>10. TypeOK'
  <2>1. turn' \in [Calls -> Turn] /\ op' \in [Calls -> Operation]
    BY <1>1, <1>2, <1>3, <1>4, <1>6
  <2>2. pending' \in [Conversations -> RequestIds \cup {None}] /\ used' \subseteq RequestIds
        /\ identity' \in [Conversations -> Capabilities \cup {None}]
        /\ request' \in [Calls -> Request \cup {NoRequest}]
    BY <1>1, <1>3 DEF TurnsInv, RegistersOK, TypeOK
  <2>3. \A w \in Conversations : active'[w] # None =>
          active'[w] \in Calls /\ request'[active'[w]].conversation = w
    <3>1. \A w \in Conversations : active[w] # None => active[w] \in Calls /\ Conversation(active[w]) = w
      BY DEF TurnsInv, RegistersOK, TypeOK
    <3>2. QED
      BY <1>1, <1>3, <1>8, <3>1 DEF Conversation
  <2>4. QED
    BY <2>1, <2>2, <2>3 DEF TypeOK, Conversation
<1>11. RegistersOK'
  <2>1. \A d \in Calls : Validating(d)' =>
          /\ Validating(d) /\ d # c /\ Conversation(d) # v
          /\ Conversation(d) \in Conversations
    BY <1>1, <1>2, <1>4, <1>8 DEF Validating, TurnsInv, RegistersOK, Conversation, Request
  <2>2. \A w \in Conversations : active'[w] # None => turn'[active'[w]].stage \in Running
    <3>1. t.stage \in Running
      BY <1>2, <1>4 DEF Running, Answering
    <3>2. QED
      BY <1>8, <1>9, <3>1 DEF TurnsInv, RegistersOK
  <2>3. \A d \in Calls : turn'[d].stage # "absent" => request'[d] \in Request
    BY <1>1, <1>3, <1>8 DEF TurnsInv, RegistersOK
  <2>4. active' \in [Conversations -> Calls \cup {None}]
    BY <1>3, <1>8
  <2>5. \A d, e \in Calls : Validating(d)' /\ Validating(e)' /\ Conversation(d)' = Conversation(e)' => d = e
    BY <1>8, <2>1 DEF TurnsInv, RegistersOK
  <2>6. \A d \in Calls : Validating(d)' => /\ active'[Conversation(d)'] = None
                                          /\ pending'[Conversation(d)'] # None
    BY <1>8, <2>1 DEF TurnsInv, RegistersOK
  <2>7. QED
    BY <1>10, <2>2, <2>3, <2>4, <2>5, <2>6 DEF RegistersOK
<1>12. AnsweringTurnIsActive'
  <2> SUFFICES ASSUME NEW d \in Calls, turn'[d].stage \in Answering
               PROVE  active'[Conversation(d)'] = d
    BY DEF AnsweringTurnIsActive
  <2>1. CASE d = c
    BY <1>1, <1>8, <2>1
  <2>2. CASE d # c
    <3>1. active[Conversation(d)] = d /\ turn[d].stage \in Answering
      BY <1>8, <2>2 DEF TurnsInv, AnsweringTurnIsActive
    <3>2. Conversation(d) # v
      BY <1>1, <3>1, AnalystAssumption
    <3>3. Conversation(d) \in Conversations
      BY <3>1 DEF TurnsInv, RegistersOK, Conversation, Request, Answering
    <3>4. QED
      BY <1>8, <3>1, <3>2, <3>3
  <2>3. QED
    BY <2>1, <2>2
<1>13. QED
  BY <1>7, <1>8, <1>11, <1>12, AdmitRetains, Facts DEF TurnsInv

(***************************************************************************)
(* The specification                                                       *)
(***************************************************************************)
LEMMA InitIsRight ==
  Init => TurnsInv
<1> SUFFICES ASSUME Init PROVE TurnsInv
  OBVIOUS
<1>1. PICK past \in SUBSET Earlier :
       /\ used = {r.id : r \in past}
       /\ identity = [v \in Conversations |->
            IF \A r \in past : r.conversation # v THEN None
            ELSE (CHOOSE r \in past : r.conversation = v).capability]
  BY DEF Init
<1>2. /\ past \subseteq Request /\ IsFiniteSet(past) /\ Cardinality(past) <= Cardinality(Earlier)
      /\ Cardinality(past) \in Nat /\ Cardinality(Earlier) \in Nat
      /\ Cardinality(Earlier) <= Limit /\ Limit \in Nat
  BY AnalystAssumption, FS_Subset, FS_CardinalityType
<1>3. \A v \in Conversations :
        /\ identity[v] \in Capabilities \cup {None}
        /\ identity[v] # None <=> \E r \in past : r.conversation = v
  <2> SUFFICES ASSUME NEW v \in Conversations, NEW r \in past, r.conversation = v
               PROVE  identity[v] \in Capabilities
    BY <1>1, AnalystAssumption
  <2>1. (CHOOSE q \in past : q.conversation = v) \in past
    OBVIOUS
  <2>2. QED
    BY <1>1, <1>2, <2>1 DEF Request
<1>4. Retained = {r.conversation : r \in past}
  BY <1>2, <1>3 DEF Retained, Request
<1>5. IdentitiesOK
  <2> DEFINE conv == [r \in past |-> r.conversation]
             id == [r \in past |-> r.id]
  <2>1. conv \in Surjection(past, Retained) /\ id \in Surjection(past, used)
    BY <1>1, <1>4 DEF Surjection
  <2>2. /\ IsFiniteSet(Retained) /\ Cardinality(Retained) <= Cardinality(past)
        /\ IsFiniteSet(used) /\ Cardinality(used) <= Cardinality(past)
    BY <1>2, <2>1, FS_Surjection
  <2>3. Cardinality(Retained) \in Nat /\ Cardinality(used) \in Nat
    BY <2>2, FS_CardinalityType
  <2>4. QED
    BY <1>2, <2>2, <2>3 DEF IdentitiesOK, RetainedWithinLimit
<1>6. \A c \in Calls : CallOK(turn[c], op[c]) /\ turn[c].stage = "absent"
  <2>1. /\ NoTurn \in Turn /\ NoTurn.stage = "absent" /\ NoTurn.told = None /\ NoTurn.reading
    BY DEF NoTurn, Turn
  <2>2. /\ NoOperation \in Operation /\ ~NoOperation.reserved /\ ~NoOperation.attached
        /\ NoOperation.outcome = None /\ NoOperation.pending = None
    BY DEF NoOperation, Operation
  <2>3. CallOK(NoTurn, NoOperation)
    BY <2>1, <2>2 DEF CallOK, Silent, Reserving
  <2>4. QED
    BY <2>1, <2>3 DEF Init
<1>7. TypeOK
  <2>1. identity \in [Conversations -> Capabilities \cup {None}]
    BY <1>1, <1>3
  <2>2. used \subseteq RequestIds
    BY <1>1, <1>2 DEF Request
  <2>3. turn \in [Calls -> Turn] /\ op \in [Calls -> Operation]
    BY <1>6 DEF Init, CallOK
  <2>4. QED
    BY <2>1, <2>2, <2>3 DEF Init, TypeOK
<1>8. RegistersOK
  BY <1>6, <1>7 DEF RegistersOK, Init, Validating
<1>9. QED
  BY <1>5, <1>6, <1>8 DEF TurnsInv, AnsweringTurnIsActive, Answering

LEMMA NextKeeps ==
  TurnsInv /\ [Next]_vars => TurnsInv'
<1> SUFFICES ASSUME TurnsInv, [Next]_vars PROVE TurnsInv'
  OBVIOUS
<1>1. ASSUME NEW c \in Calls, NEW r \in Asked, Receive(c, r) \/ Refuse(c, r)
      PROVE  TurnsInv'
  BY <1>1, ReceiveStep, RefuseStep
<1>2. ASSUME NEW c \in Calls, Handler(c)
      PROVE  TurnsInv'
  BY <1>2, RejectStep, AdmitStep, OpeningSteps, ConcludeStep, CommitStep, ReleaseStep, CatchLostStep,
     CatchCancelledSteps, CatchFailedStep, CloseStep DEF Handler
<1>3. ASSUME NEW c \in Calls, Answered(c)
      PROVE  TurnsInv'
  BY <1>3, OpeningSteps
<1>4. CASE UNCHANGED vars
  <2>1. UNCHANGED <<request, turn, op, active, pending, identity, used>>
    BY <1>4 DEF vars
  <2>2. UNCHANGED registers /\ turn \in [Calls -> Turn] /\ op \in [Calls -> Operation]
        /\ \A c \in Calls : CallOK(turn[c], op[c])
    BY <2>1 DEF registers, TurnsInv, RegistersOK, TypeOK
  <2>3. QED
    BY <2>1, <2>2, OutsideStep
<1>5. QED
  BY <1>1, <1>2, <1>3, <1>4, OutsideSteps DEF Next

\* Turns and records stay as the handlers leave them: from its reservation to its end a record is
\* active, a turn that may answer is registered, and nobody waits for a conversation that answers.
THEOREM TurnsInvariant == Spec => []TurnsInv
<1>1. Init => TurnsInv
  BY InitIsRight
<1>2. TurnsInv /\ [Next]_vars => TurnsInv'
  BY NextKeeps
<1>3. QED
  BY <1>1, <1>2, PTL DEF Spec

\* A turn that may still answer is the one its conversation is registered with (POST turn and
\* cancel, routes/analyst.ts), for any calls and requests.
THEOREM WhoAnswersCanBeCancelled == Spec => []AnsweringTurnIsActive
<1>1. TurnsInv => AnsweringTurnIsActive
  BY DEF TurnsInv
<1>2. QED
  BY <1>1, TurnsInvariant, PTL

\* The maps of conversation and request identities never outgrow their limit, however many
\* admissions wait at once.
THEOREM IdentitiesAreBounded == Spec => []RetainedWithinLimit
<1>1. TurnsInv => RetainedWithinLimit
  BY DEF TurnsInv, IdentitiesOK
<1>2. QED
  BY <1>1, TurnsInvariant, PTL

\* The client was told what the registry recorded.
THEOREM ToldIsRecorded == Spec => []ToldMatchesRegistry
<1>1. TurnsInv => ToldMatchesRegistry
  <2> SUFFICES ASSUME TurnsInv, NEW c \in Calls, turn[c].told \in TerminalEvents, op[c].state = "terminal"
               PROVE  op[c].outcome = turn[c].told
    BY DEF ToldMatchesRegistry
  <2>1. CallOK(turn[c], op[c]) /\ turn[c] \in Turn
    BY Facts
  <2>2. turn[c].stage \in Silent \cup Reserving \cup {"closing", "settled"}
    BY <2>1 DEF Turn, Running, Answering, Silent, Reserving
  <2>3. turn[c].stage = "closing"
    BY <2>1, <2>2 DEF CallOK, TerminalEvents, None
  <2>4. QED
    BY <2>1, <2>3 DEF CallOK
<1>2. QED
  BY <1>1, TurnsInvariant, PTL

\* A turn that winds down is settled by the finally block alone, after a loss or a report.
LEMMA OnlyFinishingSettles ==
  ASSUME turn \in [Calls -> Turn], NEW c \in Calls, [Next]_vars,
         turn[c].stage \in {"closing", "catching"}, turn'[c].stage = "settled"
  PROVE  CatchLost(c) \/ Close(c)
<1>1. ASSUME NEW d \in Calls, NEW t, turn' = [turn EXCEPT ![d] = t]
      PROVE  d = c /\ t.stage = "settled"
  BY <1>1
<1>2. ASSUME NEW d \in Calls, NEW x, turn' = [turn EXCEPT ![d] = [turn[d] EXCEPT !.stage = x]]
      PROVE  d = c /\ x = "settled"
  <2>1. [turn[d] EXCEPT !.stage = x].stage = x
    BY DEF Turn
  <2>2. QED
    BY <1>1, <1>2, <2>1
<1>3. ~UNCHANGED vars /\ turn' # turn
  BY DEF vars
<1>4. ASSUME NEW d \in Calls, NEW r \in Asked, Receive(d, r) \/ Refuse(d, r)
      PROVE  FALSE
  BY <1>2, <1>4 DEF Receive, Refuse
<1>5. ASSUME NEW d \in Calls, Answered(d)
      PROVE  FALSE
  BY <1>5 DEF Answered, Goes, At, Turn
<1>6. ASSUME NEW d \in Calls, Expire(d) \/ ReaderCancels(d) \/ SignalFires(d)
      PROVE  FALSE
  BY <1>3, <1>6 DEF Expire, ReaderCancels, SignalFires, Turn
<1>7. ASSUME CancelAll \/ \E v \in Conversations, id \in RequestIds, k \in Capabilities : Cancel(v, id, k)
      PROVE  FALSE
  BY <1>3, <1>7 DEF CancelAll, Cancel
<1>8. ASSUME NEW d \in Calls, Reject(d) \/ Break(d) \/ Ask(d) \/ WaitExpires(d) \/ CommitEnding(d)
      PROVE  FALSE
  BY <1>2, <1>8 DEF Reject, Break, Ask, WaitExpires, CommitEnding, Goes
<1>9. ASSUME NEW d \in Calls, NEW connected \in BOOLEAN, Admit(d, connected)
      PROVE  FALSE
  BY <1>9 DEF Admit, Turn
<1>10. ASSUME NEW d \in Calls, Emit(d)
      PROVE  FALSE
  BY <1>10 DEF Emit, Goes, Turn
<1>11. ASSUME NEW d \in Calls, Conclude(d) \/ CatchFailed(d)
      PROVE  FALSE
  <2>1. PICK x \in OwnOutcomes \cup {None}, parses \in BOOLEAN : Publish(d, x, parses)
    <3>1. turn[d].ending \in OwnOutcomes \cup {None}
      BY DEF Turn
    <3>2. CASE Conclude(d)
      BY <3>1, <3>2 DEF Conclude
    <3>3. CASE CatchFailed(d)
      BY <3>3 DEF CatchFailed, OwnOutcomes
    <3>4. QED
      BY <1>11, <3>2, <3>3
  <2> DEFINE wrote == Writable(d) /\ parses
             stage == IF At(d, "answering") THEN "writing" ELSE "reporting"
             told == IF wrote THEN x ELSE turn[d].told
             t == [turn[d] EXCEPT !.stage = stage, !.ending = x, !.wrote = wrote, !.told = told]
  <2>2. turn' = [turn EXCEPT ![d] = t] /\ turn[d] \in Turn
    BY <2>1 DEF Publish
  <2> HIDE DEF told, wrote
  <2>3. t.stage \in {"writing", "reporting"}
    BY <2>2 DEF Turn
  <2> HIDE DEF t
  <2>4. QED
    BY <1>1, <2>2, <2>3
<1>12. ASSUME NEW d \in Calls, ReleaseEnding(d)
      PROVE  FALSE
  <2> DEFINE stage == IF turn[d].stage = "writing" THEN "catching" ELSE "closing"
             told == IF At(d, "writing") THEN turn[d].told ELSE Broken(d)
             t == [turn[d] EXCEPT !.stage = stage, !.told = told]
  <2>1. turn' = [turn EXCEPT ![d] = t] /\ turn[d] \in Turn
    BY <1>12 DEF ReleaseEnding
  <2> HIDE DEF told
  <2>2. t.stage \in {"catching", "closing"}
    BY <2>1 DEF Turn
  <2> HIDE DEF t
  <2>3. QED
    BY <1>1, <2>1, <2>2
<1>13. ASSUME NEW d \in Calls, CatchCancelled(d) \/ CatchExpired(d)
      PROVE  FALSE
  BY <1>13 DEF CatchCancelled, CatchExpired, Turn
<1>14. ASSUME NEW d \in Calls, CatchLost(d) \/ Close(d)
      PROVE  d = c
  BY <1>14 DEF CatchLost, Close, Finish
<1>15. QED
  BY <1>3, <1>4, <1>5, <1>6, <1>7, <1>8, <1>9, <1>10, <1>11, <1>12, <1>13, <1>14 DEF Next, Handler

\* A stream whose client stayed ends in a terminal event, whatever happens to the turn on the way.
THEOREM StreamsEndWithTerminal == Spec => StreamEndsWithTerminal
<1> DEFINE Ends(c) ==
      At(c, "closing") \/ At(c, "catching") =>
        (turn'[c].stage = "settled" /\ op[c].attached /\ ~(op[c].outcome = "cancelled" /\ turn[c].deadline)
         => turn'[c].told \in TerminalEvents)
<1>1. ASSUME TurnsInv, NEW c \in Calls, [Next]_vars
      PROVE  Ends(c)
  <2> SUFFICES ASSUME At(c, "closing") \/ At(c, "catching"), turn'[c].stage = "settled", op[c].attached,
                      ~(op[c].outcome = "cancelled" /\ turn[c].deadline)
               PROVE  turn'[c].told \in TerminalEvents
    OBVIOUS
  <2>1. turn \in [Calls -> Turn] /\ CallOK(turn[c], op[c])
    BY <1>1, Facts
  <2>2. turn[c].stage \in {"closing", "catching"}
    BY DEF At
  <2>3. CatchLost(c) \/ Close(c)
    BY <1>1, <2>1, <2>2, OnlyFinishingSettles
  <2>4. op[c].outcome # "transport-lost"
    BY <2>1 DEF CallOK
  <2>5. Close(c)
    BY <2>3, <2>4 DEF CatchLost
  <2>6. turn'[c].told = turn[c].told /\ turn[c].stage = "closing"
    BY <2>1, <2>5 DEF Close, Finish, At, NoTurn
  <2>7. QED
    BY <2>1, <2>6 DEF CallOK
<1>2. TurnsInv /\ [Next]_vars =>
        [\A c \in Calls :
           /\ At(c, "closing") \/ At(c, "catching")
           /\ turn'[c].stage = "settled"
           /\ op[c].attached
           /\ ~(op[c].outcome = "cancelled" /\ turn[c].deadline)
           => turn'[c].told \in TerminalEvents]_vars
  BY <1>1
<1>3. QED
  BY <1>2, TurnsInvariant, PTL DEF Spec, StreamEndsWithTerminal
==============================================================================
