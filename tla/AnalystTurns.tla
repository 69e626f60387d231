----------------------------- MODULE AnalystTurns -----------------------------
(***************************************************************************)
(* Turns of the collection analyst (routes/analyst.ts, with                *)
(* grounded-analysis/stream-writer.ts and the operation registry).         *)
(*                                                                         *)
(* A turn is one HTTP request that is admitted and answered by a stream of *)
(* events.  Admission waits once, for the transcript to be validated; the  *)
(* turn then emits its opening events, asks the model, emits what it       *)
(* answered, and publishes one terminal event under a reservation of the   *)
(* registry.  At any wait the owner may cancel, the client may leave, the  *)
(* turn's deadline may fire, and other requests are served.  Code between  *)
(* two awaits is one action.                                               *)
(*                                                                         *)
(* The provider's configuration is read once when the daemon starts        *)
(* (grounded-analysis/provider.ts), so a request whose disclosure does not *)
(* match it is answered without touching any state: the requests here      *)
(* disclose what is configured.                                            *)
(***************************************************************************)
EXTENDS Integers, FiniteSets, GroundedOperations

CONSTANTS Calls,          \* bound: the HTTP requests for a turn that are ever made
          Conversations, RequestIds, Capabilities,   \* what a request may carry
          Asked,          \* bound: what they ask, a subset of Request
          Earlier,        \* bound: requests whose turns may have settled before, likewise
          Limit,          \* MAX_RETAINED_CONVERSATION_IDENTITIES
          OpeningEvents,  \* non-terminal events before the model is asked: 3
          AnswerEvents    \* and after it: 3, and one for each block of the answer

Request == [conversation : Conversations, id : RequestIds, capability : Capabilities]

ASSUME AnalystAssumption ==
  /\ Asked \subseteq Request
  /\ Limit \in Nat \ {0}
  /\ OpeningEvents \in Nat \ {0} /\ AnswerEvents \in Nat \ {0}
  /\ Earlier \subseteq Request /\ IsFiniteSet(Earlier) /\ Cardinality(Earlier) <= Limit
  /\ None \notin Calls \cup RequestIds \cup Capabilities

VARIABLES
  request,   \* what each call asked
  turn,      \* where its handler is
  op,        \* its record in the operation registry
  active,    \* the turn of each conversation that may be cancelled
  pending,   \* the request id being validated for each conversation
  identity,  \* conversationIdentity: the capability each conversation was first used with
  used       \* the keys of requestConversation

vars == <<request, turn, op, active, pending, identity, used>>
registers == <<active, pending, identity, used>>

NoRequest == [conversation |-> None, id |-> None, capability |-> None]

\* What the client's stream ends in.  "broken": the stream was errored.
TerminalEvents == {"completed", "failed", "cancelled"}

Answering == {"opening", "asked", "answering", "writing"}
Running == Answering \cup {"catching", "reporting", "closing"}
Turn ==
  [stage    : {"absent", "validating", "refused", "settled"} \cup Running,
   left     : Nat,                      \* non-terminal events still to emit
   ending   : OwnOutcomes \cup {None},  \* the terminal event being published
   wrote    : BOOLEAN,                  \* whether it went into the stream
   deadline : BOOLEAN,                  \* deadlineExpired
   reading  : BOOLEAN,                  \* the client has not cancelled the stream
   told     : TerminalEvents \cup {"broken", None}]

NoTurn == [stage |-> "absent", left |-> 0, ending |-> None, wrote |-> FALSE,
           deadline |-> FALSE, reading |-> TRUE, told |-> None]

Conversation(c) == request[c].conversation

\* Mutant: the entry goes whoever's it is.
RetireAny(c) == [active EXCEPT ![Conversation(c)] = None]
\* retireActive
Retired(c) == IF active[Conversation(c)] # c THEN active
              ELSE [active EXCEPT ![Conversation(c)] = None]

(***************************************************************************)
(* Admission.                                                              *)
(***************************************************************************)
Misused(r) ==
  \/ r.id \in used
  \/ identity[r.conversation] \notin {None, r.capability}

Retained == {v \in Conversations : identity[v] # None}
\* Mutant: only the conversations are counted.
RequestsUncounted(r) == identity[r.conversation] = None /\ Cardinality(Retained) >= Limit
TrackingUnavailable(r) ==
  \/ identity[r.conversation] = None /\ Cardinality(Retained) >= Limit
  \/ r.id \notin used /\ Cardinality(used) >= Limit

\* Mutant: a conversation whose request is still being validated is free.
FreeOfTurns(r) == active[r.conversation] = None
Free(r) == active[r.conversation] = None /\ pending[r.conversation] = None

\* The refusals before the wait: busy, or an identity that is not the caller's to use.
\* A refusal changes nothing.
Refuse(c, r) ==
  /\ turn[c].stage = "absent"
  /\ ~Free(r) \/ Misused(r)
  /\ request' = [request EXCEPT ![c] = r]
  /\ turn' = [turn EXCEPT ![c].stage = "refused"]
  /\ UNCHANGED <<op, registers>>

Receive(c, r) ==
  /\ turn[c].stage = "absent"
  /\ Free(r) /\ ~Misused(r)
  /\ request' = [request EXCEPT ![c] = r]
  /\ turn' = [turn EXCEPT ![c].stage = "validating"]
  /\ pending' = [pending EXCEPT ![r.conversation] = r.id]
  /\ UNCHANGED <<op, active, identity, used>>

\* The transcript is rejected or cannot be validated, or no more identities are kept.
Reject(c) ==
  /\ turn[c].stage = "validating"
  /\ turn' = [turn EXCEPT ![c].stage = "refused"]
  /\ pending' = [pending EXCEPT ![Conversation(c)] = None]
  /\ UNCHANGED <<request, op, active, identity, used>>

\* The stream's first event is written before the handler returns.  `connected`: the
\* disconnect signal has not fired while the transcript was validated.
Admit(c, connected) ==
  LET r == request[c]
      claimed == Claimed(Started)
  IN
  /\ turn[c].stage = "validating"
  /\ ~TrackingUnavailable(r)
  /\ op' = [op EXCEPT ![c] = IF connected THEN claimed ELSE Detached(claimed)]
  /\ turn' = [turn EXCEPT ![c].stage = IF connected THEN "opening" ELSE "catching",
                          ![c].left = OpeningEvents - 1]
  /\ active' = [active EXCEPT ![r.conversation] = c]
  /\ pending' = [pending EXCEPT ![r.conversation] = None]
  /\ identity' = [identity EXCEPT ![r.conversation] = r.capability]
  /\ used' = used \cup {r.id}
  /\ UNCHANGED request

(***************************************************************************)
(* The stream.  The writer takes no event after a terminal one; an event   *)
(* cannot be enqueued once the client cancelled the stream, or when it     *)
(* does not parse.                                                         *)
(***************************************************************************)
Writable(c) == turn[c].reading /\ turn[c].told = None
Interrupted(c) == turn[c].deadline \/ op[c].aborted
At(c, stage) == turn[c].stage = stage
Goes(c, stage) == turn' = [turn EXCEPT ![c].stage = stage]

\* throwIfInterrupted, where the handler looks again after a wait.
Break(c) ==
  /\ turn[c].stage \in {"opening", "answering"} /\ Interrupted(c)
  /\ Goes(c, "catching")
  /\ UNCHANGED <<request, op, registers>>

\* emitNonterminal.  An event may also fail to be built or to parse.
Emit(c) ==
  /\ turn[c].stage \in {"opening", "answering"} /\ ~Interrupted(c)
  /\ turn[c].left > 0
  /\ \/ /\ Writable(c)
        /\ turn' = [turn EXCEPT ![c].left = @ - 1]
     \/ /\ ~Writable(c) \/ At(c, "answering")
        /\ Goes(c, "catching")
  /\ UNCHANGED <<request, op, registers>>

Ask(c) ==
  /\ At(c, "opening") /\ ~Interrupted(c) /\ turn[c].left = 0
  /\ Goes(c, "asked")
  /\ UNCHANGED <<request, op, registers>>

\* The turn service settles before the deadline: it answers, submits nothing that is
\* valid, or fails.  An aborted signal does not oblige it to.
Answered(c) ==
  /\ At(c, "asked") /\ ~turn[c].deadline
  /\ \/ turn' = [turn EXCEPT ![c].stage = IF op[c].aborted THEN "catching" ELSE "answering",
                             ![c].left = AnswerEvents, ![c].ending = "completed"]
     \/ turn' = [turn EXCEPT ![c].stage = IF op[c].aborted THEN "catching" ELSE "answering",
                             ![c].left = 0, ![c].ending = "failed"]
     \/ Goes(c, "catching")
  /\ UNCHANGED <<request, op, registers>>

\* Mutant: the deadline aborts the signal and no more.
WaitForModel(c) == At(c, "asked") /\ turn[c].deadline /\ UNCHANGED vars
\* Promise.race: the deadline is the first to settle.
WaitExpires(c) ==
  /\ At(c, "asked") /\ turn[c].deadline
  /\ Goes(c, "catching")
  /\ UNCHANGED <<request, op, registers>>

(***************************************************************************)
(* publishTerminal: reserve the outcome and write the event, then commit   *)
(* the outcome, or release it when the event was not written.              *)
(***************************************************************************)
Publish(c, ending, parses) ==
  LET wrote == Writable(c) /\ parses
  IN
  /\ op' = [op EXCEPT ![c] = Reserved(@, TRUE)]
  /\ turn' = [turn EXCEPT
       ![c].stage = IF At(c, "answering") THEN "writing" ELSE "reporting",
       ![c].ending = ending, ![c].wrote = wrote,
       ![c].told = IF wrote THEN ending ELSE @]

\* Of the terminal events only a completion can fail to parse.
Conclude(c) ==
  /\ At(c, "answering") /\ ~Interrupted(c) /\ turn[c].left = 0 /\ MayReserve(op[c])
  /\ \E parses \in BOOLEAN :
       /\ ~parses => turn[c].ending = "completed"
       /\ Publish(c, turn[c].ending, parses)
  /\ UNCHANGED <<request, registers>>

CommitEnding(c) ==
  /\ turn[c].stage \in {"writing", "reporting"} /\ turn[c].wrote
  /\ op' = [op EXCEPT ![c] = Committed(@, turn[c].ending)]
  /\ active' = Retired(c)
  /\ Goes(c, "closing")
  /\ UNCHANGED <<request, pending, identity, used>>

\* Out of the catch block the release is followed by the error of the stream.
Broken(c) == IF turn[c].reading /\ turn[c].told = None THEN "broken" ELSE turn[c].told
ReleaseEnding(c) ==
  /\ turn[c].stage \in {"writing", "reporting"} /\ ~turn[c].wrote
  /\ op' = [op EXCEPT ![c] = Released(@)]
  /\ turn' = [turn EXCEPT ![c].stage = IF @ = "writing" THEN "catching" ELSE "closing",
                          ![c].told = IF At(c, "writing") THEN @ ELSE Broken(c)]
  /\ UNCHANGED <<request, registers>>

(***************************************************************************)
(* The catch block.  The turn gives up its conversation first.             *)
(***************************************************************************)
\* The finally block, run at once when nothing is awaited before it.
Finish(c, told) ==
  /\ active' = Retired(c)
  /\ op' = [op EXCEPT ![c] = CleanedUp(Detached(@))]
  /\ turn' = [turn EXCEPT ![c] = [NoTurn EXCEPT !.stage = "settled", !.told = told]]
  /\ UNCHANGED <<request, pending, identity, used>>

CatchLost(c) ==
  /\ At(c, "catching") /\ op[c].outcome = "transport-lost"
  /\ Finish(c, Broken(c))

\* Mutant: a cancelled turn is closed without a word.
CancelledUnwritten(c) ==
  /\ At(c, "catching") /\ op[c].outcome = "cancelled" /\ ~turn[c].deadline
  /\ active' = Retired(c)
  /\ Goes(c, "closing")
  /\ UNCHANGED <<request, op, pending, identity, used>>
CatchCancelled(c) ==
  /\ At(c, "catching") /\ op[c].outcome = "cancelled" /\ ~turn[c].deadline
  /\ active' = Retired(c)
  /\ turn' = [turn EXCEPT ![c].stage = "closing",
                          ![c].told = IF Writable(c) THEN "cancelled" ELSE @]
  /\ UNCHANGED <<request, op, pending, identity, used>>

\* A passed deadline is to be reported as a failure, which the registry no longer
\* admits for a turn that was cancelled before: its stream is errored.
CatchExpired(c) ==
  /\ At(c, "catching") /\ op[c].outcome = "cancelled" /\ turn[c].deadline
  /\ active' = Retired(c)
  /\ turn' = [turn EXCEPT ![c].stage = "closing", ![c].told = Broken(c)]
  /\ UNCHANGED <<request, op, pending, identity, used>>

CatchFailed(c) ==
  /\ At(c, "catching") /\ op[c].outcome \notin Interruptions /\ MayReserve(op[c])
  /\ active' = Retired(c)
  /\ Publish(c, "failed", TRUE)
  /\ UNCHANGED <<request, pending, identity, used>>

Close(c) == At(c, "closing") /\ Finish(c, turn[c].told)

(***************************************************************************)
(* What happens to a turn from outside.                                    *)
(***************************************************************************)
\* The timer is set when the stream starts and cleared by the finally block.
Expire(c) ==
  /\ turn[c].stage \in Running /\ ~turn[c].deadline
  /\ turn' = [turn EXCEPT ![c].deadline = TRUE]
  /\ UNCHANGED <<request, op, registers>>

\* An accepted cancellation; any other answer changes nothing.
Cancel(v, id, capability) ==
  /\ active[v] # None
  /\ request[active[v]].id = id /\ request[active[v]].capability = capability
  /\ CancelAccepted(op[active[v]])
  /\ op' = [op EXCEPT ![active[v]] = Cancelled(@)]
  /\ UNCHANGED <<request, turn, registers>>

\* cancelActive, when the daemon is asked to stop.
CancelAll ==
  /\ \E v \in Conversations : active[v] # None /\ CancelAccepted(op[active[v]])
  /\ op' = [c \in Calls |-> IF \E v \in Conversations : active[v] = c
                             THEN Cancelled(op[c]) ELSE op[c]]
  /\ UNCHANGED <<request, turn, registers>>

\* The client goes: its reader cancels the stream, the disconnect signal fires, in
\* either order and perhaps only one of them.
ReaderCancels(c) ==
  /\ turn[c].stage \in Running /\ turn[c].reading
  /\ turn' = [turn EXCEPT ![c].reading = FALSE]
  /\ op' = [op EXCEPT ![c] = Detached(@)]
  /\ UNCHANGED <<request, registers>>

SignalFires(c) ==
  /\ turn[c].stage \in Running /\ op[c].attached
  /\ op' = [op EXCEPT ![c] = Detached(@)]
  /\ UNCHANGED <<request, turn, registers>>

-----------------------------------------------------------------------------
\* The maps remember every turn since the daemon started; those of the past are settled.
Init ==
  /\ \E past \in SUBSET Earlier :
       /\ used = {r.id : r \in past}
       /\ identity = [v \in Conversations |->
            IF \A r \in past : r.conversation # v THEN None
            ELSE (CHOOSE r \in past : r.conversation = v).capability]
  /\ request = [c \in Calls |-> NoRequest]
  /\ turn = [c \in Calls |-> NoTurn]
  /\ op = [c \in Calls |-> NoOperation]
  /\ active = [v \in Conversations |-> None]
  /\ pending = [v \in Conversations |-> None]

Handler(c) ==
  \/ Reject(c)
  \/ \E connected \in BOOLEAN : Admit(c, connected)
  \/ Break(c) \/ Emit(c) \/ Ask(c) \/ WaitExpires(c)
  \/ Conclude(c) \/ CommitEnding(c) \/ ReleaseEnding(c)
  \/ CatchLost(c) \/ CatchCancelled(c) \/ CatchExpired(c) \/ CatchFailed(c)
  \/ Close(c)

Next ==
  \/ \E c \in Calls :
       \/ \E r \in Asked : Receive(c, r) \/ Refuse(c, r)
       \/ Handler(c) \/ Answered(c)
       \/ Expire(c) \/ ReaderCancels(c) \/ SignalFires(c)
  \/ \E v \in Conversations, id \in RequestIds, k \in Capabilities : Cancel(v, id, k)
  \/ CancelAll

Spec == Init /\ [][Next]_vars

\* The daemon runs its handlers and its timers; the model may never answer.
FairSpec == Spec /\ \A c \in Calls : WF_vars(Handler(c)) /\ WF_vars(Expire(c))

-----------------------------------------------------------------------------
\* The variables have the shapes the handlers give them, and an entry of `active`
\* is a turn of that conversation.
TypeOK ==
  /\ request \in [Calls -> Request \cup {NoRequest}]
  /\ turn \in [Calls -> Turn]
  /\ op \in [Calls -> Operation]
  /\ pending \in [Conversations -> RequestIds \cup {None}]
  /\ identity \in [Conversations -> Capabilities \cup {None}]
  /\ used \subseteq RequestIds
  /\ \A v \in Conversations : active[v] # None =>
        active[v] \in Calls /\ Conversation(active[v]) = v

\* A turn that may still answer is the one its conversation is registered with, so it
\* can be cancelled, and no other turn of the conversation is answering with it:
\* whatever turns came before it, in whatever order they wind down.
AnsweringTurnIsActive ==
  \A c \in Calls : turn[c].stage \in Answering => active[Conversation(c)] = c

\* What the client was told is what the registry recorded: no answer is completed
\* after a cancellation or a loss that counted, none that completed is cancelled.
ToldMatchesRegistry ==
  \A c \in Calls : turn[c].told \in TerminalEvents /\ op[c].state = "terminal" =>
                      op[c].outcome = turn[c].told

\* Neither of the maps that remember identities outgrows its limit, however many
\* admissions wait for their transcripts at once.
RetainedWithinLimit == Cardinality(Retained) <= Limit /\ Cardinality(used) <= Limit

\* A stream whose client stayed ends in a terminal event, unless the turn was
\* cancelled and its deadline passed as well.
StreamEndsWithTerminal ==
  [][\A c \in Calls :
       /\ At(c, "closing") \/ At(c, "catching")
       /\ turn'[c].stage = "settled"
       /\ op[c].attached
       /\ ~(op[c].outcome = "cancelled" /\ turn[c].deadline)
       => turn'[c].told \in TerminalEvents]_vars

\* Every admitted turn is settled, even if the model never answers and ignores that
\* it was aborted.
EveryTurnSettles ==
  \A c \in Calls : turn[c].stage \in Running ~> turn[c].stage = "settled"
=============================================================================
