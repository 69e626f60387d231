------------------------- MODULE JudgmentPublication -------------------------
(***************************************************************************)
(* What the daemon promises its readers about similarity judgments.        *)
(*                                                                         *)
(* A reader (prediction, redundancy, displayed fitness) sees only          *)
(* `published`.  A run first offers judgments, one pair after another,     *)
(* where no reader can see them; once it has closed, a part of what it     *)
(* still offers is published in one step, once.  Between offers anybody    *)
(* may withdraw judgments, offered or published, because what they were    *)
(* judged from changed.  An acquisition may move a published judgment to   *)
(* another key.  Nothing else ever reaches a reader.                       *)
(***************************************************************************)
CONSTANTS Runs,      \* identities of runs (random UUIDs: never used twice)
          Key,       \* one key per pair of games and signal
          Content,   \* what a judgment says and what it was judged from
          NoRow      \* the absence of a judgment

VARIABLES published, \* [Key -> Content or NoRow], what every reader sees
          offered,   \* [Key -> Content or NoRow], what the unresolved run has judged
          fate       \* [Runs -> how far the run has come]

pubVars == <<published, offered, fate>>

Unresolved == {"open", "sealed"}
Nothing == [k \in Key |-> NoRow]
Rows == [Key -> Content \cup {NoRow}]

\* `after` is `before` with some judgments gone.
Shrinks(before, after) == after \in Rows /\ \A k \in Key : after[k] \in {before[k], NoRow}

Init ==
  /\ published = Nothing
  /\ offered = Nothing
  /\ fate = [r \in Runs |-> "new"]

Open(r) ==
  /\ fate[r] = "new"
  /\ \A s \in Runs : fate[s] \notin Unresolved
  /\ fate' = [fate EXCEPT ![r] = "open"]
  /\ UNCHANGED <<published, offered>>

Offer(r) ==
  /\ fate[r] = "open"
  /\ offered' \in Rows
  /\ \A k \in Key : offered'[k] \in Content \cup {offered[k]}
  /\ UNCHANGED <<published, fate>>

Close(r) ==
  /\ fate[r] = "open"
  /\ fate' = [fate EXCEPT ![r] = "sealed"]
  /\ UNCHANGED <<published, offered>>

\* All at once, and never again for this run: what is not taken now is dropped.
Publish(r) ==
  /\ fate[r] = "sealed"
  /\ published' \in Rows
  /\ \A k \in Key :
        published'[k] = published[k] \/ (offered[k] # NoRow /\ published'[k] = offered[k])
  /\ offered' = Nothing
  /\ fate' = [fate EXCEPT ![r] = "published"]

Withdraw ==
  /\ Shrinks(published, published')
  /\ Shrinks(offered, offered')
  /\ UNCHANGED fate

\* A moved judgment keeps its content: it was published under some key before.
Move ==
  /\ published' \in Rows
  /\ \A k \in Key : published'[k] \in {NoRow} \cup {published[j] : j \in Key}
  /\ Shrinks(offered, offered')
  /\ UNCHANGED fate

Next ==
  \/ \E r \in Runs : Open(r) \/ Offer(r) \/ Close(r) \/ Publish(r)
  \/ Withdraw
  \/ Move

Spec == Init /\ [][Next]_pubVars
==============================================================================
