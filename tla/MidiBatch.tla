------------------------------ MODULE MidiBatch ------------------------------
(***************************************************************************)
(* What the automation API promises of scheduled MIDI input                *)
(* (docs/architecture/scheduled-midi.md), without queues, threads and      *)
(* sockets: one batch at a time, taken whole or not at all; its events     *)
(* reach the application in order and at most once, nothing of it after    *)
(* the client has been told that it ended; what is reported delivered was  *)
(* heard, what is reported dropped was not.                                *)
(***************************************************************************)
EXTENDS Naturals, Sequences

CONSTANTS Ids, Plans, NoBatch

VARIABLES
  batch,  \* what the client observes of the latest batch
  before, \* what it observed when it offered that batch
  taken,  \* the largest id the runtime has taken
  heard   \* the events the application received: id and position

vars == <<batch, before, taken, heard>>

Active == batch # NoBatch /\ batch.status \in {"submitting", "accepted"}

Init == batch = NoBatch /\ before = NoBatch /\ taken = 0 /\ heard = {}

Offer(id, plan) ==
  /\ ~Active
  /\ batch' = [id |-> id, status |-> "submitting", events |-> plan,
               outcomes |-> <<>>]
  /\ before' = batch
  /\ UNCHANGED <<taken, heard>>

Refuse ==
  /\ Active /\ batch.status = "submitting"
  /\ batch' = before /\ before' = NoBatch
  /\ UNCHANGED <<taken, heard>>

(* The client has its answer, or has given up: no refusal comes any more.  *)
Settle ==
  /\ before' = NoBatch
  /\ UNCHANGED <<batch, taken, heard>>

Take ==
  /\ Active /\ batch.status = "submitting" /\ taken < batch.id
  /\ taken' = batch.id
  /\ UNCHANGED <<batch, before, heard>>

Acknowledge ==
  /\ Active /\ batch.status = "submitting" /\ taken = batch.id
  /\ batch' = [batch EXCEPT !.status = "accepted"]
  /\ UNCHANGED <<before, taken, heard>>

Hear(k) ==
  /\ Active /\ taken = batch.id /\ k > Len(batch.outcomes)
  /\ \A h \in heard : h[1] = batch.id => h[2] < k
  /\ heard' = heard \cup {<<batch.id, k>>}
  /\ UNCHANGED <<batch, before, taken>>

Report ==
  /\ Active /\ batch.status = "accepted"
  /\ LET k == Len(batch.outcomes) + 1 IN
       /\ k \in DOMAIN batch.events
       /\ batch' = [batch EXCEPT
            !.outcomes = Append(@, IF <<batch.id, k>> \in heard
                                   THEN "delivered" ELSE "dropped"),
            !.status = IF k = Len(batch.events) THEN "completed" ELSE @]
  /\ UNCHANGED <<before, taken, heard>>

Cancel ==
  /\ batch # NoBatch /\ batch.status # "submitting" /\ taken = batch.id
  /\ batch' = [batch EXCEPT !.status = "cancelled"]
  /\ UNCHANGED <<before, taken, heard>>

Next ==
  \/ \E id \in Ids, plan \in Plans : Offer(id, plan)
  \/ Refuse \/ Settle \/ Take \/ Acknowledge \/ Report \/ Cancel
  \/ Active /\ \E k \in DOMAIN batch.events : Hear(k)

Spec == Init /\ [][Next]_vars
=============================================================================
