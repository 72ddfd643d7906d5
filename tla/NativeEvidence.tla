--------------------------- MODULE NativeEvidence ----------------------------
(***************************************************************************)
(* The log of a native session, native-events.jsonl with the actions.jsonl *)
(* beside it, as NativeBackend writes it, and the verifiers that bind the  *)
(* two afterwards (clock_admission.bind_native_actions,                    *)
(* verify_midi_schedules, verify_midi_connections, input_origin).  The     *)
(* first half runs a session request by request; the second half is        *)
(* predicates over the files it leaves.                                    *)
(***************************************************************************)
EXTENDS Integers, Sequences, FiniteSets, SequencesExt

CONSTANTS EvidencePorts,            \* the configured MIDI ports
          EvidenceIds,              \* ids that clients give to schedules
          EvidencePlans,            \* the events of a schedule: <<[port, at], ...>>
          MaxActions, MaxEvidenceTime

ASSUME EvidenceAssumption ==
  /\ EvidencePlans \subseteq Seq([port : EvidencePorts, at : Nat])
  /\ MaxActions \in Nat /\ MaxEvidenceTime \in Nat

VARIABLES log,      \* native-events.jsonl
          recipe,   \* actions.jsonl: [sequence, action, ack]
          native    \* the backend and its runtime

evidenceVars == <<log, recipe, native>>

NoAction == [type |-> "none", what |-> 0, state |-> 0, events |-> <<>>]
Act(type, what, state) == [NoAction EXCEPT !.type = type, !.what = what, !.state = state]
NoAck == [sequence |-> 0, t |-> 0]
NoPlan == [id |-> 0, events |-> <<>>, processed |-> 0, cancelled |-> FALSE]

Stamped(record) == record @@ [t |-> native.now]

EvidenceInit ==
  /\ native = [sequence |-> 0, now |-> 0, grid |-> TRUE, connected |-> EvidencePorts,
               held |-> <<>>, plan |-> NoPlan, action |-> NoAction, todo |-> <<>>,
               sent |-> FALSE, refused |-> FALSE, last |-> NoAck]
  /\ log = SetToSeq({[kind |-> "connection", port |-> p, connected |-> TRUE,
                      input |-> 0, t |-> 0] : p \in EvidencePorts})
  /\ recipe = <<>>

-----------------------------------------------------------------------------
(* The session: one public action at a time, each as the native inputs that *)
(* it takes (NativeBackend.query).                                          *)

Active == native.plan.processed < Len(native.plan.events) /\ ~native.plan.cancelled
IsHeld(action) == \E k \in DOMAIN native.held : native.held[k] = [action EXCEPT !.state = 1]

Admissible(action) ==
  CASE action.type = "key" -> (action.state = 1) # IsHeld(action)
    [] action.type = "grid" -> native.grid /\ (action.state = 1) # IsHeld(action)
    [] action.type = "grid_connection" -> (action.state = 1) # native.grid
    [] action.type = "midi_connection" -> (action.state = 1) # (action.what \in native.connected)
    [] action.type = "midi" -> ~Active /\ action.what \in native.connected
    [] action.type = "midi_schedule" -> ~Active /\ action.what > native.plan.id
    [] OTHER -> TRUE

Actions ==
  {Act(type, 1, state) : type \in {"key", "grid"}, state \in 0..1}
  \cup {Act("grid_connection", 0, state) : state \in 0..1}
  \cup {Act("midi_connection", port, state) : port \in EvidencePorts, state \in 0..1}
  \cup {Act("midi", port, 0) : port \in EvidencePorts}
  \cup {Act("release_all", 0, 0)}
  \cup {Act("midi_schedule_cancel", id, 0) : id \in EvidenceIds}
  \cup {[Act("midi_schedule", id, 0) EXCEPT !.events = plan] :
          id \in EvidenceIds, plan \in EvidencePlans}

\* A disconnected grid, and release_all, first let go of what is held.
Inputs(action, held) ==
  LET let_go == CASE action.type = "release_all" -> held
                  [] action.type = "grid_connection" /\ action.state = 0 ->
                       SelectSeq(held, LAMBDA h : h.type = "grid")
                  [] OTHER -> <<>>
      releases == [k \in DOMAIN let_go |-> [let_go[k] EXCEPT !.state = 0]]
  IN IF action.type = "release_all" THEN releases ELSE Append(releases, action)

HeldAfter(held, action) ==
  CASE action.type \notin {"key", "grid"} -> held
    [] action.type \in {"key", "grid"} /\ action.state = 1 -> Append(held, action)
    [] OTHER -> SelectSeq(held, LAMBDA h : h # [action EXCEPT !.state = 1])

BeginAction(action) ==
  /\ native.action = NoAction /\ Len(recipe) < MaxActions /\ ~native.refused
  /\ Admissible(action)
  /\ native' = [native EXCEPT !.action = action, !.todo = Inputs(action, native.held)]
  /\ UNCHANGED <<log, recipe>>

\* send and schedule_input log an input before they submit it.
Submit ==
  /\ native.todo # <<>> /\ ~native.sent
  /\ native' = [native EXCEPT !.sent = TRUE, !.sequence = @ + 1]
  /\ log' = Append(log, Stamped([kind |-> "input", sequence |-> native.sequence + 1,
                                action |-> Head(native.todo)]))
  /\ UNCHANGED recipe

Scheduled(action) == action.type \in {"midi_schedule", "midi_schedule_cancel"}

\* What the runtime reports for an input, and what send logs when it returns.
Reports(action) ==
  LET sequence == native.sequence
      changed == [kind |-> "connection", port |-> action.what, connected |-> action.state = 1,
                  input |-> sequence]
      timing == [kind |-> "timing", sequence |-> sequence, ack |-> native.now]
      response(kind, count) == [kind |-> kind, id |-> sequence, schedule |-> action.what,
                                count |-> count]
      left == IF Active THEN Len(native.plan.events) - native.plan.processed ELSE 0
  IN CASE action.type = "midi_schedule" -> <<response("accepted", Len(action.events))>>
       [] action.type = "midi_schedule_cancel" /\ action.what = native.plan.id ->
            <<response("cancelled", left)>>
       [] action.type = "midi_schedule_cancel" /\ action.what # native.plan.id ->
            <<[kind |-> "rejected", id |-> sequence]>>
       [] action.type = "midi_connection" ->
            <<changed, [kind |-> "ack", id |-> sequence], timing>>
       [] OTHER -> <<[kind |-> "ack", id |-> sequence], timing>>

CompleteInput ==
  LET action == Head(native.todo)
      reports == Reports(action)
  IN
  /\ native.todo # <<>> /\ native.sent
  /\ log' = log \o [k \in DOMAIN reports |-> Stamped(reports[k])]
  /\ native' = [native EXCEPT
       !.sent = FALSE, !.todo = Tail(@), !.held = HeldAfter(@, action),
       !.grid = IF action.type = "grid_connection" THEN action.state = 1 ELSE @,
       !.connected = CASE action.type # "midi_connection" -> @
                       [] action.type = "midi_connection" /\ action.state = 1 ->
                            @ \cup {action.what}
                       [] OTHER -> @ \ {action.what},
       !.plan = CASE action.type = "midi_schedule" ->
                       [NoPlan EXCEPT !.id = action.what, !.events = action.events]
                  [] action.type = "midi_schedule_cancel" /\ action.what = @.id ->
                       [@ EXCEPT !.cancelled = TRUE]
                  [] OTHER -> @,
       !.last = IF Scheduled(action) THEN @
                ELSE [sequence |-> native.sequence, t |-> native.now],
       !.refused = reports[1].kind = "rejected"]
  /\ UNCHANGED recipe

\* The server logs the action with its acknowledgement, or an error.
AnswerAction ==
  /\ native.action # NoAction /\ native.todo = <<>>
  /\ native' = [native EXCEPT !.action = NoAction]
  /\ recipe' = Append(recipe,
       [sequence |-> Len(recipe) + 1, action |-> native.action,
        ack |-> IF Scheduled(native.action) \/ native.action.type = "release_all" THEN NoAck
                ELSE native.last])
  /\ UNCHANGED log

\* The device thread delivers an event that is due, or drops it.
Deliver ==
  LET event == native.plan.events[native.plan.processed + 1] IN
  /\ Active /\ event.at <= native.now
  /\ native' = [native EXCEPT !.plan.processed = @ + 1]
  /\ log' = Append(log, Stamped(
       [kind |-> IF event.port \in native.connected THEN "delivered" ELSE "dropped",
        id |-> native.plan.id, index |-> native.plan.processed, event |-> event]))
  /\ UNCHANGED recipe

Elapse ==
  /\ native.now < MaxEvidenceTime /\ (native.action = NoAction \/ native.sent)
  /\ native' = [native EXCEPT !.now = @ + 1]
  /\ UNCHANGED <<log, recipe>>

EvidenceNext ==
  \/ \E action \in Actions : BeginAction(action)
  \/ Submit \/ CompleteInput \/ AnswerAction \/ Deliver \/ Elapse

-----------------------------------------------------------------------------
(* The verifiers, of a log l and a recipe r.                                *)

At(l, kinds) == {i \in DOMAIN l : l[i].kind \in kinds}
InputsAt(l, types) == {i \in At(l, {"input"}) : l[i].action.type \in types}
ScheduleTypes == {"midi_schedule", "midi_schedule_cancel"}
Acked(action) == ~Scheduled(action)

\* bind_native_actions: the inputs that a recipe takes, each with its public ack.
Wanted(r) ==
  LET take(w, entry) ==
        LET actions == Inputs(entry.action, w.held)
        IN [held |-> FoldLeft(HeldAfter, w.held, actions),
            inputs |-> w.inputs \o [k \in DOMAIN actions |->
                         [action |-> actions[k],
                          ack |-> IF k = Len(actions) THEN entry.ack ELSE NoAck]]]
  IN FoldLeft(take, [held |-> <<>>, inputs |-> <<>>], r).inputs

InputsBound(l, r) ==
  LET inputs == SelectSeq(l, LAMBDA e : e.kind = "input") IN
  /\ \A k \in 1..(Len(inputs) - 1) : inputs[k].sequence < inputs[k + 1].sequence
  /\ [k \in DOMAIN inputs |-> inputs[k].action]
       = [k \in DOMAIN Wanted(r) |-> Wanted(r)[k].action]

Bound(l, r) ==
  LET inputs == SelectSeq(l, LAMBDA e : e.kind = "input")
      wanted == Wanted(r)
      acks(k) == {i \in At(l, {"ack"}) : l[i].id = inputs[k].sequence}
  IN /\ InputsBound(l, r)
     /\ \A k \in DOMAIN inputs : Acked(inputs[k].action) =>
          /\ Cardinality(acks(k)) = 1
          /\ wanted[k].ack # NoAck => \A i \in acks(k) :
               wanted[k].ack = [sequence |-> inputs[k].sequence, t |-> l[i].t]

\* Whether the log has the device of a port connected at a record.
ConnectedAt(l, port, i) ==
  LET before == {j \in At(l, {"connection"}) : j < i /\ l[j].port = port}
  IN before = {} \/ l[Max(before)].connected

Answers(l, s) == {i \in At(l, {"accepted", "cancelled"}) : l[i].id = l[s].sequence}
ProcessedBefore(l, id, i) ==
  {j \in At(l, {"delivered", "dropped"}) : j < i /\ l[j].id = id}
CancelledBefore(l, id, i) ==
  \E j \in At(l, {"cancelled"}) : j < i /\ l[j].schedule = id
Accepted(l, id) == {i \in At(l, {"accepted"}) : l[i].schedule = id}
EventsOf(l, i) ==
  l[CHOOSE s \in InputsAt(l, {"midi_schedule"}) : l[s].sequence = l[i].id].action.events

Submitted(l, s) ==
  \E i \in Answers(l, s) :
    /\ Answers(l, s) = {i} /\ i > s /\ l[i].schedule = l[s].action.what
    /\ l[i].kind = "accepted" =>
         /\ l[s].action.type = "midi_schedule" /\ l[i].count = Len(l[s].action.events)
         /\ Accepted(l, l[i].schedule) = {i}
    /\ l[i].kind = "cancelled" =>
         /\ l[s].action.type = "midi_schedule_cancel"
         /\ \E a \in Accepted(l, l[i].schedule) :
              /\ a < i
              /\ l[i].count = IF CancelledBefore(l, l[i].schedule, i) THEN 0
                              ELSE Len(EventsOf(l, a))
                                   - Cardinality(ProcessedBefore(l, l[i].schedule, i))

InPlan(l, i) ==
  /\ ~CancelledBefore(l, l[i].id, i)
  /\ l[i].index = Cardinality(ProcessedBefore(l, l[i].id, i))
  /\ \E a \in Accepted(l, l[i].id) :
       /\ a < i /\ l[i].index < Len(EventsOf(l, a))
       /\ l[i].event = EventsOf(l, a)[l[i].index + 1]
  /\ l[i].t >= l[i].event.at

DeliveredAnywhere(l, i) == InPlan(l, i)

Delivered(l, i) ==
  InPlan(l, i) /\ (l[i].kind = "dropped") # ConnectedAt(l, l[i].event.port, i)

\* verify_midi_schedules.
SchedulesVerified(l, r) ==
  LET submissions == InputsAt(l, ScheduleTypes)
      recorded == SelectSeq(r, LAMBDA e : Scheduled(e.action))
      submitted == SelectSeq(l, LAMBDA e : e.kind = "input" /\ Scheduled(e.action))
  IN /\ [k \in DOMAIN submitted |-> submitted[k].action]
          = [k \in DOMAIN recorded |-> recorded[k].action]
     /\ At(l, {"rejected"}) = {}
     /\ \A s \in submissions : Submitted(l, s)
     /\ \A i \in At(l, {"accepted", "cancelled"}) : \E s \in submissions : i \in Answers(l, s)
     /\ \A i \in At(l, {"delivered", "dropped"}) : Delivered(l, i)
     /\ \A a \in At(l, {"accepted"}) :
          \/ CancelledBefore(l, l[a].schedule, Len(l) + 1)
          \/ Cardinality(ProcessedBefore(l, l[a].schedule, Len(l) + 1)) = l[a].count

\* verify_midi_connections, with the acknowledgements of bind_native_actions.
Transition(l, i) ==
  LET before == {j \in At(l, {"connection"}) : j < i /\ l[j].port = l[i].port} IN
  IF l[i].input = 0 THEN before = {} /\ l[i].connected
  ELSE /\ before # {} /\ l[Max(before)].connected # l[i].connected
       /\ \E c \in InputsAt(l, {"midi_connection"}) :
            /\ l[c].sequence = l[i].input
            /\ l[c].action = Act("midi_connection", l[i].port, IF l[i].connected THEN 1 ELSE 0)
            /\ l[c].t <= l[i].t
            /\ \A a \in At(l, {"ack"}) : l[a].id = l[i].input => l[i].t <= l[a].t

ConnectionsVerified(l) ==
  /\ \A c \in InputsAt(l, {"midi_connection"}) :
       Cardinality({i \in At(l, {"connection"}) : l[i].input = l[c].sequence}) = 1
  /\ \A i \in At(l, {"connection"}) : Transition(l, i)

\* native_observations.
SessionVerified(l, r) ==
  /\ \A k \in DOMAIN r : r[k].sequence = k
  /\ Bound(l, r) /\ SchedulesVerified(l, r) /\ ConnectionsVerified(l)

\* verified_input_origin, of the k-th action: the time that its input was submitted.
Origin(l, r, k) ==
  {l[s].t : s \in {i \in InputsAt(l, {"key", "grid"}) :
     /\ l[i].action = r[k].action /\ l[i].sequence = r[k].ack.sequence
     /\ \E a \in At(l, {"ack"}), m \in At(l, {"timing"}) :
          /\ l[a].id = l[i].sequence /\ l[a].t = r[k].ack.t
          /\ l[m].sequence = l[i].sequence /\ l[m].ack = l[a].t
          /\ l[i].t <= l[m].t /\ l[i].t <= l[a].t /\ l[a].t <= l[m].t}}

-----------------------------------------------------------------------------
(* A record that the verifiers are to miss.  A device may connect at the    *)
(* start unnoticed, and bind_native_actions leaves timings to input_origin. *)
Bears(record) == record.kind # "timing" /\ (record.kind = "connection" => record.input # 0)

Forgeries ==
  {RemoveAt(log, i) : i \in {j \in DOMAIN log : Bears(log[j])}}
  \cup {InsertAt(log, i, log[i]) : i \in {j \in DOMAIN log : Bears(log[j])}}
  \cup {[log EXCEPT ![i].kind = IF @ = "dropped" THEN "delivered" ELSE "dropped"] :
          i \in At(log, {"delivered", "dropped"})}
  \cup {[log EXCEPT ![i] = log[i + 1], ![i + 1] = log[i]] :
          i \in {j \in 1..(Len(log) - 1) :
                   log[j].kind \in {"delivered", "dropped"}
                   /\ log[j + 1].kind \in {"delivered", "dropped", "cancelled"}}}

(* The verifiers agree with the backend that wrote the log: when a session  *)
(* has answered its requests and delivered its schedules, its log is        *)
(* evidence exactly when no request was rejected, and while a schedule is   *)
(* under way it is not.  A log of evidence with one record missing,         *)
(* doubled, turned or swapped, or with an action missing, is refused, and   *)
(* the origin of every acknowledged key is the time its input was logged.   *)
EvidenceIsExact ==
  native.action = NoAction =>
    /\ SessionVerified(log, recipe) <=> ~Active /\ ~native.refused
    /\ SessionVerified(log, recipe) =>
         /\ \A l \in Forgeries : ~SessionVerified(l, recipe)
         /\ \A k \in DOMAIN recipe :
              /\ recipe[k].action.type # "release_all" => ~SessionVerified(log, RemoveAt(recipe, k))
              /\ recipe[k].action.type \in {"key", "grid"} =>
                   Cardinality(Origin(log, recipe, k)) = 1
=============================================================================
