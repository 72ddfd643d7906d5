---------------------------- MODULE InputSession ----------------------------
(***************************************************************************)
(* The session server's input path: src/src/automation/server.py, with the *)
(* part of src/src/runtime/native.py that decides whether an input is      *)
(* accepted (query, check_processes, ack_timeout).                         *)
(*                                                                         *)
(* Threads.  HTTP handlers run apply_action under app.lock; POST /action   *)
(* handlers are also serialised by action_lock, so at most one of them is  *)
(* past its closed check at a time (act).  The lease watchdog and          *)
(* /client/disconnect run release_client under app.lock only.  Each native *)
(* control schedule has a worker thread.  close() runs under app.lock when *)
(* /stop calls it and without any lock when the main thread unwinds.       *)
(*                                                                         *)
(* A body that holds app.lock and is not interleaved with anything that    *)
(* matters is one action; a body that close() without the lock can overtake*)
(* (an admission, a delivery, close itself) is split, and "lock" says who  *)
(* holds app.lock between the pieces.                                      *)
(***************************************************************************)
EXTENDS Naturals, Sequences, FiniteSets

CONSTANTS
  Clients,       \* browser client identities that hold leases
  Automation,    \* the automation caller: an action without client_id
  Nobody,        \* no owner
  Keys,          \* norns keys K1..K3
  GridKeys,      \* pads of the virtual grid
  ArcKeys,       \* arc encoder keys; empty unless the session has an arc
  Kinds,         \* the kinds of action that callers use
  Plans,         \* the event lists a native_input_schedule may carry
  ClientLimit,   \* at most this many leases (8 in the code)
  MaxSchedules,  \* bound: schedules admitted in one behaviour
  Terminates     \* whether SIGTERM may end the session at any moment

Scheduled == Keys \cup GridKeys
Controls  == Scheduled \cup ArcKeys
Callers   == Clients \cup {Automation}
Events    == [input : Scheduled, on : BOOLEAN]
Ids       == 1 .. MaxSchedules
AllKinds  == {"transition", "release_all", "grid_connection", "arc_connection",
              "enc", "midi", "native_input_schedule"}

ASSUME ConstantsAssumption ==
  /\ Automation \notin Clients /\ Nobody \notin Callers
  /\ Keys \cap GridKeys = {} /\ Scheduled \cap ArcKeys = {}
  /\ Kinds \subseteq AllKinds
  /\ Plans \subseteq Seq(Events) \ {<<>>}
  /\ ClientLimit \in Nat \ {0}
  /\ MaxSchedules \in Nat
  /\ Terminates \in BOOLEAN

VARIABLES
  held,          \* backend.held: inputs the backend knows to be down
  gridOn, arcOn, \* grid_input.connected, arc_input.connected
  fault,         \* backend.errors is not empty, or a child process has died
  backend,       \* "open", "closing" (EOF sent) or "closed"
  owner,         \* input_owners
  lease,         \* clients: "absent", "fresh", or "lapsed" past the timeout
  act,           \* the /action request that holds action_lock
  sched,         \* every native control schedule admitted so far, by id
  latest,        \* last_native_input_schedule_id
  worker,        \* where the delivery thread of each schedule is
  cancel,        \* native_input_cancel
  lock,          \* who holds app.lock between two steps
  closed,        \* app.closed
  complete,      \* app.cleanup_complete
  watchdog,      \* "running", "dead" after an error, "stopped" by a closer
  closer         \* where close() is, for each thread that may run it

device   == <<held, gridOn, arcOn, fault>>
schedule == <<sched, latest, worker>>
closing  == <<backend, closed, complete, closer>>
vars     == <<device, backend, owner, lease, act, schedule, cancel, lock,
              closed, complete, watchdog, closer>>

Closers   == {"stop", "main"}
ClosePC   == {"idle", "flag", "check", "cancel", "backend", "closing", "done"}
WorkerPC  == {"none", "wait", "due", "cancelled", "query", "finish", "done"}
Statuses  == {"none", "accepted", "completed", "cancelled", "failed"}
(* "midi" stands for every action that neither holds inputs nor is blocked *)
(* by a schedule; "enc" for one that is blocked.                           *)
Transitions == [kind : {"transition"}, input : Controls, on : BOOLEAN]
Connections == [kind : {"grid_connection", "arc_connection"}, on : BOOLEAN]
Schedules   == [kind : {"native_input_schedule"}, plan : Plans]
Plain       == [kind : {"release_all", "enc", "midi"}]
Requests    == {req \in Transitions \cup Connections \cup Schedules \cup Plain :
                  req.kind \in Kinds}

Idle        == [phase |-> "idle"]
Waiting     == [phase : {"waiting"}, caller : Callers, expected : BOOLEAN,
                req : Requests]
Admitting   == [phase : {"admitting"}]

NoSchedule  == [status |-> "none", plan |-> <<>>, delivered |-> 0,
                journal |-> <<>>]
Submitted(plan) == [status |-> "accepted", plan |-> plan, delivered |-> 0,
                    journal |-> <<>>]

Init ==
  /\ held = {} /\ gridOn = TRUE /\ arcOn = (ArcKeys # {}) /\ fault = FALSE
  /\ backend = "open" /\ closed = FALSE /\ complete = FALSE
  /\ owner = [i \in Controls |-> Nobody]
  /\ lease = [c \in Clients |-> "absent"]
  /\ act = Idle
  /\ sched = [n \in Ids |-> NoSchedule] /\ latest = 0
  /\ worker = [n \in Ids |-> "none"]
  /\ cancel = FALSE /\ lock = "free" /\ watchdog = "running"
  /\ closer = [k \in Closers |-> "idle"]
-----------------------------------------------------------------------------
(* Shared predicates and effects.  A definition that is not used stands    *)
(* before the one it varies: it is the same step with a plausible mistake, *)
(* and the properties below tell the two apart.                            *)

Alive   == closer["main"] # "done"
Healthy == ~fault /\ backend = "open"
Busy    == latest > 0 /\ sched[latest].status = "accepted"

OwnedByAnyone(c) == {i \in Controls : owner[i] # Nobody}
Owned(c) == {i \in Controls : owner[i] = c}

DisownNothing(inputs) == UNCHANGED owner

Disown(inputs) ==
  owner' = [i \in Controls |-> IF i \in inputs THEN Nobody ELSE owner[i]]

HasRoom(c) ==
  lease[c] # "absent" \/ Cardinality({d \in Clients : lease[d] # "absent"})
                           < ClientLimit

Touch(c) == [lease EXCEPT ![c] = "fresh"]

ForgetNothing(c) == lease
Forget(c) == [lease EXCEPT ![c] = "absent"]

Overtaken == IF act.phase = "waiting" THEN [act EXCEPT !.expected = FALSE]
                                      ELSE act

(* The transitions of one input in a plan alternate, starting from the     *)
(* state the input has now: the held-set simulation of the admission.      *)
Alternates(plan, inputs, down) ==
  \A k \in DOMAIN plan : plan[k].input \in inputs =>
    /\ (\A j \in 1 .. k-1 : plan[j].input # plan[k].input)
         => plan[k].on = (plan[k].input \notin down)
    /\ \A j \in 1 .. k-1 :
         /\ plan[j].input = plan[k].input
         /\ \A m \in j+1 .. k-1 : plan[m].input # plan[k].input
         => plan[k].on # plan[j].on

(* Backend validation of one transition: GridInput.validate,               *)
(* ArcInput.validate, and the duplicate check of query for keys.           *)
Connected(i) == (i \in GridKeys => gridOn) /\ (i \in ArcKeys => arcOn)
Valid(i, on) == Connected(i) /\ on = (i \notin held)
-----------------------------------------------------------------------------
(* POST /action *)

(* A handler takes action_lock, sees the session open and may then sleep   *)
(* in wait_schedule until the action's deadline, before it takes app.lock. *)
(* expected says that the request still carries sequence+1: a              *)
(* release_client that overtakes it makes it stale, for good since the     *)
(* sequence only grows.  A request that was wrong from the start (another  *)
(* session, an old sequence, a used action id) is refused without a trace. *)
Request(who, req) ==
  /\ act = Idle /\ ~closed /\ Alive
  /\ act' = [phase |-> "waiting", caller |-> who, expected |-> TRUE,
             req |-> req]
  /\ UNCHANGED <<device, backend, owner, lease, schedule, cancel, lock,
                 closed, complete, watchdog, closer>>

Serving == act.phase = "waiting" /\ lock = "free" /\ Alive
FromClient == act.caller \in Clients

BlockedStateless(req) == req.kind \in {"enc", "release_all"}
Blocked(req) == \/ req.kind \in {"enc", "release_all"}
                \/ req.kind = "transition" /\ req.input \in Scheduled

(* Refusals that come before the heartbeat of the calling client. *)
RefusedEarly ==
  \/ ~act.expected
  \/ act.req.kind = "native_input_schedule"
  \/ Busy /\ Blocked(act.req)
  \/ FromClient /\ ~HasRoom(act.caller)

RejectEarly ==
  /\ Serving /\ RefusedEarly
  /\ act' = Idle
  /\ UNCHANGED <<device, backend, owner, lease, schedule, cancel, lock,
                 closed, complete, watchdog, closer>>

(* An immediate action past those refusals has renewed the caller's lease, *)
(* whatever happens to it next.                                            *)
Immediate ==
  /\ Serving
  /\ act.req.kind # "native_input_schedule" /\ ~RefusedEarly
  /\ lease' = IF FromClient THEN Touch(act.caller) ELSE lease
  /\ act' = Idle
  /\ UNCHANGED <<backend, schedule, cancel, lock, closed, complete, watchdog,
                 closer>>

ForeignRelease ==
  /\ act.req.kind = "transition" /\ ~act.req.on /\ FromClient
  /\ owner[act.req.input] # act.caller

(* The inputs the request makes the backend release, one query for each.   *)
ToRelease ==
  CASE act.req.kind = "release_all" /\ FromClient  -> Owned(act.caller)
    [] act.req.kind = "release_all" /\ ~FromClient -> held
    [] act.req.kind = "grid_connection" /\ ~act.req.on -> held \cap GridKeys
    [] act.req.kind = "arc_connection" /\ ~act.req.on  -> held \cap ArcKeys
    [] OTHER -> {}

ArcRefusesNoChange == act.req.on = arcOn
ArcRefuses == ArcKeys = {} \/ act.req.on = arcOn

(* Refusals by check_processes and by the backend's own validation. *)
RefusedLate ==
  \/ ForeignRelease
  \/ ~Healthy
  \/ act.req.kind = "transition" /\ ~Valid(act.req.input, act.req.on)
  \/ act.req.kind = "grid_connection" /\ act.req.on = gridOn
  \/ act.req.kind = "arc_connection" /\ ArcRefuses
  \/ ~(ToRelease \subseteq held)

RejectLate ==
  /\ Immediate /\ RefusedLate
  /\ UNCHANGED <<device, owner>>

ApplyTransition ==
  /\ Immediate /\ act.req.kind = "transition" /\ ~RefusedLate
  /\ held' = IF act.req.on THEN held \cup {act.req.input}
                           ELSE held \ {act.req.input}
  /\ owner' = [owner EXCEPT ![act.req.input] =
                 IF act.req.on THEN act.caller ELSE Nobody]
  /\ UNCHANGED <<gridOn, arcOn, fault>>

ApplyReleaseAll ==
  /\ Immediate /\ act.req.kind = "release_all" /\ ~RefusedLate
  /\ held' = held \ ToRelease
  /\ Disown(IF FromClient THEN ToRelease ELSE Controls)
  /\ UNCHANGED <<gridOn, arcOn, fault>>

ApplyGridConnection ==
  /\ Immediate /\ act.req.kind = "grid_connection" /\ ~RefusedLate
  /\ held' = held \ ToRelease
  /\ Disown(IF act.req.on THEN {} ELSE GridKeys)
  /\ gridOn' = act.req.on
  /\ UNCHANGED <<arcOn, fault>>

ApplyArcConnection ==
  /\ Immediate /\ act.req.kind = "arc_connection" /\ ~RefusedLate
  /\ held' = held \ ToRelease
  /\ Disown(IF act.req.on THEN {} ELSE ArcKeys)
  /\ arcOn' = act.req.on
  /\ UNCHANGED <<gridOn, fault>>

ApplyStateless ==
  /\ Immediate /\ act.req.kind \in {"enc", "midi"} /\ ~RefusedLate
  /\ UNCHANGED <<device, owner>>

(* One of the queries misses its deadline.  Those before it took effect,   *)
(* the error is sticky, and only a client's release_all has already given  *)
(* up the ownership of what it released.                                   *)
ActionTimesOut ==
  /\ Immediate /\ ~RefusedLate
  /\ \E done \in SUBSET ToRelease :
       /\ act.req.kind = "release_all" => done # ToRelease
       /\ held' = held \ done
       /\ Disown(IF act.req.kind = "release_all" /\ FromClient
                 THEN done ELSE {})
  /\ fault' = TRUE
  /\ UNCHANGED <<gridOn, arcOn>>
-----------------------------------------------------------------------------
(* Native control schedules *)

Deliverable ==
  /\ \A k \in DOMAIN act.req.plan :
       act.req.plan[k].input \in GridKeys => gridOn
  /\ Alternates(act.req.plan, Scheduled, held)

AdmissibleDespiteOwners ==
  act.expected /\ ~FromClient /\ Healthy /\ ~Busy /\ Deliverable

Admissible ==
  /\ act.expected /\ ~FromClient /\ Healthy
  /\ \A i \in Controls : owner[i] = Nobody
  /\ ~Busy
  /\ Deliverable

(* start_native_input_schedule installs the record, clears the cancel      *)
(* event and starts the thread; closed is not tested again.                *)
AdmitSchedule ==
  /\ Serving /\ act.req.kind = "native_input_schedule" /\ Admissible
  /\ latest < MaxSchedules
  /\ latest' = latest + 1
  /\ sched' = [sched EXCEPT ![latest + 1] = Submitted(act.req.plan)]
  /\ worker' = [worker EXCEPT ![latest + 1] = "wait"]
  /\ cancel' = FALSE /\ lock' = "action" /\ act' = [phase |-> "admitting"]
  /\ UNCHANGED <<device, backend, owner, lease, closed, complete, watchdog,
                 closer>>

(* What the threads make of a schedule record and of its journal. *)
Logged(s, kind) == [s EXCEPT !.journal = Append(@, kind)]
Marked(s, kind) == [s EXCEPT !.status = IF @ = "accepted" THEN kind ELSE @]
Ended(s, kind)  == [Logged(s, kind) EXCEPT !.status = kind]

FailedUnmarked(s) == Logged(s, "failed")
Failed(s)         == Ended(s, "failed")
CancelledUnlogged(s) == [s EXCEPT !.status = "cancelled"]
Cancelled(s)         == Ended(s, "cancelled")
Completed(s)       == Logged(Marked(s, "completed"), "completed")

RecordAdmission ==
  /\ act.phase = "admitting" /\ Alive
  /\ sched' = [sched EXCEPT ![latest] = Logged(@, "accepted")]
  /\ act' = Idle /\ lock' = "free"
  /\ UNCHANGED <<device, backend, owner, lease, latest, worker, cancel,
                 closed, complete, watchdog, closer>>

Go(n, from, to) ==
  /\ worker[n] = from /\ Alive
  /\ worker' = [worker EXCEPT ![n] = to]

OnlyWorker ==
  /\ UNCHANGED <<gridOn, arcOn, backend, owner, lease, act, latest, cancel,
                 closed, complete, watchdog, closer>>

(* native_input_cancel.wait(delay) returns False at the deadline ... *)
WorkerDue(n) ==
  /\ Go(n, "wait", "due") /\ ~cancel
  /\ OnlyWorker /\ UNCHANGED <<held, fault, sched, lock>>

(* ... and True once the event is set. *)
WorkerCancelled(n) ==
  /\ Go(n, "wait", "cancelled") /\ cancel
  /\ OnlyWorker /\ UNCHANGED <<held, fault, sched, lock>>

(* Under app.lock the worker gives up without writing a record. *)
WorkerGivesUp(n) ==
  /\ \/ Go(n, "cancelled", "done")
     \/ Go(n, "due", "done") /\ closed
  /\ lock = "free"
  /\ sched' = [sched EXCEPT ![n] = Marked(@, "cancelled")]
  /\ OnlyWorker /\ UNCHANGED <<held, fault, lock>>

WorkerSubmitsAfterClose(n) ==
  /\ Go(n, "due", "query")
  /\ lock = "free" /\ lock' = "worker"
  /\ OnlyWorker /\ UNCHANGED <<held, fault, sched>>

WorkerSubmits(n) ==
  /\ Go(n, "due", "query") /\ ~closed
  /\ lock = "free" /\ lock' = "worker"
  /\ OnlyWorker /\ UNCHANGED <<held, fault, sched>>

NextEvent(n) == sched[n].plan[sched[n].delivered + 1]

WorkerDelivers(n) ==
  /\ worker[n] = "query" /\ ~fault /\ backend # "closed"
  /\ Valid(NextEvent(n).input, NextEvent(n).on)
  /\ Go(n, "query", IF sched[n].delivered + 1 = Len(sched[n].plan)
                    THEN "finish" ELSE "wait")
  /\ held' = IF NextEvent(n).on THEN held \cup {NextEvent(n).input}
                                ELSE held \ {NextEvent(n).input}
  /\ sched' = [sched EXCEPT ![n].delivered = @ + 1]
  /\ lock' = "free"
  /\ OnlyWorker /\ UNCHANGED fault

FailureGoesOn(n) == Go(n, "query", "finish")
FailureReturns(n) == Go(n, "query", "done")

(* A ContractError: the backend refuses the transition or is not healthy,  *)
(* or the acknowledgement times out, which is sticky.                      *)
WorkerFails(n) ==
  /\ FailureReturns(n)
  /\ \/ /\ ~Healthy \/ ~Valid(NextEvent(n).input, NextEvent(n).on)
        /\ UNCHANGED fault
     \/ /\ ~fault /\ Valid(NextEvent(n).input, NextEvent(n).on)
        /\ fault' = TRUE
  /\ sched' = [sched EXCEPT ![n] = Failed(@)]
  /\ lock' = "free"
  /\ OnlyWorker /\ UNCHANGED held

(* Any other exception, as from a socket that close() has shut, ends the   *)
(* thread.                                                                 *)
WorkerDies(n) ==
  /\ Go(n, "query", "done") /\ backend # "open"
  /\ lock' = "free"
  /\ OnlyWorker /\ UNCHANGED <<held, fault, sched>>

WorkerCompletes(n) ==
  /\ Go(n, "finish", "done") /\ lock = "free"
  /\ sched' = [sched EXCEPT ![n] = Completed(@)]
  /\ OnlyWorker /\ UNCHANGED <<held, fault, lock>>
-----------------------------------------------------------------------------
(* Browser leases *)

LeaseOnly == UNCHANGED <<device, backend, owner, act, schedule, cancel, lock,
                         closed, complete, watchdog, closer>>

(* POST /client/heartbeat never waits for app.lock. *)
Heartbeat(c) ==
  /\ ~closed /\ Alive /\ HasRoom(c)
  /\ lease' = Touch(c)
  /\ LeaseOnly

LeaseLapses(c) ==
  /\ lease[c] = "fresh" /\ Alive
  /\ lease' = [lease EXCEPT ![c] = "lapsed"]
  /\ LeaseOnly

(* release_client: an internal release_all on behalf of the client, after  *)
(* which its lease is gone whether or not the release succeeded.           *)
ReleaseSucceeds(c) ==
  /\ ~Busy /\ Healthy /\ Owned(c) \subseteq held
  /\ held' = held \ Owned(c)
  /\ Disown(Owned(c))
  /\ lease' = Forget(c)
  /\ act' = Overtaken
  /\ UNCHANGED fault

ReleaseFails(c) ==
  /\ lease' = Forget(c)
  /\ act' = act
  /\ \/ /\ Busy \/ ~Healthy \/ ~(Owned(c) \subseteq held)
        /\ UNCHANGED <<held, owner, fault>>
     \/ /\ ~Busy /\ Healthy
        /\ \E done \in SUBSET Owned(c) \ {Owned(c)} :
             held' = held \ done /\ Disown(done)
        /\ fault' = TRUE

ReleaseFrame == UNCHANGED <<gridOn, arcOn, backend, schedule, cancel, lock,
                            closed, complete, closer>>

Disconnect(c) ==
  /\ ~closed /\ Alive /\ lock = "free" /\ HasRoom(c)
  /\ ReleaseSucceeds(c) \/ ReleaseFails(c)
  /\ ReleaseFrame /\ UNCHANGED watchdog

(* One client of a watchdog tick.  An error is recorded and ends the       *)
(* watchdog thread.                                                        *)
Expire(c) ==
  /\ watchdog = "running" /\ Alive /\ lock = "free" /\ lease[c] = "lapsed"
  /\ \/ ReleaseSucceeds(c) /\ UNCHANGED watchdog
     \/ ReleaseFails(c) /\ watchdog' = "dead"
  /\ ReleaseFrame
-----------------------------------------------------------------------------
(* Faults and shutdown *)

(* A Lua error, a transport error or a dead child process. *)
NativeFault ==
  /\ ~fault /\ Alive
  /\ fault' = TRUE
  /\ UNCHANGED <<held, gridOn, arcOn, backend, owner, lease, act, schedule,
                 cancel, lock, closed, complete, watchdog, closer>>

CloserAt(k, from, to) ==
  /\ closer[k] = from /\ Alive
  /\ closer' = [closer EXCEPT ![k] = to]

CloseFrame == UNCHANGED <<device, owner, lease, act, latest, worker>>

(* The handler of /stop, under app.lock from here to the end of close(). *)
Stop ==
  /\ CloserAt("stop", "idle", "flag") /\ lock = "free"
  /\ lock' = "stop" /\ watchdog' = "stopped"
  /\ CloseFrame /\ UNCHANGED <<backend, sched, cancel, closed, complete>>

(* The main thread unwinds: on SIGTERM at any moment, or because /stop has *)
(* shut the HTTP server down.  It holds no lock.                           *)
Unwind ==
  /\ CloserAt("main", "idle", "flag")
  /\ Terminates \/ closer["stop"] = "done"
  /\ watchdog' = "stopped"
  /\ CloseFrame /\ UNCHANGED <<backend, sched, cancel, lock, closed, complete>>

(* Leaving close(): /stop releases app.lock, and its server keeps serving  *)
(* for another attempt unless every writer has stopped.                    *)
Leave(k) == lock' = IF k = "stop" THEN "free" ELSE lock

AlreadyClosed(k) ==
  /\ CloserAt(k, "flag", "done") /\ complete
  /\ Leave(k)
  /\ CloseFrame
  /\ UNCHANGED <<backend, sched, cancel, closed, complete, watchdog>>

CloseFlag(k) ==
  /\ CloserAt(k, "flag", "check") /\ ~complete
  /\ closed' = TRUE /\ cancel' = TRUE
  /\ CloseFrame /\ UNCHANGED <<backend, sched, lock, complete, watchdog>>

CloseCheckAfterJoin(k) ==
  /\ CloserAt(k, "check", IF Busy THEN "cancel" ELSE "backend")
  /\ \A n \in Ids : worker[n] \in {"none", "done"}
  /\ CloseFrame
  /\ UNCHANGED <<backend, sched, cancel, lock, closed, complete, watchdog>>

CloseCheck(k) ==
  /\ CloserAt(k, "check", IF Busy THEN "cancel" ELSE "backend")
  /\ CloseFrame
  /\ UNCHANGED <<backend, sched, cancel, lock, closed, complete, watchdog>>

CloseCancels(k) ==
  /\ CloserAt(k, "cancel", "backend")
  /\ sched' = [sched EXCEPT ![latest] = Cancelled(@)]
  /\ CloseFrame
  /\ UNCHANGED <<backend, cancel, lock, closed, complete, watchdog>>

(* backend.close sends EOF, waits for the processes and reaps them. *)
CloseBackend(k) ==
  /\ CloserAt(k, "backend", "closing")
  /\ backend' = IF backend = "open" THEN "closing" ELSE backend
  /\ CloseFrame /\ UNCHANGED <<sched, cancel, lock, closed, complete, watchdog>>

CloseEnds(k) ==
  /\ CloserAt(k, "closing", "done")
  /\ backend' = "closed" /\ complete' = TRUE
  /\ Leave(k)
  /\ CloseFrame /\ UNCHANGED <<sched, cancel, closed, watchdog>>

(* A closer failed: cleanup_failed. *)
CloseFails(k) ==
  /\ \/ CloserAt(k, "closing", "done") /\ backend' = "closed"
     \/ CloserAt(k, "closing", IF k = "stop" THEN "idle" ELSE "done")
        /\ UNCHANGED backend
  /\ Leave(k)
  /\ CloseFrame /\ UNCHANGED <<sched, cancel, closed, complete, watchdog>>

(* The process has exited; nothing is left to happen. *)
Exited == ~Alive /\ UNCHANGED vars
-----------------------------------------------------------------------------
ActionStep ==
  \/ RejectEarly \/ RejectLate \/ ApplyTransition \/ ApplyReleaseAll
  \/ ApplyGridConnection \/ ApplyArcConnection \/ ApplyStateless
  \/ ActionTimesOut \/ AdmitSchedule \/ RecordAdmission

WorkerStep(n) ==
  \/ WorkerDue(n) \/ WorkerCancelled(n) \/ WorkerGivesUp(n)
  \/ WorkerSubmits(n) \/ WorkerDelivers(n) \/ WorkerFails(n)
  \/ WorkerDies(n) \/ WorkerCompletes(n)

CloseStep(k) ==
  \/ AlreadyClosed(k) \/ CloseFlag(k) \/ CloseCheck(k) \/ CloseCancels(k)
  \/ CloseBackend(k) \/ CloseEnds(k) \/ CloseFails(k)

Next ==
  \/ \E who \in Callers, req \in Requests : Request(who, req)
  \/ ActionStep
  \/ \E n \in Ids : WorkerStep(n)
  \/ \E c \in Clients : Heartbeat(c) \/ LeaseLapses(c) \/ Disconnect(c)
                          \/ Expire(c)
  \/ NativeFault \/ Stop \/ Unwind
  \/ \E k \in Closers : CloseStep(k)
  \/ Exited

Spec == Init /\ [][Next]_vars

(* Threads that are running keep running: a handler past its closed check, *)
(* every delivery thread, the watchdog and a close() under way.  Requests, *)
(* heartbeats, faults, /stop and SIGTERM are the environment's; the main   *)
(* thread does unwind once the server has been shut down.                  *)
Fairness ==
  /\ WF_vars(ActionStep)
  /\ \A n \in Ids : WF_vars(WorkerStep(n))
  /\ \A c \in Clients : WF_vars(Expire(c))
  /\ \A k \in Closers : WF_vars(CloseStep(k))
  /\ WF_vars(Unwind /\ closer["stop"] = "done")

FairSpec == Spec /\ Fairness
-----------------------------------------------------------------------------
(* Properties *)

DeviceOK ==
  /\ held \subseteq Controls
  /\ gridOn \in BOOLEAN /\ arcOn \in BOOLEAN /\ (arcOn => ArcKeys # {})
  /\ fault \in BOOLEAN /\ backend \in {"open", "closing", "closed"}

CallersOK ==
  /\ owner \in [Controls -> Callers \cup {Nobody}]
  /\ lease \in [Clients -> {"absent", "fresh", "lapsed"}]
  /\ act \in {Idle} \cup Waiting \cup Admitting

Records == [status : Statuses, plan : Plans \cup {<<>>}, delivered : Nat,
            journal : Seq(Statuses)]

SchedulesOK ==
  /\ latest \in 0 .. MaxSchedules
  /\ sched \in [Ids -> Records]
  /\ worker \in [Ids -> WorkerPC]

SessionOK ==
  /\ cancel \in BOOLEAN /\ closed \in BOOLEAN /\ complete \in BOOLEAN
  /\ lock \in {"free", "action", "worker", "stop"}
  /\ watchdog \in {"running", "dead", "stopped"}
  /\ closer \in [Closers -> ClosePC]

(* The values the variables take; the arc is on only where there is one. *)
TypeOK == DeviceOK /\ CallersOK /\ SchedulesOK /\ SessionOK

(* What the server records as owned is down in the backend: as long as the *)
(* session is healthy, input_owners never names an input that a disconnect,*)
(* a release_all, a schedule or another caller has already released.       *)
(* Otherwise the release of a leaving client fails on a duplicate          *)
(* transition and leaves its other inputs down.                            *)
OwnedInputsAreHeld ==
  Healthy => \A i \in Controls : owner[i] # Nobody => i \in held

(* An input owned by a browser can be given back: its owner still has a    *)
(* lease, so that the watchdog or a disconnect will release it.  (Only     *)
(* where ArcKeys = {}: a schedule does not keep browsers from taking arc   *)
(* keys, and yet refuses the release of a client that leaves.)             *)
OwnedInputHasLease ==
  Healthy => \A c \in Clients : Owned(c) # {} => lease[c] # "absent"

Remaining(n) ==
  SubSeq(sched[n].plan, sched[n].delivered + 1, Len(sched[n].plan))

(* The held-set simulation of the admission stays true until the end: no   *)
(* interleaved request makes a planned key transition a duplicate.  (A pad *)
(* has no such promise: grid_connection is not blocked by a schedule.)     *)
PlannedKeysStayLegal ==
  \A n \in Ids : sched[n].status = "accepted"
    => Alternates(Remaining(n), Keys, held)

(* A native control schedule excludes what its events may touch: while one *)
(* is accepted nobody owns a key or a pad.                                 *)
ScheduleExcludesOwners ==
  Busy => \A i \in Scheduled : owner[i] = Nobody

(* While the session is open the journal of a schedule is its admission    *)
(* and, once it has ended, exactly one record, of the status it ended in.  *)
JournalIsExactWhileOpen ==
  ~closed => \A n \in 1 .. latest :
    LET s == sched[n] IN
    IF s.status = "accepted" THEN s.journal \in {<<>>, <<"accepted">>}
                             ELSE s.journal = <<"accepted", s.status>>

(* "Shutdown records an explicit cancelled terminal schedule record before *)
(* closing the native backend": grid-contract.md.                          *)
ShutdownRecordsCancellation ==
  backend # "open" => \A n \in Ids : sched[n].status = "cancelled"
    => \E r \in DOMAIN sched[n].journal : sched[n].journal[r] = "cancelled"

(* The last terminal record of a schedule names the status it ended in:    *)
(* what tests/grid_native.py reads from the journal after a shutdown.      *)
LastRecordIsStatus ==
  \A n \in Ids : LET s == sched[n] IN
    Len(s.journal) >= 2 => s.journal[Len(s.journal)] = s.status

(* Releasing one client, by disconnection or by lease expiry, leaves what  *)
(* every other caller holds alone: in the server and in the backend.       *)
ReleaseKeepsForeignInputs ==
  [][\A c \in Clients : Disconnect(c) \/ Expire(c) =>
       \A i \in Controls : owner[i] \notin {c, Nobody} =>
         owner'[i] = owner[i] /\ (i \in held => i \in held')]_vars

(* Once close() has begun no input reaches the device any more: not from a *)
(* request that slept through the shutdown, not from a delivery thread.    *)
ClosedSessionTakesNoInput ==
  [][closed => held' = held]_vars

(* An accepted schedule ends, and a close() under way ends: the worker and *)
(* the closer wait for app.lock but never for each other.                  *)
ScheduleEnds ==
  \A n \in Ids : sched[n].status = "accepted"
    ~> (sched[n].status # "accepted" \/ ~Alive)

CloseEndsEventually ==
  \A k \in Closers : closer[k] = "flag" ~> (closer[k] \in {"idle", "done"} \/ ~Alive)

(* "A disconnected browser's lease expires after 2.5 seconds":             *)
(* browser-contract.md.  A lapsed lease is renewed or released, unless the *)
(* session is no longer healthy or is shutting down.                       *)
LapsedLeaseIsReleased ==
  \A c \in Clients : lease[c] = "lapsed"
    ~> (lease[c] # "lapsed" \/ ~Healthy \/ watchdog = "stopped")

(* The same promise in sessions that never use a native control schedule.  *)
LapsedLeaseIsReleasedUnscheduled ==
  \A c \in Clients : lease[c] = "lapsed"
    ~> (lease[c] # "lapsed" \/ ~Healthy \/ watchdog = "stopped" \/ latest > 0)
=============================================================================
