-------------------------- MODULE InputSessionProofs --------------------------
(***************************************************************************)
(* What holds of InputSession for any number of clients, inputs, plans and *)
(* schedules, and whether or not SIGTERM may come.                         *)
(*                                                                         *)
(* OwnedInputsAreHeld is not inductive: a delivery thread changes held     *)
(* without looking at input_owners.  It may, because nobody owns a key or  *)
(* a pad from the admission of a schedule until its last query returns;    *)
(* and that holds because the thread queries under app.lock and stops once *)
(* the session is closed.  IInv says so.                                   *)
(***************************************************************************)
EXTENDS InputSession, SequenceTheorems, TLAPS

(* app.lock is held by whoever is in the middle of a split body. *)
LockHolders ==
  /\ act.phase = "admitting" => lock = "action"
  /\ closer["stop"] \notin {"idle", "done"} => lock = "stop"
  /\ \A n \in Ids : worker[n] = "query" => lock = "worker"
  /\ \A m, n \in Ids : worker[m] = "query" /\ worker[n] = "query" => m = n

(* A thread that still delivers has an event to deliver, and its schedule  *)
(* is active as long as the session is open.                               *)
Delivering ==
  \A n \in Ids : worker[n] \in {"wait", "due", "query"} =>
    /\ sched[n].plan \in Plans /\ sched[n].delivered < Len(sched[n].plan)
    /\ ~closed => sched[n].status = "accepted"

(* Only the latest schedule can be active. *)
OnlyLatestActive ==
  \A n \in Ids : sched[n].status = "accepted" => n = latest

(* close() is past its first assignment. *)
ClosersClosed ==
  \A k \in Closers :
    closer[k] \in {"check", "cancel", "backend", "closing"} => closed

(* Nobody owns what a delivery under way may touch. *)
QueryExcludesOwners ==
  (\E n \in Ids : worker[n] = "query")
    => \A i \in Scheduled : owner[i] = Nobody

IInv == /\ TypeOK /\ LockHolders /\ Delivering /\ OnlyLatestActive
        /\ ClosersClosed /\ ScheduleExcludesOwners /\ QueryExcludesOwners
        /\ OwnedInputsAreHeld
-----------------------------------------------------------------------------
LEMMA InitIInv == Init => IInv
  <1> SUFFICES ASSUME Init PROVE IInv
    OBVIOUS
  <1>1. TypeOK
    <2>1. DeviceOK
      BY DEF Init, DeviceOK
    <2>2. CallersOK
      BY DEF Init, CallersOK
    <2>3. NoSchedule \in Records
      BY DEF NoSchedule, Records, Statuses
    <2>4. SchedulesOK
      BY <2>3, ConstantsAssumption DEF Init, SchedulesOK, WorkerPC
    <2>5. SessionOK
      BY DEF Init, SessionOK, ClosePC
    <2>6. QED
      BY <2>1, <2>2, <2>4, <2>5 DEF TypeOK
  <1>2. LockHolders /\ Delivering /\ OnlyLatestActive /\ ClosersClosed
    BY DEF Init, LockHolders, Delivering, OnlyLatestActive, ClosersClosed,
       Idle, NoSchedule, Closers
  <1>3. ScheduleExcludesOwners /\ QueryExcludesOwners /\ OwnedInputsAreHeld
    BY DEF Init, ScheduleExcludesOwners, QueryExcludesOwners, Controls,
       OwnedInputsAreHeld, NoSchedule
  <1>4. QED
    BY <1>1, <1>2, <1>3 DEF IInv

-----------------------------------------------------------------------------
(* Facts about requests, and the frames that actions share. *)

LEMMA ServingType ==
  ASSUME CallersOK, Serving
  PROVE  /\ act \in Waiting /\ act.caller \in Callers /\ act.req \in Requests
  BY DEF CallersOK, Serving, Idle, Waiting, Admitting

LEMMA RequestShape ==
  ASSUME NEW req \in Requests
  PROVE  /\ req.kind = "transition"
              => req.input \in Controls /\ req.on \in BOOLEAN
         /\ req.kind \in {"grid_connection", "arc_connection"}
              => req.on \in BOOLEAN
         /\ req.kind = "native_input_schedule" => req.plan \in Plans
  BY DEF Requests, Transitions, Connections, Schedules, Plain

LEMMA DisownType ==
  ASSUME NEW inputs, CallersOK, Disown(inputs)
  PROVE  owner' \in [Controls -> Callers \cup {Nobody}]
  BY DEF CallersOK, Disown

LEMMA ImmediateFrame ==
  ASSUME TypeOK, Immediate
  PROVE  /\ SchedulesOK' /\ SessionOK' /\ backend' = backend
         /\ lease' \in [Clients -> {"absent", "fresh", "lapsed"}]
         /\ act' \in {Idle} \cup Waiting \cup Admitting
  <1>1. SchedulesOK' /\ SessionOK' /\ backend' = backend
    BY DEF TypeOK, Immediate, SchedulesOK, SessionOK, schedule
  <1>2. lease' \in [Clients -> {"absent", "fresh", "lapsed"}]
    BY DEF TypeOK, CallersOK, Immediate, Touch, FromClient
  <1>3. QED
    BY <1>1, <1>2 DEF Immediate

LEMMA ImmediateType ==
  ASSUME TypeOK, Immediate,
         held' \subseteq Controls, gridOn' \in BOOLEAN, arcOn' \in BOOLEAN,
         arcOn' => ArcKeys # {}, fault' \in BOOLEAN,
         owner' \in [Controls -> Callers \cup {Nobody}]
  PROVE  TypeOK'
  BY ImmediateFrame DEF TypeOK, DeviceOK, CallersOK

LEMMA RecordTypes ==
  ASSUME NEW s \in Records
  PROVE  /\ Logged(s, "accepted") \in Records
         /\ Marked(s, "cancelled") \in Records
         /\ Completed(s) \in Records
         /\ Failed(s) \in Records
         /\ Cancelled(s) \in Records
  <1>1. ASSUME NEW r \in Records, NEW k \in Statuses
        PROVE  Logged(r, k) \in Records /\ Marked(r, k) \in Records
               /\ Ended(r, k) \in Records
    <2>1. /\ r.status \in Statuses /\ r.plan \in Plans \cup {<<>>}
          /\ r.delivered \in Nat /\ r.journal \in Seq(Statuses)
      BY DEF Records
    <2>2. Append(r.journal, k) \in Seq(Statuses)
      BY <2>1
    <2>3. Logged(r, k) \in Records
      BY <2>2 DEF Logged, Records
    <2>4. Marked(r, k) \in Records
      BY <2>1 DEF Marked, Records
    <2>5. Ended(r, k) \in Records
      BY <2>3 DEF Ended, Records
    <2>6. QED
      BY <2>3, <2>4, <2>5
  <1>2. QED
    BY <1>1 DEF Completed, Failed, Cancelled, Statuses

LEMMA CountedType ==
  ASSUME NEW s \in Records
  PROVE  [s EXCEPT !.delivered = @ + 1] \in Records
  <1>1. /\ s.status \in Statuses /\ s.plan \in Plans \cup {<<>>}
        /\ s.delivered + 1 \in Nat /\ s.journal \in Seq(Statuses)
    BY DEF Records
  <1>2. /\ s = [status |-> s.status, plan |-> s.plan,
                delivered |-> s.delivered, journal |-> s.journal]
    BY DEF Records
  <1>3. [s EXCEPT !.delivered = @ + 1] =
          [status |-> s.status, plan |-> s.plan,
           delivered |-> s.delivered + 1, journal |-> s.journal]
    BY <1>2
  <1>4. QED
    BY <1>1, <1>3 DEF Records

LEMMA ActionTypeStep ==
  ASSUME TypeOK, ActionStep PROVE TypeOK'
  <1> USE DEF TypeOK
  <1>1. CASE RejectEarly
    BY <1>1 DEF RejectEarly, DeviceOK, CallersOK, SchedulesOK, SessionOK,
       device, schedule
  <1>2. CASE RejectLate
    BY <1>2, ImmediateType DEF RejectLate, DeviceOK, CallersOK, device
  <1>3. CASE ApplyTransition
    <2>1. Immediate /\ Serving /\ act.req.kind = "transition"
      BY <1>3 DEF ApplyTransition, Immediate
    <2>2. act.req.input \in Controls /\ act.caller \in Callers
      BY <2>1, ServingType, RequestShape
    <2>3. QED
      BY <1>3, <2>1, <2>2, ImmediateType DEF ApplyTransition, DeviceOK,
         CallersOK
  <1>4. CASE ApplyReleaseAll
    BY <1>4, ImmediateType, DisownType DEF ApplyReleaseAll, DeviceOK
  <1>5. CASE ApplyGridConnection
    <2>1. Immediate /\ Serving /\ act.req.kind = "grid_connection"
      BY <1>5 DEF ApplyGridConnection, Immediate
    <2>2. act.req.on \in BOOLEAN
      BY <2>1, ServingType, RequestShape
    <2>3. QED
      BY <1>5, <2>1, <2>2, ImmediateType, DisownType DEF ApplyGridConnection,
         DeviceOK
  <1>6. CASE ApplyArcConnection
    <2>1. Immediate /\ Serving /\ act.req.kind = "arc_connection"
      BY <1>6 DEF ApplyArcConnection, Immediate
    <2>2. act.req.on \in BOOLEAN /\ ArcKeys # {}
      BY <1>6, <2>1, ServingType, RequestShape DEF ApplyArcConnection,
         RefusedLate, ArcRefuses
    <2>3. QED
      BY <1>6, <2>1, <2>2, ImmediateType, DisownType DEF ApplyArcConnection,
         DeviceOK
  <1>7. CASE ApplyStateless
    BY <1>7, ImmediateType DEF ApplyStateless, DeviceOK, CallersOK, device
  <1>8. CASE ActionTimesOut
    BY <1>8, ImmediateType, DisownType DEF ActionTimesOut, DeviceOK
  <1>9. CASE AdmitSchedule
    <2>1. Serving /\ act.req.plan \in Plans
      BY <1>9, ServingType, RequestShape DEF AdmitSchedule
    <2>2. Submitted(act.req.plan) \in Records
      BY <2>1 DEF Submitted, Records, Statuses
    <2>3. latest' \in 0 .. MaxSchedules
      BY <1>9, ConstantsAssumption DEF AdmitSchedule, SchedulesOK
    <2>4. SchedulesOK'
      <3>1. sched' \in [Ids -> Records]
        BY <1>9, <2>2 DEF AdmitSchedule, SchedulesOK
      <3>2. worker' \in [Ids -> WorkerPC]
        BY <1>9 DEF AdmitSchedule, SchedulesOK, WorkerPC
      <3>3. QED
        BY <2>3, <3>1, <3>2 DEF SchedulesOK
    <2>5. CallersOK'
      BY <1>9 DEF AdmitSchedule, CallersOK, Admitting
    <2>6. QED
      BY <1>9, <2>4, <2>5 DEF AdmitSchedule, DeviceOK, SessionOK, device
  <1>10. CASE RecordAdmission
    <2>1. SchedulesOK'
      BY <1>10, RecordTypes DEF RecordAdmission, SchedulesOK
    <2>2. QED
      BY <1>10, <2>1 DEF RecordAdmission, DeviceOK, CallersOK, SessionOK,
         device
  <1>11. QED
    BY <1>1, <1>2, <1>3, <1>4, <1>5, <1>6, <1>7, <1>8, <1>9, <1>10
       DEF ActionStep

LEMMA GoType ==
  ASSUME NEW n \in Ids, NEW from, NEW to \in WorkerPC, SchedulesOK,
         Go(n, from, to)
  PROVE  worker' \in [Ids -> WorkerPC] /\ worker[n] = from /\ worker'[n] = to
         /\ \A m \in Ids \ {n} : worker'[m] = worker[m]
  BY DEF SchedulesOK, Go

LEMMA NextEventType ==
  ASSUME NEW n \in Ids, TypeOK, Delivering, worker[n] = "query"
  PROVE  NextEvent(n) \in Events
  <1>1. /\ sched[n].plan \in Seq(Events) /\ sched[n].delivered \in Nat
        /\ sched[n].delivered < Len(sched[n].plan)
    BY ConstantsAssumption DEF Delivering, TypeOK, SchedulesOK, Records
  <1>2. QED
    BY <1>1 DEF NextEvent

(* What every step of a delivery thread leaves alone. *)
LEMMA OnlyWorkerType ==
  ASSUME TypeOK, OnlyWorker, held' \subseteq Controls, fault' \in BOOLEAN,
         sched' \in [Ids -> Records], worker' \in [Ids -> WorkerPC],
         lock' \in {"free", "action", "worker", "stop"}
  PROVE  TypeOK'
  BY DEF TypeOK, OnlyWorker, DeviceOK, CallersOK, SchedulesOK, SessionOK

LEMMA WorkerTypeStep ==
  ASSUME TypeOK, Delivering, NEW n \in Ids, WorkerStep(n) PROVE TypeOK'
  <1> USE DEF WorkerPC
  <1>1. held \subseteq Controls /\ fault \in BOOLEAN /\ SchedulesOK
        /\ sched \in [Ids -> Records]
        /\ lock \in {"free", "action", "worker", "stop"}
    BY DEF TypeOK, DeviceOK, SchedulesOK, SessionOK
  <1>2. CASE WorkerDue(n)
    BY <1>1, <1>2, GoType, OnlyWorkerType DEF WorkerDue
  <1>3. CASE WorkerCancelled(n)
    BY <1>1, <1>3, GoType, OnlyWorkerType DEF WorkerCancelled
  <1>4. CASE WorkerGivesUp(n)
    <2>1. worker' \in [Ids -> WorkerPC]
      BY <1>1, <1>4, GoType DEF WorkerGivesUp
    <2>2. sched' \in [Ids -> Records]
      BY <1>1, <1>4, RecordTypes DEF WorkerGivesUp
    <2>3. QED
      BY <1>1, <1>4, <2>1, <2>2, OnlyWorkerType DEF WorkerGivesUp
  <1>5. CASE WorkerSubmits(n)
    BY <1>1, <1>5, GoType, OnlyWorkerType DEF WorkerSubmits
  <1>6. CASE WorkerDelivers(n)
    <2>1. NextEvent(n).input \in Controls
      BY <1>6, NextEventType DEF WorkerDelivers, Events, Controls
    <2>2. held' \subseteq Controls
      BY <1>1, <1>6, <2>1 DEF WorkerDelivers
    <2>3. worker' \in [Ids -> WorkerPC]
      BY <1>1, <1>6, GoType DEF WorkerDelivers
    <2>4. sched' \in [Ids -> Records]
      <3>1. [sched[n] EXCEPT !.delivered = @ + 1] \in Records
        BY <1>1, CountedType
      <3>2. sched' = [sched EXCEPT ![n] = [sched[n] EXCEPT !.delivered = @ + 1]]
        BY <1>6 DEF WorkerDelivers
      <3>3. QED
        BY <1>1, <3>1, <3>2
    <2>5. QED
      BY <1>1, <1>6, <2>2, <2>3, <2>4, OnlyWorkerType DEF WorkerDelivers
  <1>7. CASE WorkerFails(n)
    <2>1. worker' \in [Ids -> WorkerPC]
      BY <1>1, <1>7, GoType DEF WorkerFails, FailureReturns
    <2>2. sched' \in [Ids -> Records]
      BY <1>1, <1>7, RecordTypes DEF WorkerFails
    <2>3. fault' \in BOOLEAN
      BY <1>1, <1>7 DEF WorkerFails
    <2>4. QED
      BY <1>1, <1>7, <2>1, <2>2, <2>3, OnlyWorkerType DEF WorkerFails
  <1>8. CASE WorkerDies(n)
    BY <1>1, <1>8, GoType, OnlyWorkerType DEF WorkerDies
  <1>9. CASE WorkerCompletes(n)
    <2>1. worker' \in [Ids -> WorkerPC]
      BY <1>1, <1>9, GoType DEF WorkerCompletes
    <2>2. sched' \in [Ids -> Records]
      BY <1>1, <1>9, RecordTypes DEF WorkerCompletes
    <2>3. QED
      BY <1>1, <1>9, <2>1, <2>2, OnlyWorkerType DEF WorkerCompletes
  <1>10. QED
    BY <1>2, <1>3, <1>4, <1>5, <1>6, <1>7, <1>8, <1>9 DEF WorkerStep

LEMMA OvertakenType ==
  ASSUME CallersOK
  PROVE  Overtaken \in {Idle} \cup Waiting \cup Admitting
  BY DEF CallersOK, Overtaken, Idle, Waiting, Admitting

LEMMA ReleaseType ==
  ASSUME TypeOK, NEW c \in Clients, ReleaseSucceeds(c) \/ ReleaseFails(c),
         ReleaseFrame, watchdog' \in {"running", "dead", "stopped"}
  PROVE  TypeOK'
  <1>1. CallersOK'
    <2>1. owner' \in [Controls -> Callers \cup {Nobody}]
      BY DisownType DEF TypeOK, CallersOK, ReleaseSucceeds, ReleaseFails
    <2>2. lease' \in [Clients -> {"absent", "fresh", "lapsed"}]
      BY DEF TypeOK, CallersOK, ReleaseSucceeds, ReleaseFails, Forget
    <2>3. act' \in {Idle} \cup Waiting \cup Admitting
      BY OvertakenType DEF TypeOK, CallersOK, ReleaseSucceeds, ReleaseFails
    <2>4. QED
      BY <2>1, <2>2, <2>3 DEF CallersOK
  <1>2. DeviceOK'
    BY DEF TypeOK, DeviceOK, ReleaseSucceeds, ReleaseFails, ReleaseFrame
  <1>3. SchedulesOK' /\ SessionOK'
    BY DEF TypeOK, SchedulesOK, SessionOK, ReleaseFrame, schedule
  <1>4. QED
    BY <1>1, <1>2, <1>3 DEF TypeOK

LEMMA LeaseTypeStep ==
  ASSUME TypeOK, NEW c \in Clients,
         Heartbeat(c) \/ LeaseLapses(c) \/ Disconnect(c) \/ Expire(c)
  PROVE  TypeOK'
  <1>1. CASE Heartbeat(c)
    BY <1>1 DEF TypeOK, Heartbeat, LeaseOnly, Touch, DeviceOK, CallersOK,
       SchedulesOK, SessionOK, device, schedule
  <1>2. CASE LeaseLapses(c)
    BY <1>2 DEF TypeOK, LeaseLapses, LeaseOnly, DeviceOK, CallersOK,
       SchedulesOK, SessionOK, device, schedule
  <1>3. CASE Disconnect(c)
    BY <1>3, ReleaseType DEF Disconnect, TypeOK, SessionOK
  <1>4. CASE Expire(c)
    BY <1>4, ReleaseType DEF Expire, TypeOK, SessionOK
  <1>5. QED
    BY <1>1, <1>2, <1>3, <1>4

LEMMA CloserType ==
  ASSUME SessionOK, NEW k \in Closers, NEW from, NEW to \in ClosePC,
         CloserAt(k, from, to)
  PROVE  closer' \in [Closers -> ClosePC]
  BY DEF SessionOK, CloserAt

LEMMA CloseType ==
  ASSUME TypeOK, CloseFrame, backend' \in {"open", "closing", "closed"},
         sched' \in [Ids -> Records], SessionOK'
  PROVE  TypeOK'
  BY DEF TypeOK, CloseFrame, DeviceOK, CallersOK, SchedulesOK, device

LEMMA CloseTypeStep ==
  ASSUME TypeOK, NEW k \in Closers, CloseStep(k) PROVE TypeOK'
  <1> USE DEF ClosePC, Leave
  <1>1. /\ backend \in {"open", "closing", "closed"} /\ SessionOK
        /\ sched \in [Ids -> Records]
    BY DEF TypeOK, DeviceOK, SchedulesOK
  <1>2. CASE AlreadyClosed(k)
    BY <1>1, <1>2, CloserType, CloseType DEF AlreadyClosed, SessionOK
  <1>3. CASE CloseFlag(k)
    BY <1>1, <1>3, CloserType, CloseType DEF CloseFlag, SessionOK
  <1>4. CASE CloseCheck(k)
    BY <1>1, <1>4, CloserType, CloseType DEF CloseCheck, SessionOK
  <1>5. CASE CloseCancels(k)
    <2>1. sched' \in [Ids -> Records]
      BY <1>1, <1>5, RecordTypes DEF CloseCancels
    <2>2. QED
      BY <1>1, <1>5, <2>1, CloserType, CloseType DEF CloseCancels, SessionOK
  <1>6. CASE CloseBackend(k)
    BY <1>1, <1>6, CloserType, CloseType DEF CloseBackend, SessionOK
  <1>7. CASE CloseEnds(k)
    BY <1>1, <1>7, CloserType, CloseType DEF CloseEnds, SessionOK
  <1>8. CASE CloseFails(k)
    BY <1>1, <1>8, CloserType, CloseType DEF CloseFails, SessionOK
  <1>9. QED
    BY <1>2, <1>3, <1>4, <1>5, <1>6, <1>7, <1>8 DEF CloseStep

LEMMA TypeStep ==
  ASSUME TypeOK, Delivering, [Next]_vars PROVE TypeOK'
  <1>1. ASSUME NEW who \in Callers, NEW req \in Requests, Request(who, req)
        PROVE  TypeOK'
    BY <1>1 DEF TypeOK, Request, Waiting, DeviceOK, CallersOK, SchedulesOK,
       SessionOK, device, schedule
  <1>2. CASE NativeFault
    BY <1>2 DEF TypeOK, NativeFault, DeviceOK, CallersOK, SchedulesOK,
       SessionOK, schedule
  <1>3. CASE Stop
    <2>1. "stop" \in Closers
      BY DEF Closers
    <2>2. SessionOK'
      BY <1>3, <2>1, CloserType DEF TypeOK, Stop, SessionOK, ClosePC
    <2>3. QED
      BY <1>3, <2>2, CloseType DEF TypeOK, DeviceOK, SchedulesOK, Stop
  <1>4. CASE Unwind
    <2>1. "main" \in Closers
      BY DEF Closers
    <2>2. SessionOK'
      BY <1>4, <2>1, CloserType DEF TypeOK, Unwind, SessionOK, ClosePC
    <2>3. QED
      BY <1>4, <2>2, CloseType DEF TypeOK, DeviceOK, SchedulesOK, Unwind
  <1>5. CASE UNCHANGED vars
    BY <1>5 DEF vars, device, schedule, TypeOK, DeviceOK, CallersOK,
       SchedulesOK, SessionOK
  <1>6. QED
    BY <1>1, <1>2, <1>3, <1>4, <1>5, ActionTypeStep, WorkerTypeStep,
       LeaseTypeStep, CloseTypeStep DEF Next, Exited
-----------------------------------------------------------------------------
(* The rest of IInv.  Four lemmas say which variables each part depends on; *)
(* a step then has only the parts left that it can disturb.                 *)

LEMMA LockFrame ==
  ASSUME LockHolders, UNCHANGED <<lock, worker, closer>>,
         act'.phase = "admitting" => act.phase = "admitting"
  PROVE  LockHolders'
  BY DEF LockHolders

LEMMA ScheduleFrame ==
  ASSUME Delivering, OnlyLatestActive, UNCHANGED <<schedule, closed>>
  PROVE  Delivering' /\ OnlyLatestActive'
  BY DEF Delivering, OnlyLatestActive, schedule

LEMMA CloserFrame ==
  ASSUME ClosersClosed, UNCHANGED <<closed, closer>>
  PROVE  ClosersClosed'
  BY DEF ClosersClosed

(* Giving up ownership endangers no exclusion. *)
LEMMA DisownFrame ==
  ASSUME ScheduleExcludesOwners, QueryExcludesOwners,
         Busy' => Busy,
         (\E n \in Ids : worker'[n] = "query")
            => (\E n \in Ids : worker[n] = "query"),
         \A i \in Controls : owner'[i] \in {owner[i], Nobody}
  PROVE  ScheduleExcludesOwners' /\ QueryExcludesOwners'
  <1>1. Scheduled \subseteq Controls
    BY DEF Controls
  <1>2. ScheduleExcludesOwners'
    BY <1>1 DEF ScheduleExcludesOwners
  <1>3. QueryExcludesOwners'
    BY <1>1 DEF QueryExcludesOwners
  <1>4. QED
    BY <1>2, <1>3

LEMMA HeldFrame ==
  ASSUME OwnedInputsAreHeld, Healthy' => Healthy, UNCHANGED <<held, owner>>
  PROVE  OwnedInputsAreHeld'
  BY DEF OwnedInputsAreHeld

(* A step that moves no input, no owner, no schedule and no lock. *)
LEMMA QuietStep ==
  ASSUME IInv, TypeOK', Healthy' => Healthy,
         UNCHANGED <<held, owner, schedule, lock, closed, closer>>,
         act'.phase = "admitting" => act.phase = "admitting"
  PROVE  IInv'
  <1>1. LockHolders'
    BY LockFrame DEF IInv, schedule
  <1>2. Delivering' /\ OnlyLatestActive' /\ ClosersClosed'
    BY ScheduleFrame, CloserFrame DEF IInv
  <1>3. ScheduleExcludesOwners' /\ QueryExcludesOwners'
    BY DisownFrame DEF IInv, Busy, schedule
  <1>4. OwnedInputsAreHeld'
    BY HeldFrame DEF IInv
  <1>5. QED
    BY <1>1, <1>2, <1>3, <1>4 DEF IInv

(* While app.lock is free no delivery is under way. *)
LEMMA NoQueryWhenFree ==
  ASSUME LockHolders, lock = "free"
  PROVE  \A n \in Ids : worker[n] # "query"
  BY DEF LockHolders

(* The parts that no immediate action disturbs. *)
LEMMA ImmediateRest ==
  ASSUME IInv, Immediate
  PROVE  /\ LockHolders' /\ Delivering' /\ OnlyLatestActive' /\ ClosersClosed'
         /\ Busy' = Busy /\ UNCHANGED worker
         /\ \A n \in Ids : worker[n] # "query"
         /\ act.caller \in Callers /\ act.req \in Requests
  <1>1. LockHolders'
    BY LockFrame DEF IInv, Immediate, schedule, Idle
  <1>2. Delivering' /\ OnlyLatestActive' /\ ClosersClosed'
    BY ScheduleFrame, CloserFrame DEF IInv, Immediate
  <1>3. Busy' = Busy /\ UNCHANGED worker
    BY DEF Immediate, Busy, schedule
  <1>4. \A n \in Ids : worker[n] # "query"
    BY NoQueryWhenFree DEF IInv, Immediate, Serving
  <1>5. act.caller \in Callers /\ act.req \in Requests
    BY ServingType DEF IInv, TypeOK, Immediate
  <1>6. QED
    BY <1>1, <1>2, <1>3, <1>4, <1>5

(* An immediate action that releases inputs disowns what it releases. *)
LEMMA ImmediateRelease ==
  ASSUME IInv, TypeOK', Immediate, NEW inputs, Disown(inputs),
         Healthy' => /\ Healthy
                     /\ \A i \in Controls \ inputs :
                          owner[i] # Nobody /\ i \in held => i \in held'
  PROVE  IInv'
  <1>1. \A i \in Controls : owner'[i] = IF i \in inputs THEN Nobody
                                                         ELSE owner[i]
    BY DEF Disown
  <1>2. ScheduleExcludesOwners' /\ QueryExcludesOwners'
    BY <1>1, ImmediateRest, DisownFrame DEF IInv
  <1>3. OwnedInputsAreHeld'
    BY <1>1 DEF IInv, OwnedInputsAreHeld
  <1>4. QED
    BY <1>2, <1>3, ImmediateRest DEF IInv

(* A transition changes the owner of one input: an input of a schedule only *)
(* while no schedule is active.                                             *)
LEMMA TransitionStep ==
  ASSUME IInv, TypeOK', ApplyTransition PROVE IInv'
  <1> DEFINE i == act.req.input
  <1>1. Immediate /\ act.req.kind = "transition"
    BY DEF ApplyTransition
  <1>2. i \in Controls /\ Callers \cap {Nobody} = {}
    BY <1>1, ImmediateRest, RequestShape, ConstantsAssumption
  <1>3. i \in Scheduled => ~Busy
    BY <1>1 DEF Immediate, RefusedEarly, Blocked
  <1>4. /\ owner' = [owner EXCEPT ![i] = IF act.req.on THEN act.caller
                                                       ELSE Nobody]
        /\ owner \in [Controls -> Callers \cup {Nobody}]
    BY DEF ApplyTransition, IInv, TypeOK, CallersOK
  <1>5. ScheduleExcludesOwners' /\ QueryExcludesOwners'
    BY <1>1, <1>2, <1>3, <1>4, ImmediateRest
       DEF IInv, ScheduleExcludesOwners, QueryExcludesOwners, Controls
  <1>6. OwnedInputsAreHeld'
    <2>1. Healthy' => Healthy
      BY <1>1 DEF ApplyTransition, Immediate, Healthy
    <2>2. QED
      BY <1>2, <1>4, <2>1 DEF ApplyTransition, IInv, OwnedInputsAreHeld
  <1>7. QED
    BY <1>1, <1>5, <1>6, ImmediateRest DEF IInv

(* Admission: nobody owns anything, and no earlier schedule is active. *)
LEMMA AdmitStep ==
  ASSUME IInv, TypeOK', AdmitSchedule PROVE IInv'
  <1>1. /\ lock = "free" /\ ~Busy /\ latest \in 0 .. MaxSchedules
        /\ latest < MaxSchedules /\ latest' = latest + 1
        /\ act.req.plan \in Plans
    BY ServingType, RequestShape
       DEF AdmitSchedule, Serving, Admissible, IInv, TypeOK, SchedulesOK
  <1>2. latest + 1 \in Ids /\ latest # latest + 1
    BY <1>1, ConstantsAssumption DEF Ids
  <1>3. \A n \in Ids : worker[n] # "query" /\ sched[n].status # "accepted"
    <2>1. \A n \in Ids : sched[n].status = "accepted" => n = latest /\ n > 0
      BY <1>1 DEF IInv, OnlyLatestActive, Ids
    <2>2. \A n \in Ids : sched[n].status # "accepted"
      BY <1>1, <2>1 DEF Busy
    <2>3. QED
      BY <1>1, <2>2, NoQueryWhenFree DEF IInv
  <1>4. /\ sched' = [sched EXCEPT ![latest + 1] = Submitted(act.req.plan)]
        /\ worker' = [worker EXCEPT ![latest + 1] = "wait"]
        /\ DOMAIN sched = Ids /\ DOMAIN worker = Ids
    BY DEF AdmitSchedule, IInv, TypeOK, SchedulesOK
  <1>5. LockHolders'
    BY <1>1, <1>3, <1>4 DEF IInv, LockHolders, AdmitSchedule
  <1>6. Delivering'
    <2>1. Len(act.req.plan) > 0
      BY <1>1, ConstantsAssumption
    <2>2. QED
      BY <1>1, <1>2, <1>4, <2>1
         DEF IInv, Delivering, AdmitSchedule, Submitted
  <1>7. OnlyLatestActive'
    BY <1>1, <1>3, <1>4 DEF OnlyLatestActive
  <1>8. ClosersClosed'
    BY CloserFrame DEF IInv, AdmitSchedule
  <1>9. ScheduleExcludesOwners' /\ QueryExcludesOwners'
    BY DEF AdmitSchedule, Admissible, ScheduleExcludesOwners, Controls,
       QueryExcludesOwners
  <1>10. OwnedInputsAreHeld'
    BY HeldFrame DEF AdmitSchedule, IInv, Healthy, device
  <1>11. QED
    BY <1>5, <1>6, <1>7, <1>8, <1>9, <1>10 DEF IInv

(* A step of a thread that appends to a schedule's journal, or changes the *)
(* schedule's status to a terminal one.                                    *)
LEMMA RecordKeeps ==
  ASSUME NEW s \in Records
  PROVE  /\ Logged(s, "accepted").status = s.status
         /\ Logged(s, "accepted").plan = s.plan
         /\ Logged(s, "accepted").delivered = s.delivered
         /\ Marked(s, "cancelled").status # "accepted"
         /\ Completed(s).status # "accepted"
         /\ Failed(s).status # "accepted"
         /\ Cancelled(s).status # "accepted"
         /\ Cancelled(s).plan = s.plan
         /\ Cancelled(s).delivered = s.delivered
  <1>1. s.status \in Statuses
    BY DEF Records
  <1>2. s = [status |-> s.status, plan |-> s.plan,
             delivered |-> s.delivered, journal |-> s.journal]
    BY DEF Records
  <1>3. QED
    BY <1>1, <1>2 DEF Logged, Marked, Ended, Completed, Failed, Cancelled

LEMMA RecordAdmissionStep ==
  ASSUME IInv, TypeOK', RecordAdmission PROVE IInv'
  <1>1. /\ sched \in [Ids -> Records] /\ lock = "action"
        /\ sched' = [sched EXCEPT ![latest] = Logged(@, "accepted")]
    BY DEF RecordAdmission, IInv, TypeOK, SchedulesOK, LockHolders
  <1>2. \A n \in Ids : /\ sched'[n].status = sched[n].status
                       /\ sched'[n].plan = sched[n].plan
                       /\ sched'[n].delivered = sched[n].delivered
    BY <1>1, RecordKeeps
  <1>3. LockHolders'
    BY <1>1 DEF IInv, LockHolders, RecordAdmission, Idle
  <1>4. Delivering' /\ OnlyLatestActive' /\ ClosersClosed'
    BY <1>2 DEF IInv, Delivering, OnlyLatestActive, ClosersClosed,
       RecordAdmission
  <1>5. Busy' => Busy
    BY <1>2 DEF Busy, RecordAdmission, IInv, TypeOK, SchedulesOK, Ids
  <1>6. ScheduleExcludesOwners' /\ QueryExcludesOwners'
    BY <1>5, DisownFrame DEF IInv, RecordAdmission
  <1>7. OwnedInputsAreHeld'
    BY HeldFrame DEF RecordAdmission, IInv, Healthy, device
  <1>8. QED
    BY <1>3, <1>4, <1>6, <1>7 DEF IInv

LEMMA ActionIInvStep ==
  ASSUME IInv, ActionStep PROVE IInv'
  <1>1. TypeOK'
    BY ActionTypeStep DEF IInv
  <1>2. CASE RejectEarly
    BY <1>1, <1>2, QuietStep DEF RejectEarly, Healthy, device, Idle
  <1>3. CASE RejectLate
    BY <1>1, <1>3, QuietStep DEF RejectLate, Immediate, Healthy, device, Idle
  <1>4. CASE ApplyTransition
    BY <1>1, <1>4, TransitionStep
  <1>5. CASE ApplyReleaseAll
    <2>1. Immediate /\ act.req.kind = "release_all" /\ (Healthy' => Healthy)
      BY <1>5 DEF ApplyReleaseAll, Immediate, Healthy
    <2>2. QED
      BY <1>1, <1>5, <2>1, ImmediateRelease DEF ApplyReleaseAll
  <1>6. CASE ApplyGridConnection
    <2>1. /\ Immediate /\ act.req.kind = "grid_connection"
          /\ Healthy' => Healthy
          /\ ToRelease \subseteq GridKeys /\ (act.req.on => ToRelease = {})
      BY <1>6 DEF ApplyGridConnection, Immediate, Healthy, ToRelease
    <2>2. QED
      BY <1>1, <1>6, <2>1, ImmediateRelease DEF ApplyGridConnection
  <1>7. CASE ApplyArcConnection
    <2>1. /\ Immediate /\ act.req.kind = "arc_connection"
          /\ Healthy' => Healthy
          /\ ToRelease \subseteq ArcKeys /\ (act.req.on => ToRelease = {})
      BY <1>7 DEF ApplyArcConnection, Immediate, Healthy, ToRelease
    <2>2. QED
      BY <1>1, <1>7, <2>1, ImmediateRelease DEF ApplyArcConnection
  <1>8. CASE ApplyStateless
    BY <1>1, <1>8, QuietStep DEF ApplyStateless, Immediate, Healthy, device,
       Idle
  <1>9. CASE ActionTimesOut
    BY <1>1, <1>9, ImmediateRelease DEF ActionTimesOut, Healthy
  <1>10. CASE AdmitSchedule
    BY <1>1, <1>10, AdmitStep
  <1>11. CASE RecordAdmission
    BY <1>1, <1>11, RecordAdmissionStep
  <1>12. QED
    BY <1>2, <1>3, <1>4, <1>5, <1>6, <1>7, <1>8, <1>9, <1>10, <1>11
       DEF ActionStep
-----------------------------------------------------------------------------
(* Delivery threads *)

(* A thread moves on: it leaves every other thread, and the lock's other   *)
(* holders, alone.                                                         *)
LEMMA WorkerLocks ==
  ASSUME IInv, NEW n \in Ids, NEW from, NEW to \in WorkerPC,
         Go(n, from, to), OnlyWorker,
         \/ to # "query" /\ (from = "query" => lock' = "free")
                         /\ (from # "query" => lock' = lock)
         \/ to = "query" /\ lock = "free" /\ lock' = "worker"
  PROVE  LockHolders' /\ ClosersClosed'
  <1>1. /\ worker[n] = from /\ worker'[n] = to
        /\ \A m \in Ids \ {n} : worker'[m] = worker[m]
    BY GoType DEF IInv, TypeOK
  <1>2. UNCHANGED <<act, closer, closed>>
    BY DEF OnlyWorker
  <1>3. LockHolders'
    <2>1. CASE to # "query" /\ from = "query" /\ lock' = "free"
      BY <1>1, <1>2, <2>1 DEF IInv, LockHolders
    <2>2. CASE to # "query" /\ from # "query" /\ lock' = lock
      BY <1>1, <1>2, <2>2 DEF IInv, LockHolders
    <2>3. CASE to = "query" /\ lock = "free" /\ lock' = "worker"
      BY <1>1, <1>2, <2>3 DEF IInv, LockHolders
    <2>4. QED
      BY <2>1, <2>2, <2>3
  <1>4. ClosersClosed'
    BY <1>2, CloserFrame DEF IInv
  <1>5. QED
    BY <1>3, <1>4

(* A thread that ends, or only goes on, can have touched its own schedule  *)
(* alone, and no ownership.                                                *)
LEMMA WorkerSchedules ==
  ASSUME IInv, NEW n \in Ids, OnlyWorker,
         \A m \in Ids \ {n} : sched'[m] = sched[m] /\ worker'[m] = worker[m],
         sched'[n].status = "accepted" => sched[n].status = "accepted",
         worker'[n] \in {"wait", "due", "query"} =>
           /\ sched'[n].plan \in Plans
           /\ sched'[n].delivered < Len(sched'[n].plan)
           /\ ~closed => sched'[n].status = "accepted",
         worker'[n] = "query" =>
           \/ worker[n] = "query"
           \/ \A i \in Scheduled : owner[i] = Nobody
  PROVE  /\ Delivering' /\ OnlyLatestActive'
         /\ ScheduleExcludesOwners' /\ QueryExcludesOwners'
  <1>1. UNCHANGED <<closed, latest, owner>>
    BY DEF OnlyWorker
  <1>2. Delivering' /\ OnlyLatestActive'
    BY <1>1 DEF IInv, Delivering, OnlyLatestActive
  <1>3. Busy' => Busy
    BY <1>1 DEF Busy, IInv, TypeOK, SchedulesOK, Ids
  <1>4. ScheduleExcludesOwners'
    BY <1>1, <1>3 DEF IInv, ScheduleExcludesOwners
  <1>5. QueryExcludesOwners'
    BY <1>1 DEF IInv, QueryExcludesOwners
  <1>6. QED
    BY <1>2, <1>4, <1>5

(* A thread that leaves the device alone can at most report a fault. *)
LEMMA WorkerHeld ==
  ASSUME IInv, OnlyWorker, UNCHANGED held, fault' = TRUE \/ UNCHANGED fault
  PROVE  OwnedInputsAreHeld'
  BY DEF IInv, OwnedInputsAreHeld, OnlyWorker, Healthy

LEMMA WorkerSubmitsStep ==
  ASSUME IInv, TypeOK', NEW n \in Ids, WorkerSubmits(n) PROVE IInv'
  <1>1. /\ Go(n, "due", "query") /\ OnlyWorker /\ UNCHANGED <<held, fault, sched>>
        /\ ~closed /\ lock = "free" /\ lock' = "worker"
    BY DEF WorkerSubmits
  <1>2. /\ worker[n] = "due" /\ worker'[n] = "query"
        /\ \A m \in Ids \ {n} : worker'[m] = worker[m]
    BY <1>1, GoType DEF IInv, TypeOK, WorkerPC
  <1>3. sched[n].status = "accepted" /\ n = latest /\ Busy
    BY <1>1, <1>2 DEF IInv, Delivering, OnlyLatestActive, Busy, Ids
  <1>4. /\ Delivering' /\ OnlyLatestActive'
        /\ ScheduleExcludesOwners' /\ QueryExcludesOwners'
    BY <1>1, <1>2, <1>3, WorkerSchedules
       DEF IInv, Delivering, ScheduleExcludesOwners
  <1>5. LockHolders' /\ ClosersClosed'
    BY <1>1, WorkerLocks DEF WorkerPC
  <1>6. QED
    BY <1>1, <1>4, <1>5, WorkerHeld DEF IInv

(* The delivered input is nobody's. *)
LEMMA WorkerDeliversStep ==
  ASSUME IInv, TypeOK', NEW n \in Ids, WorkerDelivers(n) PROVE IInv'
  <1> DEFINE to == IF sched[n].delivered + 1 = Len(sched[n].plan)
                   THEN "finish" ELSE "wait"
             e == NextEvent(n)
  <1>1. /\ worker[n] = "query" /\ Go(n, "query", to) /\ OnlyWorker
        /\ sched' = [sched EXCEPT ![n].delivered = @ + 1]
        /\ lock' = "free" /\ UNCHANGED fault
    BY DEF WorkerDelivers
  <1>2. /\ worker'[n] = to
        /\ \A m \in Ids \ {n} : worker'[m] = worker[m]
    BY <1>1, GoType DEF IInv, TypeOK, WorkerPC
  <1>3. /\ sched[n].plan \in Plans /\ sched[n].delivered < Len(sched[n].plan)
        /\ ~closed => sched[n].status = "accepted"
    BY <1>1 DEF IInv, Delivering
  <1>4. sched[n].delivered \in Nat /\ Len(sched[n].plan) \in Nat
    BY <1>3, ConstantsAssumption DEF IInv, TypeOK, SchedulesOK, Records
  <1>5. /\ sched'[n].plan = sched[n].plan
        /\ sched'[n].status = sched[n].status
        /\ sched'[n].delivered = sched[n].delivered + 1
        /\ \A m \in Ids \ {n} : sched'[m] = sched[m]
    BY <1>1 DEF IInv, TypeOK, SchedulesOK, Records
  <1>6. to = "wait" => sched'[n].delivered < Len(sched'[n].plan)
    BY <1>3, <1>4, <1>5
  <1>7. /\ Delivering' /\ OnlyLatestActive'
        /\ ScheduleExcludesOwners' /\ QueryExcludesOwners'
    BY <1>1, <1>2, <1>3, <1>5, <1>6, WorkerSchedules
  <1>8. LockHolders' /\ ClosersClosed'
    BY <1>1, WorkerLocks DEF WorkerPC
  <1>9. OwnedInputsAreHeld'
    <2>1. e.input \in Scheduled
      BY <1>1, NextEventType DEF IInv, Events
    <2>2. owner[e.input] = Nobody
      BY <1>1, <2>1 DEF IInv, QueryExcludesOwners
    <2>3. \A i \in Controls : i # e.input /\ i \in held => i \in held'
      BY DEF WorkerDelivers
    <2>4. (Healthy' => Healthy) /\ owner' = owner
      BY <1>1 DEF OnlyWorker, Healthy
    <2>5. QED
      BY <2>2, <2>3, <2>4 DEF IInv, OwnedInputsAreHeld
  <1>10. QED
    BY <1>7, <1>8, <1>9 DEF IInv

(* A thread that stops delivering, with whatever it makes of its record.   *)
LEMMA WorkerRetires ==
  ASSUME IInv, TypeOK', NEW n \in Ids, NEW from,
         NEW to \in {"cancelled", "done"}, Go(n, from, to), OnlyWorker,
         IF from = "query" THEN lock' = "free" ELSE lock' = lock,
         sched' = [sched EXCEPT ![n] = sched'[n]],
         sched'[n].status = "accepted" => sched[n].status = "accepted",
         UNCHANGED held, fault' = TRUE \/ UNCHANGED fault
  PROVE  IInv'
  <1>1. /\ worker'[n] = to
        /\ \A m \in Ids \ {n} : worker'[m] = worker[m] /\ sched'[m] = sched[m]
    BY GoType DEF IInv, TypeOK, SchedulesOK, WorkerPC
  <1>2. /\ Delivering' /\ OnlyLatestActive'
        /\ ScheduleExcludesOwners' /\ QueryExcludesOwners'
    BY <1>1, WorkerSchedules
  <1>3. LockHolders' /\ ClosersClosed'
    BY WorkerLocks DEF WorkerPC
  <1>4. QED
    BY <1>2, <1>3, WorkerHeld DEF IInv

LEMMA WorkerIInvStep ==
  ASSUME IInv, NEW n \in Ids, WorkerStep(n) PROVE IInv'
  <1>1. TypeOK' /\ sched \in [Ids -> Records]
    BY WorkerTypeStep DEF IInv, TypeOK, SchedulesOK
  <1>2. sched[n] \in Records
    BY <1>1
  <1>3. CASE WorkerDue(n)
    <2>1. /\ Go(n, "wait", "due") /\ OnlyWorker
          /\ UNCHANGED <<held, fault, sched, lock>>
      BY <1>3 DEF WorkerDue
    <2>2. /\ worker[n] = "wait" /\ worker'[n] = "due"
          /\ \A m \in Ids \ {n} : worker'[m] = worker[m]
      BY <2>1, GoType DEF IInv, TypeOK, WorkerPC
    <2>3. /\ Delivering' /\ OnlyLatestActive'
          /\ ScheduleExcludesOwners' /\ QueryExcludesOwners'
      BY <2>1, <2>2, WorkerSchedules DEF IInv, Delivering
    <2>4. LockHolders' /\ ClosersClosed'
      BY <2>1, WorkerLocks DEF WorkerPC
    <2>5. QED
      BY <1>1, <2>1, <2>3, <2>4, WorkerHeld DEF IInv
  <1>4. CASE WorkerCancelled(n)
    BY <1>1, <1>4, WorkerRetires DEF WorkerCancelled
  <1>5. CASE WorkerGivesUp(n)
    <2>1. /\ sched' = [sched EXCEPT ![n] = Marked(sched[n], "cancelled")]
          /\ sched'[n].status # "accepted"
      BY <1>1, <1>2, <1>5, RecordKeeps DEF WorkerGivesUp
    <2>2. QED
      BY <1>1, <1>5, <2>1, WorkerRetires DEF WorkerGivesUp
  <1>6. CASE WorkerSubmits(n)
    BY <1>1, <1>6, WorkerSubmitsStep
  <1>7. CASE WorkerDelivers(n)
    BY <1>1, <1>7, WorkerDeliversStep
  <1>8. CASE WorkerFails(n)
    <2>1. /\ sched' = [sched EXCEPT ![n] = Failed(sched[n])]
          /\ sched'[n].status # "accepted"
      BY <1>1, <1>2, <1>8, RecordKeeps DEF WorkerFails
    <2>2. QED
      BY <1>1, <1>8, <2>1, WorkerRetires DEF WorkerFails, FailureReturns
  <1>9. CASE WorkerDies(n)
    BY <1>1, <1>9, WorkerRetires DEF WorkerDies
  <1>10. CASE WorkerCompletes(n)
    <2>1. /\ sched' = [sched EXCEPT ![n] = Completed(sched[n])]
          /\ sched'[n].status # "accepted"
      BY <1>1, <1>2, <1>10, RecordKeeps DEF WorkerCompletes
    <2>2. QED
      BY <1>1, <1>10, <2>1, WorkerRetires DEF WorkerCompletes
  <1>11. QED
    BY <1>3, <1>4, <1>5, <1>6, <1>7, <1>8, <1>9, <1>10 DEF WorkerStep
-----------------------------------------------------------------------------
(* Leases *)

LEMMA ReleaseStep ==
  ASSUME IInv, TypeOK', NEW c \in Clients,
         ReleaseSucceeds(c) \/ ReleaseFails(c), ReleaseFrame
  PROVE  IInv'
  <1>1. act'.phase = "admitting" => act.phase = "admitting"
    <2>1. Overtaken.phase = "admitting" => act.phase = "admitting"
      BY DEF Overtaken, IInv, TypeOK, CallersOK, Idle, Waiting, Admitting
    <2>2. act' \in {act, Overtaken}
      BY DEF ReleaseSucceeds, ReleaseFails
    <2>3. QED
      BY <2>1, <2>2
  <1>2. LockHolders' /\ Delivering' /\ OnlyLatestActive' /\ ClosersClosed'
    BY <1>1, LockFrame, ScheduleFrame, CloserFrame
       DEF IInv, ReleaseFrame, schedule
  <1>3. \A i \in Controls : owner'[i] \in {owner[i], Nobody}
    BY DEF ReleaseSucceeds, ReleaseFails, Disown
  <1>4. ScheduleExcludesOwners' /\ QueryExcludesOwners'
    BY <1>3, DisownFrame DEF IInv, ReleaseFrame, schedule, Busy
  <1>5. OwnedInputsAreHeld'
    BY DEF IInv, OwnedInputsAreHeld, ReleaseSucceeds, ReleaseFails, Disown,
       Owned, Healthy, ReleaseFrame
  <1>6. QED
    BY <1>2, <1>4, <1>5 DEF IInv

LEMMA LeaseIInvStep ==
  ASSUME IInv, NEW c \in Clients,
         Heartbeat(c) \/ LeaseLapses(c) \/ Disconnect(c) \/ Expire(c)
  PROVE  IInv'
  <1>1. TypeOK'
    BY LeaseTypeStep DEF IInv
  <1>2. CASE Heartbeat(c)
    BY <1>1, <1>2, QuietStep DEF Heartbeat, LeaseOnly, Healthy, device
  <1>3. CASE LeaseLapses(c)
    BY <1>1, <1>3, QuietStep DEF LeaseLapses, LeaseOnly, Healthy, device
  <1>4. CASE Disconnect(c)
    BY <1>1, <1>4, ReleaseStep DEF Disconnect
  <1>5. CASE Expire(c)
    BY <1>1, <1>5, ReleaseStep DEF Expire
  <1>6. QED
    BY <1>2, <1>3, <1>4, <1>5
-----------------------------------------------------------------------------
(* Shutdown *)

LEMMA CloserMoves ==
  ASSUME IInv, NEW k \in Closers, NEW from, NEW to, CloserAt(k, from, to)
  PROVE  /\ closer[k] = from /\ closer'[k] = to
         /\ \A j \in Closers \ {k} : closer'[j] = closer[j]
  BY DEF CloserAt, IInv, TypeOK, SessionOK

(* /stop holds app.lock from its first step to its last. *)
LEMMA CloserLocks ==
  ASSUME IInv, NEW k \in Closers, NEW from, NEW to, CloserAt(k, from, to),
         UNCHANGED <<act, worker>>,
         \/ from \notin {"idle", "done"} /\ to \notin {"idle", "done"}
            /\ lock' = lock
         \/ from \notin {"idle", "done"} /\ to \in {"idle", "done"} /\ Leave(k)
         \/ from = "idle" /\ k = "stop" /\ lock = "free" /\ lock' = "stop"
         \/ k = "main" /\ lock' = lock
  PROVE  LockHolders'
  <1>1. /\ closer[k] = from /\ closer'[k] = to
        /\ \A j \in Closers \ {k} : closer'[j] = closer[j]
    BY CloserMoves
  <1>2. CASE k = "main"
    BY <1>1, <1>2 DEF IInv, LockHolders, Closers, Leave
  <1>3. CASE k = "stop"
    BY <1>1, <1>3 DEF IInv, LockHolders, Closers, Leave
  <1>4. QED
    BY <1>2, <1>3 DEF Closers

(* A closer may cancel the active schedule, once the session is closed. *)
LEMMA CloserParts ==
  ASSUME IInv, TypeOK', NEW k \in Closers, NEW from, NEW to,
         CloserAt(k, from, to), CloseFrame,
         to \in {"check", "cancel", "backend", "closing"} => closed',
         closed => closed',
         backend' = "open" => backend = "open",
         \/ UNCHANGED sched
         \/ closed /\ sched' = [sched EXCEPT ![latest] = Cancelled(@)],
         LockHolders'
  PROVE  IInv'
  <1>1. /\ closer'[k] = to
        /\ \A j \in Closers \ {k} : closer'[j] = closer[j]
    BY CloserMoves
  <1>2. ClosersClosed'
    BY <1>1 DEF IInv, ClosersClosed
  <1>3. sched \in [Ids -> Records] /\ UNCHANGED <<held, fault, owner, latest,
                                                  worker>>
    BY DEF IInv, TypeOK, SchedulesOK, CloseFrame, device
  <1>4. \A n \in Ids : /\ sched'[n].status = "accepted"
                            => sched[n].status = "accepted"
                       /\ sched'[n].plan = sched[n].plan
                       /\ sched'[n].delivered = sched[n].delivered
                       /\ ~closed' => sched'[n].status = sched[n].status
    BY <1>3, RecordKeeps
  <1>5. Delivering' /\ OnlyLatestActive'
    BY <1>3, <1>4 DEF IInv, Delivering, OnlyLatestActive
  <1>6. Busy' => Busy
    BY <1>3, <1>4 DEF Busy, IInv, TypeOK, SchedulesOK, Ids
  <1>7. ScheduleExcludesOwners' /\ QueryExcludesOwners'
    BY <1>3, <1>6, DisownFrame DEF IInv
  <1>8. OwnedInputsAreHeld'
    BY <1>3, HeldFrame DEF IInv, Healthy
  <1>9. QED
    BY <1>2, <1>5, <1>7, <1>8 DEF IInv

LEMMA CloseIInvStep ==
  ASSUME IInv, NEW k \in Closers, CloseStep(k) PROVE IInv'
  <1>1. TypeOK' /\ ClosersClosed
    BY CloseTypeStep DEF IInv
  <1>2. CASE AlreadyClosed(k)
    <2>1. LockHolders'
      BY <1>2, CloserLocks DEF AlreadyClosed, CloseFrame
    <2>2. QED
      BY <1>1, <1>2, <2>1, CloserParts DEF AlreadyClosed
  <1>3. CASE CloseFlag(k)
    <2>1. LockHolders'
      BY <1>3, CloserLocks DEF CloseFlag, CloseFrame
    <2>2. QED
      BY <1>1, <1>3, <2>1, CloserParts DEF CloseFlag
  <1>4. CASE CloseCheck(k)
    <2>1. LockHolders' /\ closed
      BY <1>1, <1>4, CloserLocks
         DEF CloseCheck, CloseFrame, CloserAt, ClosersClosed
    <2>2. QED
      BY <1>1, <1>4, <2>1, CloserParts DEF CloseCheck
  <1>5. CASE CloseCancels(k)
    <2>1. LockHolders' /\ closed
      BY <1>1, <1>5, CloserLocks
         DEF CloseCancels, CloseFrame, CloserAt, ClosersClosed
    <2>2. QED
      BY <1>1, <1>5, <2>1, CloserParts DEF CloseCancels
  <1>6. CASE CloseBackend(k)
    <2>1. LockHolders' /\ closed
      BY <1>1, <1>6, CloserLocks
         DEF CloseBackend, CloseFrame, CloserAt, ClosersClosed
    <2>2. QED
      BY <1>1, <1>6, <2>1, CloserParts DEF CloseBackend
  <1>7. CASE CloseEnds(k)
    <2>1. LockHolders'
      BY <1>7, CloserLocks DEF CloseEnds, CloseFrame
    <2>2. QED
      BY <1>1, <1>7, <2>1, CloserParts DEF CloseEnds
  <1>8. CASE CloseFails(k)
    <2>1. PICK to \in {"idle", "done"} : CloserAt(k, "closing", to)
      BY <1>8 DEF CloseFails
    <2>2. LockHolders'
      BY <1>8, <2>1, CloserLocks DEF CloseFails, CloseFrame
    <2>3. QED
      BY <1>1, <1>8, <2>1, <2>2, CloserParts DEF CloseFails
  <1>9. QED
    BY <1>2, <1>3, <1>4, <1>5, <1>6, <1>7, <1>8 DEF CloseStep
-----------------------------------------------------------------------------
LEMMA NextIInv ==
  ASSUME IInv, [Next]_vars PROVE IInv'
  <1>1. TypeOK'
    BY TypeStep DEF IInv
  <1>2. ASSUME NEW who \in Callers, NEW req \in Requests, Request(who, req)
        PROVE  IInv'
    BY <1>1, <1>2, QuietStep DEF Request, Healthy, device
  <1>3. CASE NativeFault
    BY <1>1, <1>3, QuietStep DEF NativeFault, Healthy
  <1>4. CASE Stop
    <2>1. LockHolders'
      BY <1>4, CloserLocks DEF Stop, CloseFrame, Closers
    <2>2. QED
      BY <1>1, <1>4, <2>1, CloserParts DEF Stop, Closers
  <1>5. CASE Unwind
    <2>1. LockHolders'
      BY <1>5, CloserLocks DEF Unwind, CloseFrame, Closers
    <2>2. QED
      BY <1>1, <1>5, <2>1, CloserParts DEF Unwind, Closers
  <1>6. CASE UNCHANGED vars
    BY <1>1, <1>6, QuietStep DEF vars, device, Healthy
  <1>7. QED
    BY <1>2, <1>3, <1>4, <1>5, <1>6, ActionIInvStep, WorkerIInvStep,
       LeaseIInvStep, CloseIInvStep DEF Next, Exited

(* Every reachable state satisfies the inductive invariant. *)
THEOREM Invariant == Spec => []IInv
  <1>1. Init => IInv
    BY InitIInv
  <1>2. IInv /\ [Next]_vars => IInv'
    BY NextIInv
  <1>3. QED
    BY <1>1, <1>2, PTL DEF Spec

(* The variables of the server keep their types, and a delivery thread     *)
(* never runs past the end of its plan.                                    *)
THEOREM TypeCorrect == Spec => []TypeOK
  <1>1. IInv => TypeOK
    BY DEF IInv
  <1>2. QED
    BY <1>1, Invariant, PTL

(* input_owners never names an input that the backend has released, for    *)
(* any clients, inputs and plans: a leaving client can always be released. *)
THEOREM OwnersHeld == Spec => []OwnedInputsAreHeld
  <1>1. IInv => OwnedInputsAreHeld
    BY DEF IInv
  <1>2. QED
    BY <1>1, Invariant, PTL

(* A schedule excludes the owners of keys and pads as long as it is active,*)
(* SIGTERM or not, however many schedules a session runs.                  *)
THEOREM SchedulesExclude == Spec => []ScheduleExcludesOwners
  <1>1. IInv => ScheduleExcludesOwners
    BY DEF IInv
  <1>2. QED
    BY <1>1, Invariant, PTL

(* What other callers hold survives the release of one client: the owner   *)
(* of an input changes only if it is the client that leaves.               *)
THEOREM ReleasesAreOwn == Spec => ReleaseKeepsForeignInputs
  <1>1. IInv /\ [Next]_vars =>
          [\A c \in Clients : Disconnect(c) \/ Expire(c) =>
             \A i \in Controls : owner[i] \notin {c, Nobody} =>
               owner'[i] = owner[i] /\ (i \in held => i \in held')]_vars
    BY DEF Disconnect, Expire, ReleaseSucceeds, ReleaseFails, Disown, Owned
  <1>2. QED
    BY <1>1, Invariant, PTL DEF Spec, ReleaseKeepsForeignInputs

-----------------------------------------------------------------------------
(***************************************************************************)
(* What a native control schedule can rely on, and what is recorded of it, *)
(* for any plans, callers and number of schedules, whether or not SIGTERM  *)
(* may come.                                                               *)
(*                                                                         *)
(* None of the three invariants proved here is inductive.  A planned key   *)
(* stays legal because only the thread of the latest schedule is ever in a *)
(* query, and every other way to move a key is refused while a schedule is *)
(* accepted.  The journal is exact because each state of the delivery      *)
(* thread goes with one journal, as long as nothing has set the cancel     *)
(* event or closed the backend, which only close() does.                   *)
(***************************************************************************)

(* Only close() sets the cancel event or leaves the backend's open state,  *)
(* and it has set closed before.                                           *)
FlagsAgree == (cancel => closed) /\ (backend # "open" => closed)

(* A thread whose query is under way delivers the latest schedule. *)
LatestDelivers == \A n \in Ids : worker[n] = "query" => n = latest

(* Admitted, and the record of the admission still to be written. *)
Unrecorded(n) == act.phase = "admitting" /\ n = latest

(* While the session is open, where the thread of a schedule is and what   *)
(* the journal says of it.                                                 *)
JournalOf(n) ==
  IF sched[n].status = "accepted"
  THEN /\ worker[n] \in {"wait", "due", "query", "finish"}
       /\ sched[n].journal = IF Unrecorded(n) THEN <<>> ELSE <<"accepted">>
  ELSE /\ worker[n] = "done" /\ ~Unrecorded(n)
       /\ sched[n].journal = <<"accepted", sched[n].status>>

Journals == ~closed => \A n \in 1 .. latest : JournalOf(n)

SInv == FlagsAgree /\ LatestDelivers /\ Journals /\ PlannedKeysStayLegal
-----------------------------------------------------------------------------
(* What a step can do. *)

LEMMA OvertakenPhase ==
  ASSUME CallersOK
  PROVE  (Overtaken.phase = "admitting") = (act.phase = "admitting")
  BY DEF CallersOK, Overtaken, Idle, Waiting, Admitting

(* Few steps touch the schedules or the phase of an admission. *)
LEMMA QuietOrNot ==
  ASSUME IInv, [Next]_vars
  PROVE  \/ /\ UNCHANGED schedule
            /\ (act'.phase = "admitting") = (act.phase = "admitting")
         \/ AdmitSchedule \/ RecordAdmission
         \/ \E n \in Ids : WorkerStep(n)
         \/ \E k \in Closers : CloseCancels(k)
  <1>1. ASSUME NEW who \in Callers, NEW req \in Requests, Request(who, req)
        PROVE  UNCHANGED schedule
               /\ (act'.phase = "admitting") = (act.phase = "admitting")
    BY <1>1 DEF Request, Idle
  <1>2. CASE ActionStep /\ ~AdmitSchedule /\ ~RecordAdmission
    <2>1. UNCHANGED schedule /\ act' = Idle /\ Serving
      BY <1>2 DEF ActionStep, RejectEarly, RejectLate, ApplyTransition,
         ApplyReleaseAll, ApplyGridConnection, ApplyArcConnection,
         ApplyStateless, ActionTimesOut, Immediate
    <2>2. QED
      BY <2>1 DEF Idle, Serving
  <1>3. ASSUME NEW c \in Clients, Heartbeat(c) \/ LeaseLapses(c)
        PROVE  UNCHANGED <<schedule, act>>
    BY <1>3 DEF Heartbeat, LeaseLapses, LeaseOnly
  <1>4. ASSUME NEW c \in Clients, Disconnect(c) \/ Expire(c)
        PROVE  UNCHANGED schedule
               /\ (act'.phase = "admitting") = (act.phase = "admitting")
    <2>1. UNCHANGED schedule /\ act' \in {act, Overtaken}
      BY <1>4 DEF Disconnect, Expire, ReleaseFrame, ReleaseSucceeds,
         ReleaseFails
    <2>2. QED
      BY <2>1, OvertakenPhase DEF IInv, TypeOK
  <1>5. CASE NativeFault \/ Stop \/ Unwind
    BY <1>5 DEF NativeFault, Stop, Unwind, CloseFrame, schedule
  <1>6. ASSUME NEW k \in Closers, CloseStep(k), ~CloseCancels(k)
        PROVE  UNCHANGED <<schedule, act>>
    BY <1>6 DEF CloseStep, AlreadyClosed, CloseFlag, CloseCheck,
       CloseBackend, CloseEnds, CloseFails, CloseFrame, schedule
  <1>7. CASE UNCHANGED vars
    BY <1>7 DEF vars
  <1>8. QED
    BY <1>1, <1>2, <1>3, <1>4, <1>5, <1>6, <1>7 DEF Next, Exited

(* A closed session stays closed, and does not get its devices back. *)
LEMMA ClosedStays ==
  ASSUME [Next]_vars
  PROVE  (closed => closed') /\ (Healthy' => Healthy)
  <1>1. CASE ActionStep
    BY <1>1 DEF ActionStep, RejectEarly, RejectLate, ApplyTransition,
       ApplyReleaseAll, ApplyGridConnection, ApplyArcConnection, device,
       ApplyStateless, ActionTimesOut, Immediate, AdmitSchedule,
       RecordAdmission, Healthy
  <1>2. ASSUME NEW n \in Ids, WorkerStep(n)
        PROVE  UNCHANGED <<closed, backend>> /\ (fault' = TRUE \/ fault' = fault)
    BY <1>2 DEF WorkerStep, WorkerDue, WorkerCancelled, WorkerGivesUp,
       WorkerSubmits, WorkerDelivers, WorkerFails, WorkerDies,
       WorkerCompletes, OnlyWorker
  <1>3. ASSUME NEW c \in Clients,
               Heartbeat(c) \/ LeaseLapses(c) \/ Disconnect(c) \/ Expire(c)
        PROVE  UNCHANGED <<closed, backend>> /\ (fault' = TRUE \/ fault' = fault)
    BY <1>3 DEF Heartbeat, LeaseLapses, Disconnect, Expire, LeaseOnly,
       ReleaseFrame, ReleaseSucceeds, ReleaseFails, device
  <1>4. ASSUME NEW k \in Closers, CloseStep(k)
        PROVE  (closed => closed') /\ UNCHANGED fault
               /\ (backend' = "open" => backend = "open")
    BY <1>4 DEF CloseStep, AlreadyClosed, CloseFlag, CloseCheck, CloseCancels,
       CloseBackend, CloseEnds, CloseFails, CloseFrame, device
  <1>5. CASE NativeFault \/ Stop \/ Unwind \/ UNCHANGED vars
    BY <1>5 DEF NativeFault, Stop, Unwind, CloseFrame, device, vars, Healthy
  <1>6. ASSUME NEW who \in Callers, NEW req \in Requests, Request(who, req)
        PROVE  UNCHANGED <<closed, backend, fault>>
    BY <1>6 DEF Request, device
  <1>7. QED
    BY <1>1, <1>2, <1>3, <1>4, <1>5, <1>6 DEF Next, Exited, Healthy

LEMMA FlagsStep ==
  ASSUME IInv, FlagsAgree, [Next]_vars PROVE FlagsAgree'
  <1>1. CASE ActionStep
    BY <1>1 DEF ActionStep, RejectEarly, RejectLate, ApplyTransition,
       ApplyReleaseAll, ApplyGridConnection, ApplyArcConnection,
       ApplyStateless, ActionTimesOut, Immediate, AdmitSchedule,
       RecordAdmission, FlagsAgree
  <1>2. ASSUME NEW n \in Ids, WorkerStep(n)
        PROVE  UNCHANGED <<cancel, closed, backend>>
    BY <1>2 DEF WorkerStep, WorkerDue, WorkerCancelled, WorkerGivesUp,
       WorkerSubmits, WorkerDelivers, WorkerFails, WorkerDies,
       WorkerCompletes, OnlyWorker
  <1>3. ASSUME NEW c \in Clients,
               Heartbeat(c) \/ LeaseLapses(c) \/ Disconnect(c) \/ Expire(c)
        PROVE  UNCHANGED <<cancel, closed, backend>>
    BY <1>3 DEF Heartbeat, LeaseLapses, Disconnect, Expire, LeaseOnly,
       ReleaseFrame
  <1>4. ASSUME NEW k \in Closers, CloseStep(k)
        PROVE  FlagsAgree'
    <2>1. closer[k] \in {"check", "cancel", "backend", "closing"} => closed
      BY DEF IInv, ClosersClosed
    <2>2. QED
      BY <1>4, <2>1 DEF CloseStep, AlreadyClosed, CloseFlag, CloseCheck,
         CloseCancels, CloseBackend, CloseEnds, CloseFails, CloserAt,
         FlagsAgree
  <1>5. CASE NativeFault \/ Stop \/ Unwind \/ UNCHANGED vars
    BY <1>5 DEF NativeFault, Stop, Unwind, vars, FlagsAgree
  <1>6. ASSUME NEW who \in Callers, NEW req \in Requests, Request(who, req)
        PROVE  UNCHANGED <<cancel, closed, backend>>
    BY <1>6 DEF Request
  <1>7. QED
    BY <1>1, <1>2, <1>3, <1>4, <1>5, <1>6 DEF Next, Exited, FlagsAgree

(* A closer's last record touches no thread and no other part. *)
LEMMA CancelsFrame ==
  ASSUME IInv, NEW k \in Closers, CloseCancels(k)
  PROVE  /\ closed /\ closed' = closed
         /\ UNCHANGED <<held, latest, worker, act>>
         /\ \A n \in Ids : /\ sched'[n].plan = sched[n].plan
                           /\ sched'[n].delivered = sched[n].delivered
                           /\ sched'[n].status = "accepted"
                                => sched'[n] = sched[n]
  <1>1. /\ closed /\ UNCHANGED <<closed, held, latest, worker, act>>
        /\ sched' = [sched EXCEPT ![latest] = Cancelled(@)]
        /\ sched \in [Ids -> Records]
    BY DEF CloseCancels, CloserAt, CloseFrame, device, IInv, TypeOK,
       SchedulesOK, ClosersClosed
  <1>2. QED
    BY <1>1, RecordKeeps

LEMMA LatestStep ==
  ASSUME IInv, LatestDelivers, [Next]_vars PROVE LatestDelivers'
  <1>1. CASE UNCHANGED schedule
    BY <1>1 DEF LatestDelivers, schedule
  <1>2. CASE AdmitSchedule
    <2>1. /\ \A n \in Ids : worker[n] # "query"
          /\ worker' = [worker EXCEPT ![latest + 1] = "wait"]
          /\ worker \in [Ids -> WorkerPC]
      BY <1>2, NoQueryWhenFree
         DEF AdmitSchedule, Serving, IInv, TypeOK, SchedulesOK
    <2>2. QED
      BY <2>1 DEF LatestDelivers
  <1>3. CASE RecordAdmission
    BY <1>3 DEF RecordAdmission, LatestDelivers
  <1>4. ASSUME NEW n \in Ids, WorkerStep(n) PROVE LatestDelivers'
    <2>1. PICK from, to : Go(n, from, to) /\ OnlyWorker
                          /\ (to = "query" => WorkerSubmits(n))
      BY <1>4 DEF WorkerStep, WorkerDue, WorkerCancelled, WorkerGivesUp,
         WorkerSubmits, WorkerDelivers, WorkerFails, FailureReturns,
         WorkerDies, WorkerCompletes
    <2>2. /\ worker[n] = from /\ worker'[n] = to /\ latest' = latest
          /\ \A m \in Ids \ {n} : worker'[m] = worker[m]
      BY <2>1 DEF IInv, TypeOK, SchedulesOK, Go, OnlyWorker
    <2>3. WorkerSubmits(n) => n = latest
      BY DEF WorkerSubmits, Go, IInv, Delivering, OnlyLatestActive
    <2>4. QED
      BY <2>1, <2>2, <2>3 DEF LatestDelivers
  <1>5. ASSUME NEW k \in Closers, CloseCancels(k) PROVE LatestDelivers'
    BY <1>5, CancelsFrame DEF LatestDelivers
  <1>6. QED
    BY <1>1, <1>2, <1>3, <1>4, <1>5, QuietOrNot
-----------------------------------------------------------------------------
(* The journal. *)

LEMMA AppendSecond ==
  ASSUME NEW S, NEW a \in S, NEW b \in S PROVE Append(<<a>>, b) = <<a, b>>
  <1>1. <<a>> \in Seq(S) /\ Len(<<a>>) = 1 /\ <<a>>[1] = a
    OBVIOUS
  <1>2. <<a, b>> \in Seq(S) /\ Len(<<a, b>>) = 2
    OBVIOUS
  <1>3. <<a, b>>[1] = a /\ <<a, b>>[2] = b
    OBVIOUS
  <1>4. /\ Append(<<a>>, b) \in Seq(S) /\ Len(Append(<<a>>, b)) = 2
        /\ Append(<<a>>, b)[1] = a /\ Append(<<a>>, b)[2] = b
    <2>1. /\ Append(<<a>>, b) \in Seq(S)
          /\ Len(Append(<<a>>, b)) = Len(<<a>>) + 1
          /\ \A i \in 1 .. Len(<<a>>) : Append(<<a>>, b)[i] = <<a>>[i]
          /\ Append(<<a>>, b)[Len(<<a>>) + 1] = b
      BY <1>1, AppendProperties
    <2>2. QED
      BY <1>1, <2>1
  <1>5. \A i \in 1 .. 2 : i = 1 \/ i = 2
    OBVIOUS
  <1>6. \A i \in 1 .. 2 : Append(<<a>>, b)[i] = <<a, b>>[i]
    BY <1>3, <1>4, <1>5
  <1>7. QED
    BY <1>2, <1>4, <1>6, SeqEqual

(* What the threads write, for a schedule whose admission is recorded. *)
LEMMA RecordsWritten ==
  ASSUME NEW s \in Records
  PROVE  /\ s.journal = <<>> => Logged(s, "accepted").journal = <<"accepted">>
         /\ Failed(s).status = "failed"
         /\ s.journal = <<"accepted">>
              => /\ Failed(s).journal = <<"accepted", "failed">>
                 /\ Completed(s).journal = <<"accepted", "completed">>
         /\ s.status = "accepted" => Completed(s).status = "completed"
  <1>1. s = [status |-> s.status, plan |-> s.plan,
             delivered |-> s.delivered, journal |-> s.journal]
    BY DEF Records
  <1>2. /\ Logged(s, "accepted").journal = Append(s.journal, "accepted")
        /\ Failed(s).status = "failed"
        /\ Failed(s).journal = Append(s.journal, "failed")
        /\ Completed(s).journal = Append(s.journal, "completed")
        /\ s.status = "accepted" => Completed(s).status = "completed"
    BY <1>1 DEF Logged, Marked, Ended, Completed, Failed
  <1>3. /\ Append(<<"accepted">>, "failed") = <<"accepted", "failed">>
        /\ Append(<<"accepted">>, "completed") = <<"accepted", "completed">>
    <2>1. {"accepted", "completed", "failed"} \subseteq Statuses
      BY DEF Statuses
    <2>2. \A a, b \in Statuses : Append(<<a>>, b) = <<a, b>>
      BY AppendSecond
    <2>3. QED
      BY <2>1, <2>2, Zenon
  <1>4. Append(<<>>, "accepted") = <<"accepted">>
    OBVIOUS
  <1>5. QED
    BY <1>2, <1>3, <1>4

LEMMA AdmitJournals ==
  ASSUME IInv, Journals, AdmitSchedule, ~closed PROVE Journals'
  <1>1. /\ ~Busy /\ latest \in 0 .. MaxSchedules /\ act.phase = "waiting"
        /\ latest < MaxSchedules /\ latest' = latest + 1
        /\ act' = [phase |-> "admitting"]
        /\ sched' = [sched EXCEPT ![latest + 1] = Submitted(act.req.plan)]
        /\ worker' = [worker EXCEPT ![latest + 1] = "wait"]
        /\ DOMAIN sched = Ids /\ DOMAIN worker = Ids /\ MaxSchedules \in Nat
    BY ConstantsAssumption
       DEF AdmitSchedule, Serving, Admissible, IInv, TypeOK, SchedulesOK
  <1>2. ASSUME NEW n, n = latest + 1 PROVE JournalOf(n)'
    <2>1. sched'[n] = Submitted(act.req.plan) /\ worker'[n] = "wait"
      BY <1>1, <1>2 DEF Ids
    <2>2. QED
      BY <1>1, <1>2, <2>1 DEF JournalOf, Submitted, Unrecorded
  <1>3. ASSUME NEW n \in 1 .. latest PROVE JournalOf(n)'
    <2>1. /\ n \in Ids /\ n # latest + 1
          /\ sched'[n] = sched[n] /\ worker'[n] = worker[n]
      BY <1>1 DEF Ids
    <2>2. sched[n].status # "accepted"
      BY <1>1, <2>1 DEF IInv, OnlyLatestActive, Busy
    <2>3. JournalOf(n)
      BY DEF Journals
    <2>4. QED
      BY <1>1, <2>1, <2>2, <2>3 DEF JournalOf, Unrecorded
  <1>4. \A n \in 1 .. latest' : n = latest + 1 \/ n \in 1 .. latest
    BY <1>1
  <1>5. QED
    BY <1>2, <1>3, <1>4 DEF Journals

LEMMA RecordAdmissionJournals ==
  ASSUME IInv, Journals, RecordAdmission, ~closed PROVE Journals'
  <1>1. /\ sched' = [sched EXCEPT ![latest] = Logged(sched[latest], "accepted")]
        /\ act' = Idle /\ UNCHANGED <<latest, worker, closed>>
        /\ act.phase = "admitting"
        /\ sched \in [Ids -> Records] /\ latest \in 0 .. MaxSchedules
        /\ MaxSchedules \in Nat
    BY ConstantsAssumption
       DEF RecordAdmission, IInv, TypeOK, SchedulesOK
  <1>2. ASSUME NEW n \in 1 .. latest PROVE JournalOf(n)'
    <2>1. n \in Ids /\ JournalOf(n) /\ sched[n] \in Records
          /\ latest' = latest /\ worker'[n] = worker[n]
      BY <1>1 DEF Journals, Ids
    <2>2. CASE n = latest
      <3>1. sched'[n] = Logged(sched[n], "accepted")
        BY <1>1, <2>1, <2>2
      <3>2. /\ sched[n].status = "accepted" /\ sched[n].journal = <<>>
            /\ worker[n] \in {"wait", "due", "query", "finish"}
        BY <1>1, <2>1, <2>2 DEF JournalOf, Unrecorded
      <3>3. /\ sched'[n].status = "accepted"
            /\ sched'[n].journal = <<"accepted">>
        BY <2>1, <3>1, <3>2, RecordKeeps, RecordsWritten
      <3>4. QED
        BY <1>1, <2>1, <3>2, <3>3 DEF JournalOf, Unrecorded, Idle
    <2>3. CASE n # latest
      <3>1. sched'[n] = sched[n]
        BY <1>1, <2>1, <2>3
      <3>2. QED
        BY <1>1, <2>1, <2>3, <3>1 DEF JournalOf, Unrecorded, Idle
    <2>4. QED
      BY <2>2, <2>3
  <1>3. QED
    BY <1>1, <1>2 DEF Journals

(* A thread writes its own record only. *)
LEMMA WorkerTouches ==
  ASSUME IInv, NEW n \in Ids, WorkerStep(n)
  PROVE  /\ UNCHANGED <<act, latest, closed>>
         /\ \A m \in Ids \ {n} : worker'[m] = worker[m] /\ sched'[m] = sched[m]
  BY DEF IInv, TypeOK, SchedulesOK, WorkerStep, WorkerDue, WorkerCancelled,
     WorkerGivesUp, WorkerSubmits, WorkerDelivers, WorkerFails,
     FailureReturns, WorkerDies, WorkerCompletes, Go, OnlyWorker

LEMMA WorkerJournal ==
  ASSUME IInv, FlagsAgree, ~closed, NEW n \in Ids, JournalOf(n),
         WorkerStep(n)
  PROVE  JournalOf(n)'
  <1>1. /\ sched \in [Ids -> Records] /\ sched[n] \in Records
        /\ worker \in [Ids -> WorkerPC] /\ UNCHANGED <<act, latest>>
    BY WorkerTouches DEF IInv, TypeOK, SchedulesOK
  <1>2. ~cancel /\ backend = "open"
    BY DEF FlagsAgree
  <1>3. worker[n] # "done" => sched[n].status = "accepted"
    BY DEF JournalOf
  <1>4. lock # "action" /\ sched[n].status = "accepted"
          => ~Unrecorded(n) /\ sched[n].journal = <<"accepted">>
    BY DEF IInv, LockHolders, JournalOf, Unrecorded
  <1>5. ASSUME worker[n] # "done",
               worker'[n] \in {"wait", "due", "query", "finish"},
               sched'[n].status = sched[n].status,
               sched'[n].journal = sched[n].journal
        PROVE  JournalOf(n)'
    BY <1>1, <1>3, <1>5 DEF JournalOf, Unrecorded
  <1>6. CASE WorkerDue(n) \/ WorkerSubmits(n)
    BY <1>1, <1>5, <1>6 DEF WorkerDue, WorkerSubmits, Go
  <1>7. CASE WorkerCancelled(n) \/ WorkerDies(n)
    BY <1>2, <1>7 DEF WorkerCancelled, WorkerDies
  <1>8. CASE WorkerGivesUp(n)
    BY <1>8 DEF WorkerGivesUp, Go, JournalOf
  <1>9. CASE WorkerDelivers(n)
    <2>1. sched'[n] = [sched[n] EXCEPT !.delivered = @ + 1]
      BY <1>1, <1>9 DEF WorkerDelivers
    <2>2. /\ sched'[n].status = sched[n].status
          /\ sched'[n].journal = sched[n].journal
      BY <1>1, <2>1 DEF Records
    <2>3. worker[n] # "done" /\ worker'[n] \in {"wait", "finish"}
      BY <1>1, <1>9 DEF WorkerDelivers, Go
    <2>4. QED
      BY <1>5, <2>2, <2>3
  <1>10. CASE WorkerFails(n)
    <2>1. /\ worker[n] = "query" /\ worker'[n] = "done"
          /\ sched'[n] = Failed(sched[n])
      BY <1>1, <1>10 DEF WorkerFails, FailureReturns, Go
    <2>2. ~Unrecorded(n) /\ sched[n].journal = <<"accepted">>
      BY <1>3, <1>4, <2>1 DEF IInv, LockHolders
    <2>3. /\ sched'[n].status = "failed"
          /\ sched'[n].journal = <<"accepted", "failed">>
      BY <1>1, <2>1, <2>2, RecordsWritten
    <2>4. QED
      BY <1>1, <2>1, <2>2, <2>3 DEF JournalOf, Unrecorded
  <1>11. CASE WorkerCompletes(n)
    <2>1. /\ worker[n] = "finish" /\ worker'[n] = "done" /\ lock = "free"
          /\ sched'[n] = Completed(sched[n])
      BY <1>1, <1>11 DEF WorkerCompletes, Go
    <2>2. ~Unrecorded(n) /\ sched[n].journal = <<"accepted">>
          /\ sched[n].status = "accepted"
      BY <1>3, <1>4, <2>1
    <2>3. /\ sched'[n].status = "completed"
          /\ sched'[n].journal = <<"accepted", "completed">>
      BY <1>1, <2>1, <2>2, RecordsWritten
    <2>4. QED
      BY <1>1, <2>1, <2>2, <2>3 DEF JournalOf, Unrecorded
  <1>12. QED
    BY <1>6, <1>7, <1>8, <1>9, <1>10, <1>11 DEF WorkerStep

LEMMA JournalsStep ==
  ASSUME IInv, FlagsAgree, Journals, [Next]_vars PROVE Journals'
  <1>1. CASE closed'
    BY <1>1 DEF Journals
  <1>2. CASE ~closed'
    <2>1. ~closed
      BY <1>2, ClosedStays
    <2>2. CASE UNCHANGED schedule
               /\ (act'.phase = "admitting") = (act.phase = "admitting")
      <3>1. \A n \in 1 .. latest : JournalOf(n)' = JournalOf(n)
        BY <2>2 DEF JournalOf, Unrecorded, schedule
      <3>2. QED
        BY <2>1, <2>2, <3>1 DEF Journals, schedule
    <2>3. CASE AdmitSchedule
      BY <2>1, <2>3, AdmitJournals
    <2>4. CASE RecordAdmission
      BY <2>1, <2>4, RecordAdmissionJournals
    <2>5. ASSUME NEW n \in Ids, WorkerStep(n) PROVE Journals'
      <3>1. /\ UNCHANGED <<act, latest>>
            /\ \A m \in Ids \ {n} : worker'[m] = worker[m]
                                     /\ sched'[m] = sched[m]
        BY <2>5, WorkerTouches
      <3>2. ASSUME NEW m \in 1 .. latest PROVE JournalOf(m)'
        <4>1. m \in Ids /\ JournalOf(m)
          BY <2>1, ConstantsAssumption
             DEF Journals, IInv, TypeOK, SchedulesOK, Ids
        <4>2. CASE m = n
          BY <2>1, <2>5, <4>1, <4>2, WorkerJournal
        <4>3. CASE m # n
          BY <3>1, <4>1, <4>3 DEF JournalOf, Unrecorded
        <4>4. QED
          BY <4>2, <4>3
      <3>3. QED
        BY <3>1, <3>2 DEF Journals
    <2>6. ASSUME NEW k \in Closers, CloseCancels(k) PROVE Journals'
      BY <2>1, <2>6, CancelsFrame
    <2>7. QED
      BY <2>2, <2>3, <2>4, <2>5, <2>6, QuietOrNot
  <1>3. QED
    BY <1>1, <1>2
-----------------------------------------------------------------------------
(* Planned keys. *)

(* The first event has been delivered: what is left of an alternating plan *)
(* alternates from the state that the event leaves.                        *)
LEMMA AlternatesOn ==
  ASSUME NEW inputs, NEW down, NEW up,
         NEW q \in Seq(Events), NEW r \in Seq(Events),
         Len(q) = Len(r) + 1, \A k \in 1 .. Len(r) : r[k] = q[k + 1],
         Alternates(q, inputs, down),
         \A i \in inputs : i \in up <=> IF i = q[1].input THEN q[1].on
                                                        ELSE i \in down
  PROVE  Alternates(r, inputs, up)
  <1>1. /\ DOMAIN r = 1 .. Len(r) /\ DOMAIN q = 1 .. Len(q)
        /\ Len(r) \in Nat /\ Len(q) \in Nat
    OBVIOUS
  <1>2. \A k \in 1 .. Len(q) : q[k].on \in BOOLEAN
    <2>1. \A k \in 1 .. Len(q) : q[k] \in Events
      OBVIOUS
    <2>2. QED
      BY <2>1 DEF Events
  <1>3. SUFFICES ASSUME NEW k \in 1 .. Len(r), r[k].input \in inputs
                 PROVE  /\ (\A j \in 1 .. k-1 : r[j].input # r[k].input)
                              => r[k].on = (r[k].input \notin up)
                        /\ \A j \in 1 .. k-1 :
                             (/\ r[j].input = r[k].input
                              /\ \A m \in j+1 .. k-1 : r[m].input # r[k].input)
                             => r[k].on # r[j].on
    BY <1>1 DEF Alternates
  <1>4. k + 1 \in 1 .. Len(q) /\ r[k] = q[k + 1] /\ 1 \in 1 .. Len(q)
    BY <1>1
  <1>5. /\ (\A j \in 1 .. k : q[j].input # q[k + 1].input)
             => q[k + 1].on = (q[k + 1].input \notin down)
        /\ \A j \in 1 .. k :
             (/\ q[j].input = q[k + 1].input
              /\ \A m \in j+1 .. k : q[m].input # q[k + 1].input)
             => q[k + 1].on # q[j].on
    <2>1. (k + 1) - 1 = k
      OBVIOUS
    <2>2. k + 1 \in DOMAIN q /\ q[k + 1].input \in inputs
      BY <1>1, <1>3, <1>4
    <2>3. QED
      BY <2>1, <2>2 DEF Alternates
  <1>6. ASSUME \A j \in 1 .. k-1 : r[j].input # r[k].input
        PROVE  r[k].on = (r[k].input \notin up)
    <2>1. \A m \in 2 .. k : q[m].input # q[k + 1].input
      <3>1. ASSUME NEW m \in 2 .. k PROVE q[m].input # q[k + 1].input
        <4>1. m - 1 \in 1 .. k-1 /\ m - 1 \in 1 .. Len(r) /\ (m - 1) + 1 = m
          BY <1>1
        <4>2. QED
          BY <1>4, <1>6, <4>1
      <3>2. QED
        BY <3>1
    <2>2. CASE q[1].input = q[k + 1].input
      <3>1. q[k + 1].on # q[1].on
        BY <1>5, <2>1, <2>2
      <3>2. q[1].on \in BOOLEAN /\ q[k + 1].on \in BOOLEAN
        BY <1>2, <1>4
      <3>3. r[k].input \in up <=> q[1].on
        BY <1>3, <1>4, <2>2
      <3>4. QED
        BY <1>4, <3>1, <3>2, <3>3
    <2>3. CASE q[1].input # q[k + 1].input
      <3>1. \A j \in 1 .. k : q[j].input # q[k + 1].input
        BY <2>1, <2>3
      <3>2. q[k + 1].on = (q[k + 1].input \notin down)
        BY <1>5, <3>1
      <3>3. r[k].input \in up <=> r[k].input \in down
        BY <1>3, <1>4, <2>3
      <3>4. QED
        BY <1>4, <3>2, <3>3
    <2>4. QED
      BY <2>2, <2>3
  <1>7. ASSUME NEW j \in 1 .. k-1, r[j].input = r[k].input,
               \A m \in j+1 .. k-1 : r[m].input # r[k].input
        PROVE  r[k].on # r[j].on
    <2>1. j + 1 \in 1 .. k /\ j \in 1 .. Len(r) /\ r[j] = q[j + 1]
      BY <1>1
    <2>2. ASSUME NEW m \in (j + 1) + 1 .. k
          PROVE  q[m].input # q[k + 1].input
      <3>1. /\ m - 1 \in j+1 .. k-1 /\ m - 1 \in 1 .. Len(r)
            /\ (m - 1) + 1 = m
        BY <1>1
      <3>2. QED
        BY <1>4, <1>7, <3>1
    <2>3. QED
      BY <1>4, <1>5, <1>7, <2>1, <2>2
  <1>8. QED
    BY <1>6, <1>7

(* Inputs that a step leaves alone stay legal. *)
LEMMA AlternatesSame ==
  ASSUME NEW plan, NEW inputs, NEW down, NEW up,
         Alternates(plan, inputs, down),
         \A i \in inputs : i \in up <=> i \in down
  PROVE  Alternates(plan, inputs, up)
  BY DEF Alternates

LEMMA AlternatesFewer ==
  ASSUME NEW plan, NEW inputs, NEW fewer, fewer \subseteq inputs, NEW down,
         Alternates(plan, inputs, down)
  PROVE  Alternates(plan, fewer, down)
  BY DEF Alternates

(* What is left of a plan once some of its events have been delivered. *)
LEMMA RestOfPlan ==
  ASSUME NEW p \in Seq(Events), NEW d \in Nat, d <= Len(p)
  PROVE  /\ SubSeq(p, d + 1, Len(p)) \in Seq(Events)
         /\ Len(SubSeq(p, d + 1, Len(p))) = Len(p) - d
         /\ \A k \in 1 .. Len(p) - d : SubSeq(p, d + 1, Len(p))[k] = p[d + k]
  <1>1. /\ Len(p) \in Nat /\ d + 1 \in Int /\ Len(p) \in Int
        /\ \A i \in d + 1 .. Len(p) : p[i] \in Events
    OBVIOUS
  <1>2. /\ SubSeq(p, d + 1, Len(p)) \in Seq(Events)
        /\ Len(SubSeq(p, d + 1, Len(p)))
             = IF d + 1 <= Len(p) THEN Len(p) - (d + 1) + 1 ELSE 0
        /\ \A i \in 1 .. Len(p) - (d + 1) + 1 :
             SubSeq(p, d + 1, Len(p))[i] = p[d + 1 + i - 1]
    BY <1>1, SubSeqProperties
  <1>3. Len(p) - (d + 1) + 1 = Len(p) - d
    BY <1>1
  <1>4. \A k \in 1 .. Len(p) - d : d + 1 + k - 1 = d + k
    BY <1>1
  <1>5. QED
    <2>1. ASSUME NEW k \in 1 .. Len(p) - d
          PROVE  SubSeq(p, d + 1, Len(p))[k] = p[d + k]
      <3>1. k \in 1 .. Len(p) - (d + 1) + 1 /\ d + 1 + k - 1 = d + k
        BY <1>3, <1>4
      <3>2. SubSeq(p, d + 1, Len(p))[k] = p[d + 1 + k - 1]
        BY <1>2, <3>1
      <3>3. QED
        BY <3>1, <3>2
    <2>2. (IF d + 1 <= Len(p) THEN Len(p) - (d + 1) + 1 ELSE 0) = Len(p) - d
      BY <1>1
    <2>3. Len(SubSeq(p, d + 1, Len(p))) = Len(p) - d
      BY <1>2, <2>2
    <2>4. QED
      BY <1>2, <2>1, <2>3

LEMMA PlanType ==
  ASSUME TypeOK, NEW n \in Ids
  PROVE  /\ sched[n].plan \in Seq(Events) /\ Len(sched[n].plan) \in Nat
         /\ sched[n].delivered \in Nat
  <1>1. sched[n].plan \in Plans \cup {<<>>} /\ sched[n].delivered \in Nat
    BY DEF TypeOK, SchedulesOK, Records
  <1>2. Plans \subseteq Seq(Events) /\ <<>> \in Seq(Events)
    BY ConstantsAssumption, EmptySeq
  <1>3. sched[n].plan \in Seq(Events)
    BY <1>1, <1>2
  <1>4. QED
    BY <1>1, <1>3, LenProperties

(* What an immediate action makes the backend release during a schedule is *)
(* a pad or an arc key.                                                    *)
LEMMA ReleasedAreNotKeys ==
  ASSUME Immediate, Busy
  PROVE  act.req.kind # "release_all" /\ ToRelease \cap Keys = {}
  <1>1. act.req.kind # "release_all"
    BY DEF Immediate, RefusedEarly, Blocked
  <1>2. ToRelease \subseteq GridKeys \cup ArcKeys
    BY <1>1 DEF ToRelease
  <1>3. Keys \cap (GridKeys \cup ArcKeys) = {}
    BY ConstantsAssumption DEF Scheduled
  <1>4. QED
    BY <1>1, <1>2, <1>3

(* During a schedule only its own thread moves a key. *)
LEMMA KeysKept ==
  ASSUME IInv, [Next]_vars, Busy
  PROVE  \/ \E n \in Ids : WorkerDelivers(n)
         \/ \A i \in Keys : i \in held' <=> i \in held
  <1>1. CASE ActionStep
    <2>1. CASE ApplyTransition
      <3>1. Immediate /\ act.req.input \notin Keys
        BY <2>1 DEF ApplyTransition, Immediate, RefusedEarly, Blocked,
           Scheduled
      <3>2. QED
        BY <2>1, <3>1 DEF ApplyTransition
    <2>2. CASE ApplyReleaseAll \/ ApplyGridConnection \/ ApplyArcConnection
      <3>1. Immediate /\ held' = held \ ToRelease
        BY <2>2 DEF ApplyReleaseAll, ApplyGridConnection, ApplyArcConnection
      <3>2. QED
        BY <3>1, ReleasedAreNotKeys
    <2>3. CASE ActionTimesOut
      <3>1. Immediate /\ \E done \in SUBSET ToRelease : held' = held \ done
        BY <2>3 DEF ActionTimesOut
      <3>2. QED
        BY <3>1, ReleasedAreNotKeys
    <2>4. CASE \/ RejectEarly \/ RejectLate \/ ApplyStateless
               \/ AdmitSchedule \/ RecordAdmission
      BY <2>4 DEF RejectEarly, RejectLate, ApplyStateless, AdmitSchedule,
         RecordAdmission, device
    <2>5. QED
      BY <1>1, <2>1, <2>2, <2>3, <2>4 DEF ActionStep
  <1>2. ASSUME NEW n \in Ids, WorkerStep(n), ~WorkerDelivers(n)
        PROVE  UNCHANGED held
    BY <1>2 DEF WorkerStep, WorkerDue, WorkerCancelled, WorkerGivesUp,
       WorkerSubmits, WorkerFails, WorkerDies, WorkerCompletes
  <1>3. ASSUME NEW c \in Clients,
               Heartbeat(c) \/ LeaseLapses(c) \/ Disconnect(c) \/ Expire(c)
        PROVE  UNCHANGED held
    BY <1>3 DEF Heartbeat, LeaseLapses, Disconnect, Expire, LeaseOnly,
       ReleaseSucceeds, ReleaseFails, device
  <1>4. ASSUME NEW k \in Closers, CloseStep(k) PROVE UNCHANGED held
    BY <1>4 DEF CloseStep, AlreadyClosed, CloseFlag, CloseCheck, CloseCancels,
       CloseBackend, CloseEnds, CloseFails, CloseFrame, device
  <1>5. CASE NativeFault \/ Stop \/ Unwind \/ UNCHANGED vars
    BY <1>5 DEF NativeFault, Stop, Unwind, CloseFrame, device, vars
  <1>6. ASSUME NEW who \in Callers, NEW req \in Requests, Request(who, req)
        PROVE  UNCHANGED held
    BY <1>6 DEF Request, device
  <1>7. QED
    BY <1>1, <1>2, <1>3, <1>4, <1>5, <1>6 DEF Next, Exited

(* No other step changes what an active schedule still has to deliver. *)
LEMMA RemainingKept ==
  ASSUME IInv, [Next]_vars, ~AdmitSchedule, \A n \in Ids : ~WorkerDelivers(n),
         NEW m \in Ids, sched'[m].status = "accepted"
  PROVE  sched[m].status = "accepted" /\ Remaining(m)' = Remaining(m)
  <1>1. sched \in [Ids -> Records] /\ sched[m] \in Records
    BY DEF IInv, TypeOK, SchedulesOK
  <1>2. SUFFICES /\ sched[m].status = "accepted"
                 /\ sched'[m].plan = sched[m].plan
                 /\ sched'[m].delivered = sched[m].delivered
    BY DEF Remaining
  <1>3. CASE UNCHANGED schedule
    BY <1>3 DEF schedule
  <1>4. CASE RecordAdmission
    BY <1>1, <1>4, RecordKeeps DEF RecordAdmission
  <1>5. ASSUME NEW n \in Ids, WorkerStep(n)
        PROVE  sched'[m] = sched[m]
    <2>1. CASE m # n
      BY <1>5, <2>1, WorkerTouches
    <2>2. CASE m = n
      <3>1. WorkerGivesUp(n) => sched'[n] = Marked(sched[n], "cancelled")
        BY <1>1, <2>2 DEF WorkerGivesUp
      <3>2. WorkerFails(n) => sched'[n] = Failed(sched[n])
        BY <1>1, <2>2 DEF WorkerFails
      <3>3. WorkerCompletes(n) => sched'[n] = Completed(sched[n])
        BY <1>1, <2>2 DEF WorkerCompletes
      <3>4. ~WorkerGivesUp(n) /\ ~WorkerFails(n) /\ ~WorkerCompletes(n)
        BY <1>1, <2>2, <3>1, <3>2, <3>3, RecordKeeps
      <3>5. QED
        BY <1>5, <2>2, <3>4 DEF WorkerStep, WorkerDue, WorkerCancelled,
           WorkerSubmits, WorkerDies
    <2>3. QED
      BY <2>1, <2>2
  <1>6. ASSUME NEW k \in Closers, CloseCancels(k) PROVE sched'[m] = sched[m]
    BY <1>6, CancelsFrame
  <1>7. QED
    BY <1>3, <1>4, <1>5, <1>6, QuietOrNot

LEMMA AdmitLegal ==
  ASSUME IInv, IInv', AdmitSchedule PROVE PlannedKeysStayLegal'
  <1> DEFINE p == act.req.plan
  <1>1. /\ p \in Plans /\ Alternates(p, Scheduled, held)
        /\ latest' = latest + 1 /\ held' = held
        /\ sched' = [sched EXCEPT ![latest + 1] = Submitted(p)]
        /\ sched \in [Ids -> Records]
    BY ServingType, RequestShape
       DEF AdmitSchedule, Admissible, Deliverable, IInv, TypeOK, SchedulesOK,
           device
  <1>2. ASSUME NEW n \in Ids, sched'[n].status = "accepted"
        PROVE  Alternates(Remaining(n), Keys, held)'
    <2>1. n = latest + 1 /\ sched'[n] = Submitted(p)
      BY <1>1, <1>2 DEF IInv, OnlyLatestActive
    <2>2. Remaining(n)' = SubSeq(p, 1, Len(p))
      BY <2>1 DEF Remaining, Submitted
    <2>3. p \in Seq(Events)
      BY <1>1, ConstantsAssumption
    <2>4. SubSeq(p, 1, Len(p)) = p
      BY <2>3
    <2>5. Alternates(p, Keys, held)
      BY <1>1, AlternatesFewer DEF Scheduled
    <2>6. QED
      BY <1>1, <2>2, <2>4, <2>5
  <1>3. QED
    BY <1>2 DEF PlannedKeysStayLegal

LEMMA DeliverLegal ==
  ASSUME IInv, IInv', LatestDelivers, PlannedKeysStayLegal,
         NEW n \in Ids, WorkerDelivers(n)
  PROVE  PlannedKeysStayLegal'
  <1> DEFINE e == NextEvent(n)
  <1>1. /\ worker[n] = "query" /\ n = latest /\ latest' = latest
        /\ held' = IF e.on THEN held \cup {e.input} ELSE held \ {e.input}
        /\ sched' = [sched EXCEPT ![n].delivered = @ + 1]
        /\ sched \in [Ids -> Records] /\ sched[n] \in Records
        /\ sched[n].delivered < Len(sched[n].plan)
    BY DEF WorkerDelivers, OnlyWorker, LatestDelivers, IInv, Delivering,
       TypeOK, SchedulesOK
  <1>2. sched'[n] = [sched[n] EXCEPT !.delivered = @ + 1]
    BY <1>1
  <1>3. /\ sched'[n].status = sched[n].status
        /\ sched'[n].plan = sched[n].plan
        /\ sched'[n].delivered = sched[n].delivered + 1
    BY <1>1, <1>2 DEF Records
  <1>4. DEFINE p == sched[n].plan
               d == sched[n].delivered
               q == SubSeq(p, d + 1, Len(p))
               r == SubSeq(p, d + 2, Len(p))
  <1>5. /\ p \in Seq(Events) /\ d \in Nat /\ d + 1 \in Nat /\ Len(p) \in Nat
        /\ d + 1 <= Len(p) /\ d <= Len(p)
    BY <1>1, PlanType DEF IInv
  <1>6. Remaining(n) = q /\ Remaining(n)' = r
    <2>1. (d + 1) + 1 = d + 2
      BY <1>5
    <2>2. QED
      BY <1>3, <2>1 DEF Remaining
  <1>7. e = p[d + 1]
    BY DEF NextEvent
  <1> HIDE DEF e, p, d
  <1>8. /\ q \in Seq(Events) /\ Len(q) = Len(p) - d
        /\ \A k \in 1 .. Len(p) - d : q[k] = p[d + k]
    BY <1>5, RestOfPlan
  <1>9. /\ r \in Seq(Events) /\ Len(r) = Len(p) - (d + 1)
        /\ \A k \in 1 .. Len(p) - (d + 1) : r[k] = p[d + 1 + k]
    <2>1. (d + 1) + 1 = d + 2
      BY <1>5
    <2>2. QED
      BY <1>5, <2>1, RestOfPlan
  <1> HIDE DEF q, r
  <1>10. Len(q) = Len(r) + 1 /\ q[1] = e
    BY <1>5, <1>7, <1>8, <1>9
  <1>11. \A k \in 1 .. Len(r) : r[k] = q[k + 1]
    <2>1. ASSUME NEW k \in 1 .. Len(r) PROVE r[k] = q[k + 1]
      <3>1. /\ k + 1 \in 1 .. Len(p) - d /\ k \in 1 .. Len(p) - (d + 1)
            /\ d + (k + 1) = d + 1 + k
        BY <1>5, <1>9
      <3>2. QED
        BY <1>8, <1>9, <3>1
    <2>2. QED
      BY <2>1
  <1>12. \A i \in Keys : i \in held' <=> IF i = e.input THEN e.on
                                                      ELSE i \in held
    BY <1>1
  <1>13. ASSUME NEW m \in Ids, sched'[m].status = "accepted"
         PROVE  Alternates(Remaining(m), Keys, held)'
    <2>1. m = n
      BY <1>1, <1>13 DEF IInv, OnlyLatestActive
    <2>2. Alternates(q, Keys, held)
      BY <1>3, <1>6, <1>13, <2>1 DEF PlannedKeysStayLegal
    <2>3. Alternates(r, Keys, held')
      BY <1>8, <1>9, <1>10, <1>11, <1>12, <2>2, AlternatesOn
    <2>4. QED
      BY <1>6, <2>1, <2>3
  <1>14. QED
    BY <1>13 DEF PlannedKeysStayLegal

LEMMA PlannedStep ==
  ASSUME IInv, IInv', LatestDelivers, PlannedKeysStayLegal, [Next]_vars
  PROVE  PlannedKeysStayLegal'
  <1>1. CASE AdmitSchedule
    BY <1>1, AdmitLegal
  <1>2. CASE \E n \in Ids : WorkerDelivers(n)
    BY <1>2, DeliverLegal
  <1>3. CASE ~AdmitSchedule /\ \A n \in Ids : ~WorkerDelivers(n)
    <2>1. ASSUME NEW m \in Ids, sched'[m].status = "accepted"
          PROVE  Alternates(Remaining(m), Keys, held)'
      <3>1. sched[m].status = "accepted" /\ Remaining(m)' = Remaining(m)
        BY <1>3, <2>1, RemainingKept
      <3>2. Busy /\ Alternates(Remaining(m), Keys, held)
        BY <3>1 DEF IInv, OnlyLatestActive, Busy, Ids, PlannedKeysStayLegal
      <3>3. \A i \in Keys : i \in held' <=> i \in held
        BY <1>3, <3>2, KeysKept
      <3>4. Alternates(Remaining(m), Keys, held')
        BY <3>2, <3>3, AlternatesSame
      <3>5. QED
        BY <3>1, <3>4
    <2>2. QED
      BY <2>1 DEF PlannedKeysStayLegal
  <1>4. QED
    BY <1>1, <1>2, <1>3
-----------------------------------------------------------------------------
(* Leases. *)

(* A step that takes no ownership and no lease. *)
LEMMA LeaseFrame ==
  ASSUME OwnedInputHasLease, Healthy' => Healthy,
         \A i \in Controls : owner'[i] \in {owner[i], Nobody},
         \A c \in Clients : lease[c] # "absent" => lease'[c] # "absent"
  PROVE  OwnedInputHasLease'
  BY ConstantsAssumption DEF OwnedInputHasLease, Owned, Callers

LEMMA LeaseStep ==
  ASSUME ArcKeys = {}, IInv, OwnedInputHasLease, [Next]_vars
  PROVE  OwnedInputHasLease'
  <1>1. Healthy' => Healthy
    BY ClosedStays
  <1>2. lease \in [Clients -> {"absent", "fresh", "lapsed"}]
        /\ owner \in [Controls -> Callers \cup {Nobody}]
    BY DEF IInv, TypeOK, CallersOK
  <1>3. ASSUME Immediate
        PROVE  \A c \in Clients : lease[c] # "absent" => lease'[c] # "absent"
    BY <1>2, <1>3 DEF Immediate, Touch
  <1>4. CASE ApplyTransition
    <2>1. /\ Immediate /\ act.req.input \in Controls
          /\ owner' = [owner EXCEPT ![act.req.input] =
                         IF act.req.on THEN act.caller ELSE Nobody]
      BY <1>4, ServingType, RequestShape
         DEF ApplyTransition, Immediate, IInv, TypeOK
    <2>2. FromClient => lease'[act.caller] = "fresh"
      BY <1>2, <2>1 DEF Immediate, Touch, FromClient
    <2>3. ASSUME NEW c \in Clients, Healthy', Owned(c)' # {}
          PROVE  lease'[c] # "absent"
      <3>1. PICK i \in Controls : owner'[i] = c
        BY <2>3 DEF Owned
      <3>2. CASE c = act.caller
        BY <2>2, <2>3, <3>2 DEF FromClient
      <3>3. CASE c # act.caller
        <4>1. owner[i] = c
          BY <1>2, <2>1, <3>1, <3>3, ConstantsAssumption DEF Callers
        <4>2. lease[c] # "absent"
          BY <1>1, <2>3, <4>1 DEF OwnedInputHasLease, Owned
        <4>3. QED
          BY <1>3, <2>1, <4>2
      <3>4. QED
        BY <3>2, <3>3
    <2>4. QED
      BY <2>3 DEF OwnedInputHasLease
  <1>5. CASE ActionStep /\ ~ApplyTransition
    <2>1. \A i \in Controls : owner'[i] \in {owner[i], Nobody}
      BY <1>5 DEF ActionStep, RejectEarly, RejectLate, ApplyReleaseAll,
         ApplyGridConnection, ApplyArcConnection, ApplyStateless,
         ActionTimesOut, AdmitSchedule, RecordAdmission, Disown
    <2>2. Immediate \/ UNCHANGED lease
      BY <1>5 DEF ActionStep, RejectEarly, RejectLate, ApplyReleaseAll,
         ApplyGridConnection, ApplyArcConnection, ApplyStateless,
         ActionTimesOut, AdmitSchedule, RecordAdmission
    <2>3. QED
      BY <1>1, <1>3, <2>1, <2>2, LeaseFrame
  <1>6. ASSUME NEW n \in Ids, WorkerStep(n) PROVE UNCHANGED <<owner, lease>>
    BY <1>6 DEF WorkerStep, WorkerDue, WorkerCancelled, WorkerGivesUp,
       WorkerSubmits, WorkerDelivers, WorkerFails, WorkerDies,
       WorkerCompletes, OnlyWorker
  <1>7. ASSUME NEW c \in Clients, Heartbeat(c) \/ LeaseLapses(c)
        PROVE  OwnedInputHasLease'
    <2>1. UNCHANGED owner
          /\ \A d \in Clients : lease[d] # "absent" => lease'[d] # "absent"
      BY <1>2, <1>7 DEF Heartbeat, LeaseLapses, LeaseOnly, Touch
    <2>2. QED
      BY <1>1, <2>1, LeaseFrame
  <1>8. ASSUME NEW c \in Clients, ReleaseSucceeds(c) \/ ReleaseFails(c),
               Healthy'
        PROVE  OwnedInputHasLease'
    <2>1. /\ \A d \in Clients \ {c} : lease'[d] = lease[d]
          /\ \A i \in Controls : owner'[i] \in {owner[i], Nobody}
      BY <1>2, <1>8 DEF ReleaseSucceeds, ReleaseFails, Forget, Disown
    <2>2. Healthy /\ (~Busy \/ Owned(c) = {}) /\ Owned(c) \subseteq held
      <3>1. Healthy
        BY <1>1, <1>8
      <3>2. Owned(c) \subseteq held
        BY <3>1, ConstantsAssumption
           DEF IInv, OwnedInputsAreHeld, Owned, Callers
      <3>3. Busy => Owned(c) = {}
        BY ConstantsAssumption
           DEF IInv, ScheduleExcludesOwners, Owned, Callers, Controls
      <3>4. QED
        BY <3>1, <3>2, <3>3
    <2>3. Owned(c)' = {}
      <3>1. CASE Busy
        BY <2>1, <2>2, <3>1, ConstantsAssumption DEF Owned, Callers
      <3>2. CASE ~Busy
        <4>1. ReleaseSucceeds(c)
          BY <1>8, <2>2, <3>2 DEF ReleaseFails, Healthy
        <4>2. QED
          BY <4>1, ConstantsAssumption
             DEF ReleaseSucceeds, Disown, Owned, Callers
      <3>3. QED
        BY <3>1, <3>2
    <2>4. \A d \in Clients \ {c} : Owned(d)' \subseteq Owned(d)
      BY <2>1, ConstantsAssumption DEF Owned, Callers
    <2>5. ASSUME NEW d \in Clients, Owned(d)' # {} PROVE lease'[d] # "absent"
      BY <2>1, <2>2, <2>3, <2>4, <2>5 DEF OwnedInputHasLease
    <2>6. QED
      BY <2>5 DEF OwnedInputHasLease
  <1>9. ASSUME NEW c \in Clients, Disconnect(c) \/ Expire(c)
        PROVE  OwnedInputHasLease'
    <2>1. ReleaseSucceeds(c) \/ ReleaseFails(c)
      BY <1>9 DEF Disconnect, Expire
    <2>2. CASE Healthy'
      BY <1>8, <2>1, <2>2
    <2>3. CASE ~Healthy'
      BY <2>3 DEF OwnedInputHasLease
    <2>4. QED
      BY <2>2, <2>3
  <1>10. ASSUME NEW k \in Closers, CloseStep(k) PROVE UNCHANGED <<owner, lease>>
    BY <1>10 DEF CloseStep, AlreadyClosed, CloseFlag, CloseCheck,
       CloseCancels, CloseBackend, CloseEnds, CloseFails, CloseFrame
  <1>11. CASE NativeFault \/ Stop \/ Unwind \/ UNCHANGED vars
    BY <1>11, <1>1, LeaseFrame DEF NativeFault, Stop, Unwind, CloseFrame, vars
  <1>12. ASSUME NEW who \in Callers, NEW req \in Requests, Request(who, req)
        PROVE  UNCHANGED <<owner, lease>>
    BY <1>12 DEF Request
  <1>13. UNCHANGED <<owner, lease>> => OwnedInputHasLease'
    BY <1>1, LeaseFrame
  <1>14. QED
    BY <1>4, <1>5, <1>6, <1>7, <1>9, <1>10, <1>11, <1>12, <1>13
       DEF Next, Exited
-----------------------------------------------------------------------------
LEMMA InitSInv == Init => SInv
  <1> SUFFICES ASSUME Init PROVE SInv
    OBVIOUS
  <1>1. FlagsAgree /\ LatestDelivers
    BY DEF Init, FlagsAgree, LatestDelivers
  <1>2. Journals /\ PlannedKeysStayLegal
    BY DEF Init, Journals, PlannedKeysStayLegal, NoSchedule
  <1>3. QED
    BY <1>1, <1>2 DEF SInv

LEMMA NextSInv ==
  ASSUME IInv, IInv', SInv, [Next]_vars PROVE SInv'
  BY FlagsStep, LatestStep, JournalsStep, PlannedStep DEF SInv

(* Every reachable state satisfies the strengthened invariant as well. *)
THEOREM ScheduleInvariant == Spec => []SInv
  <1>1. Init => SInv
    BY InitSInv
  <1>2. IInv /\ IInv' /\ SInv /\ [Next]_vars => SInv'
    BY NextSInv
  <1>3. QED
    BY <1>1, <1>2, Invariant, PTL DEF Spec

(* What the admission of a schedule simulated on the held set stays true   *)
(* until its last event: no request of another caller, no release, no      *)
(* other schedule and no shutdown makes a planned key transition a         *)
(* duplicate, whatever the plan.                                           *)
THEOREM KeysStayLegal == Spec => []PlannedKeysStayLegal
  <1>1. SInv => PlannedKeysStayLegal
    BY DEF SInv
  <1>2. QED
    BY <1>1, ScheduleInvariant, PTL

(* While the session is open the journal says of every schedule that it    *)
(* was admitted and, exactly once, how it ended.                           *)
THEOREM JournalIsExact == Spec => []JournalIsExactWhileOpen
  <1>1. SInv => JournalIsExactWhileOpen
    BY DEF SInv, Journals, JournalOf, JournalIsExactWhileOpen
  <1>2. QED
    BY <1>1, ScheduleInvariant, PTL

(* In a session without an arc an input that a browser owns can be given   *)
(* back: its owner still has a lease.                                      *)
THEOREM OwnersHaveLeases ==
  ASSUME ArcKeys = {}
  PROVE  Spec => []OwnedInputHasLease
  <1>1. Init => OwnedInputHasLease
    BY ConstantsAssumption DEF Init, OwnedInputHasLease, Owned, Callers
  <1>2. IInv /\ OwnedInputHasLease /\ [Next]_vars => OwnedInputHasLease'
    BY LeaseStep
  <1>3. QED
    BY <1>1, <1>2, Invariant, PTL DEF Spec

-----------------------------------------------------------------------------
(***************************************************************************)
(* What holds of a session that ends by /stop alone.                       *)
(*                                                                         *)
(* The theorems assume that SIGTERM does not come, as their runs do: the   *)
(* main thread closes without app.lock, and then a request past its closed *)
(* check still reaches the device, and a delivery thread ends a schedule   *)
(* without a record.  Without SIGTERM the main thread closes only after    *)
(* /stop has, and /stop holds app.lock from its first step until it has    *)
(* left the backend: Orderly says what follows for the threads that wait   *)
(* for the lock.                                                           *)
(***************************************************************************)

(* A session that is closed while its backend is open is being closed by   *)
(* /stop; the main thread comes after it.                                  *)
StopLeads ==
  /\ closer["main"] # "idle" => closer["stop"] = "done"
  /\ closer["stop"] \in {"closing", "done"} \/ complete => backend # "open"
  /\ closed /\ backend = "open"
       => closer["stop"] \in {"check", "cancel", "backend"}

(* No query is under way in a closed session, and nothing else than close()*)
(* makes a delivery thread give up.                                        *)
ThreadsYield ==
  \A n \in Ids : /\ worker[n] = "query" => ~closed
                 /\ worker[n] = "cancelled" => closed

(* The backend is left only once no schedule is active. *)
NothingActive == backend # "open" \/ closer["stop"] = "backend" => ~Busy

(* A cancelled schedule has a record of it. *)
HasRecord(s) == s.status = "cancelled"
  => \E r \in DOMAIN s.journal : s.journal[r] = "cancelled"

CancelsRecorded == \A n \in Ids : HasRecord(sched[n])

Orderly == StopLeads /\ ThreadsYield /\ NothingActive /\ CancelsRecorded
-----------------------------------------------------------------------------
LEMMA CloseUnmoved ==
  ASSUME [Next]_vars
  PROVE  \/ Stop \/ Unwind \/ \E k \in Closers : CloseStep(k)
         \/ UNCHANGED closing
  <1>1. CASE ActionStep
    BY <1>1 DEF ActionStep, RejectEarly, RejectLate, ApplyTransition,
       ApplyReleaseAll, ApplyGridConnection, ApplyArcConnection,
       ApplyStateless, ActionTimesOut, Immediate, AdmitSchedule,
       RecordAdmission, closing
  <1>2. ASSUME NEW n \in Ids, WorkerStep(n) PROVE UNCHANGED closing
    BY <1>2 DEF WorkerStep, WorkerDue, WorkerCancelled, WorkerGivesUp,
       WorkerSubmits, WorkerDelivers, WorkerFails, WorkerDies,
       WorkerCompletes, OnlyWorker, closing
  <1>3. ASSUME NEW c \in Clients,
               Heartbeat(c) \/ LeaseLapses(c) \/ Disconnect(c) \/ Expire(c)
        PROVE  UNCHANGED closing
    BY <1>3 DEF Heartbeat, LeaseLapses, Disconnect, Expire, LeaseOnly,
       ReleaseFrame, closing
  <1>4. ASSUME NEW who \in Callers, NEW req \in Requests, Request(who, req)
        PROVE  UNCHANGED closing
    BY <1>4 DEF Request, closing
  <1>5. CASE NativeFault \/ UNCHANGED vars
    BY <1>5 DEF NativeFault, vars, closing
  <1>6. QED
    BY <1>1, <1>2, <1>3, <1>4, <1>5 DEF Next, Exited

LEMMA StopLeadsStep ==
  ASSUME Terminates = FALSE, IInv, FlagsAgree, StopLeads, [Next]_vars
  PROVE  StopLeads'
  <1>1. closer \in [Closers -> ClosePC] /\ "stop" \in Closers /\ "main" \in Closers
    BY DEF IInv, TypeOK, SessionOK, Closers
  <1>2. CASE UNCHANGED closing
    BY <1>2 DEF StopLeads, closing
  <1>3. CASE Stop
    BY <1>1, <1>3 DEF Stop, CloserAt, StopLeads
  <1>4. CASE Unwind
    BY <1>1, <1>4 DEF Unwind, CloserAt, StopLeads
  <1>5. CASE CloseStep("stop")
    <2>1. /\ closer["stop"] \notin {"idle", "done"}
          /\ closer'["main"] = closer["main"]
      BY <1>1, <1>5 DEF CloseStep, AlreadyClosed, CloseFlag, CloseCheck,
         CloseCancels, CloseBackend, CloseEnds, CloseFails, CloserAt
    <2>2. closer'["main"] = "idle"
      BY <2>1 DEF StopLeads
    <2>3. CASE AlreadyClosed("stop") \/ CloseFlag("stop")
      BY <1>1, <2>2, <2>3 DEF AlreadyClosed, CloseFlag, CloserAt, StopLeads
    <2>4. CASE CloseCheck("stop") \/ CloseCancels("stop")
      BY <1>1, <2>2, <2>4 DEF CloseCheck, CloseCancels, CloserAt, StopLeads
    <2>5. CASE CloseBackend("stop")
      BY <1>1, <2>2, <2>5 DEF CloseBackend, CloserAt, StopLeads
    <2>6. CASE CloseEnds("stop") \/ CloseFails("stop")
      BY <1>1, <2>2, <2>6 DEF CloseEnds, CloseFails, CloserAt, StopLeads
    <2>7. QED
      BY <1>5, <2>3, <2>4, <2>5, <2>6 DEF CloseStep
  <1>6. CASE CloseStep("main")
    <2>1. /\ closer["main"] # "idle" /\ closer'["stop"] = closer["stop"]
      BY <1>1, <1>6 DEF CloseStep, AlreadyClosed, CloseFlag, CloseCheck,
         CloseCancels, CloseBackend, CloseEnds, CloseFails, CloserAt
    <2>2. backend # "open" /\ closer["stop"] = "done"
      BY <2>1 DEF StopLeads
    <2>3. backend' # "open"
      BY <1>6, <2>2 DEF CloseStep, AlreadyClosed, CloseFlag, CloseCheck,
         CloseCancels, CloseBackend, CloseEnds, CloseFails
    <2>4. QED
      BY <2>1, <2>2, <2>3 DEF StopLeads
  <1>7. QED
    BY <1>2, <1>3, <1>4, <1>5, <1>6, CloseUnmoved DEF Closers

(* Whoever finds app.lock free in a closed session finds the backend left. *)
LEMMA ClosedAndFree ==
  ASSUME IInv, StopLeads, closed, lock = "free"
  PROVE  backend # "open" /\ ~Healthy
  BY DEF IInv, LockHolders, StopLeads, Healthy

LEMMA ThreadsYieldStep ==
  ASSUME IInv, FlagsAgree, StopLeads, ThreadsYield, [Next]_vars
  PROVE  ThreadsYield'
  <1>1. worker \in [Ids -> WorkerPC]
    BY DEF IInv, TypeOK, SchedulesOK
  <1>2. CASE closed' = closed /\ UNCHANGED worker
    BY <1>2 DEF ThreadsYield
  <1>3. CASE AdmitSchedule
    BY <1>1, <1>3 DEF AdmitSchedule, ThreadsYield
  <1>4. ASSUME NEW n \in Ids, WorkerStep(n) PROVE ThreadsYield'
    <2>1. PICK from, to : /\ Go(n, from, to) /\ OnlyWorker
                          /\ to = "query" => WorkerSubmits(n)
                          /\ to = "cancelled" => WorkerCancelled(n)
      BY <1>4 DEF WorkerStep, WorkerDue, WorkerCancelled, WorkerGivesUp,
         WorkerSubmits, WorkerDelivers, WorkerFails, FailureReturns,
         WorkerDies, WorkerCompletes
    <2>2. /\ worker'[n] = to /\ closed' = closed
          /\ \A m \in Ids \ {n} : worker'[m] = worker[m]
      BY <1>1, <2>1 DEF Go, OnlyWorker
    <2>3. (to = "query" => ~closed) /\ (to = "cancelled" => closed)
      BY <2>1 DEF WorkerSubmits, WorkerCancelled, FlagsAgree
    <2>4. QED
      BY <2>2, <2>3 DEF ThreadsYield
  <1>5. ASSUME NEW k \in Closers, CloseFlag(k) PROVE ThreadsYield'
    <2>1. UNCHANGED worker /\ closed' /\ closer[k] = "flag"
      BY <1>5 DEF CloseFlag, CloseFrame, CloserAt
    <2>2. \A n \in Ids : worker[n] # "query"
      <3>1. CASE k = "stop"
        BY <2>1, <3>1 DEF IInv, LockHolders
      <3>2. CASE k = "main"
        BY <2>1, <3>2 DEF StopLeads, FlagsAgree, ThreadsYield
      <3>3. QED
        BY <3>1, <3>2 DEF Closers
    <2>3. QED
      BY <2>1, <2>2 DEF ThreadsYield
  <1>6. ASSUME NEW k \in Closers, CloseStep(k), ~CloseFlag(k)
        PROVE  UNCHANGED <<closed, worker>>
    BY <1>6 DEF CloseStep, AlreadyClosed, CloseCheck, CloseCancels,
       CloseBackend, CloseEnds, CloseFails, CloseFrame
  <1>7. CASE UNCHANGED schedule \/ RecordAdmission
    <2>1. UNCHANGED worker
      BY <1>7 DEF schedule, RecordAdmission
    <2>2. CASE \E k \in Closers : CloseStep(k)
      BY <1>2, <1>5, <1>6, <2>2
    <2>3. CASE Stop \/ Unwind \/ UNCHANGED closing
      BY <1>2, <2>1, <2>3 DEF Stop, Unwind, closing
    <2>4. QED
      BY <2>2, <2>3, CloseUnmoved
  <1>8. ASSUME NEW k \in Closers, CloseCancels(k)
        PROVE  UNCHANGED <<closed, worker>>
    BY <1>8 DEF CloseCancels, CloseFrame
  <1>9. QED
    BY <1>2, <1>3, <1>4, <1>7, <1>8, QuietOrNot

(* Only an admission makes a schedule active. *)
LEMMA BusyKept ==
  ASSUME IInv, IInv', [Next]_vars, ~AdmitSchedule, Busy'
  PROVE  Busy
  <1>1. /\ latest' \in Ids /\ sched'[latest'].status = "accepted"
    BY DEF Busy, IInv, TypeOK, SchedulesOK, Ids
  <1>2. PICK m \in Ids : m = latest' /\ sched'[m].status = "accepted"
    BY <1>1
  <1>3. sched[m].status = "accepted"
    <2>1. ASSUME NEW n \in Ids, WorkerDelivers(n)
          PROVE  sched'[m].status = sched[m].status
      BY <2>1 DEF WorkerDelivers, IInv, TypeOK, SchedulesOK, Records
    <2>2. QED
      BY <1>2, <2>1, RemainingKept
  <1>4. QED
    BY <1>3 DEF Busy, IInv, OnlyLatestActive, Ids

LEMMA NothingActiveStep ==
  ASSUME IInv, IInv', StopLeads, NothingActive, [Next]_vars
  PROVE  NothingActive'
  <1>1. CASE AdmitSchedule
    <2>1. /\ backend = "open" /\ lock = "free"
          /\ UNCHANGED <<backend, closer>>
      BY <1>1 DEF AdmitSchedule, Serving, Admissible, Healthy
    <2>2. closer["stop"] # "backend"
      BY <2>1 DEF IInv, LockHolders
    <2>3. QED
      BY <2>1, <2>2 DEF NothingActive
  <1>2. CASE ~AdmitSchedule
    <2>1. Busy' => Busy
      BY <1>2, BusyKept
    <2>2. CASE UNCHANGED closing
      BY <2>1, <2>2 DEF NothingActive, closing
    <2>3. CASE Stop \/ Unwind
      <3>1. /\ closer \in [Closers -> ClosePC] /\ backend' = backend
            /\ \E k \in Closers : closer' = [closer EXCEPT ![k] = "flag"]
        BY <2>3 DEF Stop, Unwind, CloserAt, IInv, TypeOK, SessionOK, Closers
      <3>2. closer'["stop"] = "backend" => closer["stop"] = "backend"
        BY <3>1 DEF Closers
      <3>3. QED
        BY <2>1, <3>1, <3>2 DEF NothingActive
    <2>4. ASSUME NEW k \in Closers, CloseStep(k) PROVE NothingActive'
      <3>1. closer \in [Closers -> ClosePC] /\ k \in {"stop", "main"}
        BY DEF IInv, TypeOK, SessionOK, Closers
      <3>2. closer[k] # "idle" /\ k = "main" => backend # "open"
        BY DEF StopLeads
      <3>3. CASE AlreadyClosed(k) \/ CloseFlag(k)
        <4>1. /\ backend' = backend
              /\ \E to \in {"done", "check"} : closer' = [closer EXCEPT ![k] = to]
          BY <3>3 DEF AlreadyClosed, CloseFlag, CloserAt
        <4>2. closer'["stop"] = "backend" => closer["stop"] = "backend"
          BY <3>1, <4>1 DEF Closers
        <4>3. QED
          BY <2>1, <4>1, <4>2 DEF NothingActive
      <3>4. CASE CloseCheck(k)
        BY <2>1, <3>1, <3>2, <3>4
           DEF CloseCheck, CloserAt, NothingActive, Closers
      <3>5. CASE CloseCancels(k)
        <4>1. /\ sched' = [sched EXCEPT ![latest] = Cancelled(@)]
              /\ latest' = latest /\ sched \in [Ids -> Records]
              /\ Busy => latest \in Ids
          BY <3>5 DEF CloseCancels, CloseFrame, IInv, TypeOK, SchedulesOK,
             Busy, Ids
        <4>2. ~Busy'
          BY <2>1, <4>1, RecordKeeps DEF Busy
        <4>3. QED
          BY <4>2 DEF NothingActive
      <3>6. CASE CloseBackend(k)
        BY <2>1, <3>1, <3>2, <3>6
           DEF CloseBackend, CloserAt, NothingActive, Closers
      <3>7. CASE CloseEnds(k) \/ CloseFails(k)
        <4>1. closer[k] = "closing" /\ backend # "open"
          BY <3>2, <3>7 DEF CloseEnds, CloseFails, CloserAt, StopLeads, Closers
        <4>2. QED
          BY <2>1, <4>1 DEF NothingActive
      <3>8. QED
        BY <2>4, <3>3, <3>4, <3>5, <3>6, <3>7 DEF CloseStep
    <2>5. QED
      BY <2>2, <2>3, <2>4, CloseUnmoved
  <1>3. QED
    BY <1>1, <1>2
-----------------------------------------------------------------------------
(* Records *)

LEMMA AppendedRecord ==
  ASSUME NEW j \in Seq(Statuses), NEW x \in Statuses
  PROVE  /\ (\E r \in DOMAIN j : j[r] = "cancelled")
              => \E r \in DOMAIN Append(j, x) : Append(j, x)[r] = "cancelled"
         /\ x = "cancelled"
              => \E r \in DOMAIN Append(j, x) : Append(j, x)[r] = "cancelled"
  <1>1. /\ Append(j, x) \in Seq(Statuses) /\ Len(Append(j, x)) = Len(j) + 1
        /\ \A i \in 1 .. Len(j) : Append(j, x)[i] = j[i]
        /\ Append(j, x)[Len(j) + 1] = x /\ Len(j) \in Nat
        /\ DOMAIN j = 1 .. Len(j)
    BY AppendProperties, LenProperties
  <1>2. DOMAIN Append(j, x) = 1 .. Len(j) + 1
    BY <1>1, LenProperties
  <1>3. DOMAIN j \subseteq DOMAIN Append(j, x)
        /\ Len(j) + 1 \in DOMAIN Append(j, x)
    BY <1>1, <1>2
  <1>4. QED
    BY <1>1, <1>3

(* Whatever a thread appends, a record of the cancellation stays. *)
LEMMA RecordStays ==
  ASSUME NEW s \in Records, HasRecord(s)
  PROVE  /\ HasRecord(Logged(s, "accepted")) /\ HasRecord(Failed(s))
         /\ HasRecord(Completed(s)) /\ HasRecord(Cancelled(s))
  <1>1. /\ s = [status |-> s.status, plan |-> s.plan,
                delivered |-> s.delivered, journal |-> s.journal]
        /\ s.journal \in Seq(Statuses)
    BY DEF Records
  <1>2. /\ Logged(s, "accepted").journal = Append(s.journal, "accepted")
        /\ Logged(s, "accepted").status = s.status
        /\ Failed(s).status = "failed"
        /\ Completed(s).journal = Append(s.journal, "completed")
        /\ Completed(s).status \in {s.status, "completed"}
        /\ Cancelled(s).journal = Append(s.journal, "cancelled")
    BY <1>1 DEF Logged, Marked, Ended, Completed, Failed, Cancelled
  <1>3. HasRecord(Logged(s, "accepted"))
    BY <1>1, <1>2, AppendedRecord DEF HasRecord, Statuses
  <1>4. HasRecord(Completed(s))
    BY <1>1, <1>2, AppendedRecord DEF HasRecord, Statuses
  <1>5. HasRecord(Cancelled(s))
    BY <1>1, <1>2, AppendedRecord DEF HasRecord, Statuses
  <1>6. QED
    BY <1>2, <1>3, <1>4, <1>5 DEF HasRecord

(* A thread gives up without a record only where nothing is active. *)
LEMMA GivingUpIsIdle ==
  ASSUME IInv, StopLeads, ThreadsYield, NothingActive,
         NEW n \in Ids, WorkerGivesUp(n)
  PROVE  sched'[n] = sched[n]
  <1>1. /\ sched' = [sched EXCEPT ![n] = Marked(@, "cancelled")]
        /\ lock = "free" /\ sched \in [Ids -> Records]
        /\ closed \/ worker[n] = "cancelled"
    BY DEF WorkerGivesUp, Go, IInv, TypeOK, SchedulesOK
  <1>2. closed
    BY <1>1 DEF ThreadsYield
  <1>3. ~Busy
    BY <1>1, <1>2, ClosedAndFree DEF NothingActive
  <1>4. sched[n].status # "accepted"
    BY <1>3 DEF IInv, OnlyLatestActive, Busy, Ids
  <1>5. Marked(sched[n], "cancelled") = sched[n]
    BY <1>1, <1>4 DEF Marked, Records
  <1>6. QED
    BY <1>1, <1>5

LEMMA CancelsRecordedStep ==
  ASSUME IInv, StopLeads, ThreadsYield, NothingActive, CancelsRecorded,
         [Next]_vars
  PROVE  CancelsRecorded'
  <1>1. sched \in [Ids -> Records] /\ \A m \in Ids : sched[m] \in Records
    BY DEF IInv, TypeOK, SchedulesOK
  <1>2. SUFFICES ASSUME NEW m \in Ids PROVE HasRecord(sched'[m])
    BY DEF CancelsRecorded, HasRecord
  <1>3. HasRecord(sched[m])
    BY DEF CancelsRecorded
  <1>4. CASE UNCHANGED schedule
    BY <1>3, <1>4 DEF schedule
  <1>5. CASE AdmitSchedule
    <2>1. HasRecord(Submitted(act.req.plan))
      BY DEF HasRecord, Submitted
    <2>2. sched'[m] \in {sched[m], Submitted(act.req.plan)}
      BY <1>1, <1>5 DEF AdmitSchedule
    <2>3. QED
      BY <1>3, <2>1, <2>2
  <1>6. CASE RecordAdmission
    BY <1>1, <1>3, <1>6, RecordStays DEF RecordAdmission
  <1>7. ASSUME NEW n \in Ids, WorkerStep(n) PROVE HasRecord(sched'[m])
    <2>1. CASE m # n
      BY <1>3, <1>7, <2>1, WorkerTouches
    <2>2. CASE m = n
      <3>1. CASE WorkerGivesUp(n)
        BY <1>3, <2>2, <3>1, GivingUpIsIdle
      <3>2. CASE WorkerFails(n)
        BY <1>1, <1>3, <2>2, <3>2, RecordStays DEF WorkerFails
      <3>3. CASE WorkerCompletes(n)
        BY <1>1, <1>3, <2>2, <3>3, RecordStays DEF WorkerCompletes
      <3>4. CASE WorkerDelivers(n)
        <4>1. sched'[n] = [sched[n] EXCEPT !.delivered = @ + 1]
          BY <1>1, <3>4 DEF WorkerDelivers
        <4>2. /\ sched'[n].status = sched[n].status
              /\ sched'[n].journal = sched[n].journal
          BY <1>1, <4>1 DEF Records
        <4>3. QED
          BY <1>3, <2>2, <4>2 DEF HasRecord
      <3>5. CASE WorkerDue(n) \/ WorkerCancelled(n) \/ WorkerSubmits(n)
                 \/ WorkerDies(n)
        BY <1>3, <2>2, <3>5 DEF WorkerDue, WorkerCancelled, WorkerSubmits,
           WorkerDies
      <3>6. QED
        BY <1>7, <3>1, <3>2, <3>3, <3>4, <3>5 DEF WorkerStep
    <2>3. QED
      BY <2>1, <2>2
  <1>8. ASSUME NEW k \in Closers, CloseCancels(k) PROVE HasRecord(sched'[m])
    BY <1>1, <1>3, <1>8, RecordStays DEF CloseCancels
  <1>9. QED
    BY <1>4, <1>5, <1>6, <1>7, <1>8, QuietOrNot
-----------------------------------------------------------------------------
LEMMA InitOrderly == Init => Orderly
  BY DEF Init, Orderly, StopLeads, ThreadsYield, NothingActive,
     CancelsRecorded, HasRecord, NoSchedule, Closers, Busy

(* No step of a closed session moves an input. *)
LEMMA ClosedStep ==
  ASSUME IInv, Orderly, [Next]_vars, closed PROVE held' = held
  <1>1. CASE ActionStep
    <2>1. CASE \/ ApplyTransition \/ ApplyReleaseAll \/ ApplyGridConnection
               \/ ApplyArcConnection \/ ActionTimesOut
      <3>1. Immediate /\ ~RefusedLate
        BY <2>1 DEF ApplyTransition, ApplyReleaseAll, ApplyGridConnection,
           ApplyArcConnection, ActionTimesOut
      <3>2. lock = "free" /\ Healthy
        BY <3>1 DEF Immediate, Serving, RefusedLate
      <3>3. QED
        BY <3>2, ClosedAndFree DEF Orderly
    <2>2. CASE \/ RejectEarly \/ RejectLate \/ ApplyStateless
               \/ AdmitSchedule \/ RecordAdmission
      BY <2>2 DEF RejectEarly, RejectLate, ApplyStateless, AdmitSchedule,
         RecordAdmission, device
    <2>3. QED
      BY <1>1, <2>1, <2>2 DEF ActionStep
  <1>2. ASSUME NEW n \in Ids, WorkerStep(n) PROVE UNCHANGED held
    <2>1. ~WorkerDelivers(n)
      BY DEF WorkerDelivers, Orderly, ThreadsYield
    <2>2. QED
      BY <1>2, <2>1 DEF WorkerStep, WorkerDue, WorkerCancelled, WorkerGivesUp,
         WorkerSubmits, WorkerFails, WorkerDies, WorkerCompletes
  <1>3. ASSUME NEW c \in Clients, Expire(c) PROVE UNCHANGED held
    <2>1. ~Healthy
      BY <1>3, ClosedAndFree DEF Expire, Orderly
    <2>2. QED
      BY <1>3, <2>1 DEF Expire, ReleaseSucceeds, ReleaseFails
  <1>4. ASSUME NEW c \in Clients, Heartbeat(c) \/ LeaseLapses(c) \/ Disconnect(c)
        PROVE  UNCHANGED held
    BY <1>4 DEF Heartbeat, LeaseLapses, Disconnect, LeaseOnly, device
  <1>5. ASSUME NEW k \in Closers, CloseStep(k) PROVE UNCHANGED held
    BY <1>5 DEF CloseStep, AlreadyClosed, CloseFlag, CloseCheck, CloseCancels,
       CloseBackend, CloseEnds, CloseFails, CloseFrame, device
  <1>6. CASE NativeFault \/ Stop \/ Unwind \/ UNCHANGED vars
    BY <1>6 DEF NativeFault, Stop, Unwind, CloseFrame, device, vars
  <1>7. ASSUME NEW who \in Callers, NEW req \in Requests, Request(who, req)
        PROVE  UNCHANGED held
    BY <1>7 DEF Request, device
  <1>8. QED
    BY <1>1, <1>2, <1>3, <1>4, <1>5, <1>6, <1>7 DEF Next, Exited

(* /stop, and nothing else, ends the session. *)
THEOREM OrderlyShutdown ==
  ASSUME Terminates = FALSE
  PROVE  Spec => []Orderly
  <1>1. Init => Orderly
    BY InitOrderly
  <1>2. IInv /\ IInv' /\ SInv /\ Orderly /\ [Next]_vars => Orderly'
    BY StopLeadsStep, ThreadsYieldStep, NothingActiveStep, CancelsRecordedStep
       DEF Orderly, SInv
  <1>3. QED
    BY <1>1, <1>2, Invariant, ScheduleInvariant, PTL DEF Spec

(* A schedule that a shutdown by /stop has cancelled has a record of it    *)
(* before the backend is left, whatever its thread was doing.              *)
THEOREM CancellationsRecorded ==
  ASSUME Terminates = FALSE
  PROVE  Spec => []ShutdownRecordsCancellation
  <1>1. Orderly => ShutdownRecordsCancellation
    BY DEF Orderly, CancelsRecorded, HasRecord, ShutdownRecordsCancellation
  <1>2. QED
    BY <1>1, OrderlyShutdown, PTL

(* Once /stop has closed the session, no request that slept through it, no *)
(* delivery and no lapsed lease moves an input.                            *)
THEOREM ClosedIsQuiet ==
  ASSUME Terminates = FALSE
  PROVE  Spec => ClosedSessionTakesNoInput
  <1>1. IInv /\ Orderly /\ [Next]_vars => [closed => held' = held]_vars
    BY ClosedStep
  <1>2. QED
    BY <1>1, Invariant, OrderlyShutdown, PTL
       DEF Spec, ClosedSessionTakesNoInput
==============================================================================
