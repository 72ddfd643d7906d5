-------------------------- MODULE SessionLifecycle --------------------------
(***************************************************************************)
(* How native sessions are started, stopped and restarted over the         *)
(* datasets of a host: session.start (the launcher), the server process    *)
(* that constructs Application and NativeBackend and serves, the startup   *)
(* lock all servers of a host share, the dataset lease, the process groups *)
(* a backend launches, and the cleanup each way out of a server takes.     *)
(*                                                                         *)
(* A session is named before it starts; its launcher is a process of the   *)
(* user (External), or the thread of another server that handles           *)
(* /editor/restart.  Faults and crashes are bounded by MaxFaults and       *)
(* MaxCrashes.                                                             *)
(***************************************************************************)
EXTENDS Naturals, FiniteSets, Sequences

CONSTANTS Sessions,    \* the sessions that may be started, in that order
          Services,    \* the process groups of a backend, in launch order
          Editors,     \* the sessions configured with a Maiden bundle
          External,    \* a launcher outside every server
          Datasets,    \* session -> the datasets it may be started on
          None,        \* no session holds the startup lock, no dataset yet
          MaxFaults, MaxCrashes

ASSUME SessionsAssumption ==
  /\ Sessions \subseteq Nat /\ Editors \subseteq Sessions
  /\ External \notin Sessions /\ None \notin Sessions
  /\ Services \in Seq(STRING) /\ \A i \in DOMAIN Services : Services[i] \notin {"server", "editor"}
  /\ MaxFaults \in Nat /\ MaxCrashes \in Nat

VARIABLES launcher,  \* session -> the call of session.start that waits for it
          server,    \* session -> the state of its server process
          handler,   \* session -> the request its server's lock is held for
          alive,     \* session -> the process groups that run
          fds,       \* session -> the processes with the dataset lock's file open
          lock,      \* the session that holds the startup lock
          faults, crashes

vars == <<launcher, server, handler, alive, fds, lock, faults, crashes>>

Processes(s) == Services \o (IF s \in Editors THEN <<"editor">> ELSE <<>>)
ProcessSet(s) == {Processes(s)[i] : i \in DOMAIN Processes(s)}
Groups == UNION {ProcessSet(s) : s \in Sessions}
Initializing == {"prepare", "lock", "launch", "editor"}

Launchers == [status: {"idle", "waiting", "terminating", "ready", "failed", "gone"},
              parent: Sessions \cup {External},
              dataset: (UNION {Datasets[s] : s \in Sessions}) \cup {None}]
Servers == [pc: Initializing \cup {"absent", "lease", "publish", "serving",
                                   "closing", "leaving", "exited"},
            closer: {"none", "init", "bind", "main", "main again", "handler"},
            signal: {"none", "sent", "taken"},
            started: SUBSET Groups,    \* NativeBackend.processes, Maiden.proc
            reaped: SUBSET Groups,     \* cleanup_rows
            abandoned: SUBSET Groups,  \* history: a cleanup was cut short
            died: BOOLEAN,             \* a group exited by itself
            stuck: BOOLEAN,            \* history: a group outlived SIGKILL
            reported: BOOLEAN,         \* NativeBackend.closed was set
            closed: BOOLEAN, complete: BOOLEAN, restarted: BOOLEAN,
            crashed: BOOLEAN]          \* history

(* Each session has a state of its own and the dataset's lock is held by    *)
(* processes that exist.                                                    *)
TypeOK ==
  /\ launcher \in [Sessions -> Launchers]
  /\ server \in [Sessions -> Servers]
  /\ \A s \in Sessions : server[s].started \subseteq ProcessSet(s)
  /\ handler \in [Sessions -> {"free", "stop", "restart", "start"}]
  /\ alive \in [Sessions -> SUBSET Groups] /\ fds \in [Sessions -> SUBSET (Groups \cup {"server"})]
  /\ \A s \in Sessions : alive[s] \subseteq server[s].started
  /\ \A s \in Sessions : fds[s] \subseteq alive[s] \cup {"server"}
  /\ lock \in Sessions \cup {None}
  /\ faults \in 0..MaxFaults /\ crashes \in 0..MaxCrashes

Init ==
  /\ launcher = [s \in Sessions |->
                   [status |-> "idle", parent |-> External, dataset |-> None]]
  /\ server = [s \in Sessions |->
       [pc |-> "absent", closer |-> "none", signal |-> "none", started |-> {},
        reaped |-> {}, abandoned |-> {}, died |-> FALSE, stuck |-> FALSE, reported |-> FALSE,
        closed |-> FALSE, complete |-> FALSE, restarted |-> FALSE, crashed |-> FALSE]]
  /\ handler = [s \in Sessions |-> "free"]
  /\ alive = [s \in Sessions |-> {}]
  /\ fds = [s \in Sessions |-> {}]
  /\ lock = None
  /\ faults = 0 /\ crashes = 0

-----------------------------------------------------------------------------
(* The launcher. *)

Child(p) == {s \in Sessions : launcher[s].parent = p /\ launcher[s].status \in {"waiting", "terminating"}}

Start(s, p) ==
  /\ \A t \in Sessions : launcher[t].status = "idle" <=> t >= s
  /\ p \in Sessions => handler[p] = "start" /\ Child(p) = {}
  /\ \E d \in Datasets[s] :
       /\ p \in Sessions => d = launcher[p].dataset
       /\ launcher' = [launcher EXCEPT ![s] = [status |-> "waiting", parent |-> p, dataset |-> d]]
  /\ server' = [server EXCEPT ![s].pc = "lease"]
  /\ UNCHANGED <<handler, alive, fds, lock, faults, crashes>>

\* What the thread that handles /editor/restart does when its start ends.
RestartEnds(s, ready) ==
  LET p == launcher[s].parent IN
  IF p \notin Sessions THEN UNCHANGED <<server, handler>>
  ELSE /\ handler' = [handler EXCEPT ![p] = "free"]
       /\ server' = IF ready
                    THEN [server EXCEPT ![p].restarted = TRUE, ![p].pc = "leaving"]
                    ELSE server

LauncherReady(s) ==
  /\ launcher[s].status = "waiting" /\ server[s].pc = "serving"
  /\ launcher' = [launcher EXCEPT ![s].status = "ready"]
  /\ RestartEnds(s, TRUE)
  /\ UNCHANGED <<alive, fds, lock, faults, crashes>>

\* The deadline passes, the caller cancels, or a health request fails.
LauncherGivesUp(s) ==
  /\ launcher[s].status = "waiting" /\ server[s].pc # "exited"
  /\ launcher' = [launcher EXCEPT ![s].status = "terminating"]
  /\ server' = [server EXCEPT ![s].signal = "sent"]
  /\ UNCHANGED <<handler, alive, fds, lock, faults, crashes>>

\* The server exited, or did not within the 30 seconds after SIGTERM.
LauncherFails(s) ==
  /\ \/ launcher[s].status = "waiting" /\ server[s].pc = "exited"
     \/ launcher[s].status = "terminating"
  /\ launcher' = [launcher EXCEPT ![s].status = "failed"]
  /\ RestartEnds(s, FALSE)
  /\ UNCHANGED <<alive, fds, lock, faults, crashes>>

-----------------------------------------------------------------------------
(* The server's main thread, up to serving. *)

Sharing(s) == {t \in Sessions : launcher[t].dataset = launcher[s].dataset}
Holders(s) == UNION {fds[t] : t \in Sharing(s)}
Unlocked(s) == IF lock = s THEN None ELSE lock
GoesTo(s, pc) == server' = [server EXCEPT ![s].pc = pc]
StartsClosing(s, closer) ==
  server' = [server EXCEPT ![s].pc = "closing", ![s].closer = closer,
                           ![s].closed = closer # "init"]

TakeLease(s) ==
  /\ server[s].pc = "lease"
  /\ IF Holders(s) = {}
     THEN fds' = [fds EXCEPT ![s] = {"server"}] /\ GoesTo(s, "prepare")
     ELSE GoesTo(s, "exited") /\ UNCHANGED fds
  /\ UNCHANGED <<launcher, handler, alive, lock, faults, crashes>>

Prepare(s) ==
  /\ server[s].pc = "prepare"
  /\ GoesTo(s, "lock")
  /\ UNCHANGED <<launcher, handler, alive, fds, lock, faults, crashes>>

TakeLock(s) ==
  /\ server[s].pc = "lock" /\ lock = None
  /\ lock' = s
  /\ GoesTo(s, "launch")
  /\ UNCHANGED <<launcher, handler, alive, fds, faults, crashes>>

LockTimesOut(s) ==
  /\ server[s].pc = "lock" /\ lock # None
  /\ StartsClosing(s, "init")
  /\ UNCHANGED <<launcher, handler, alive, fds, lock, faults, crashes>>

\* pass_fds: a child inherits the open file description of the dataset lock.
DatasetFdsUninherited(s, p) == fds[s]
DatasetFdsOfAll(s, p) == fds[s] \cup ProcessSet(s)
DatasetFds(s, p) == fds[s] \cup {p}

Launch(s, p) ==
  /\ alive' = [alive EXCEPT ![s] = @ \cup {p}]
  /\ fds' = [fds EXCEPT ![s] = DatasetFds(s, p)]
  /\ server' = [server EXCEPT ![s].started = @ \cup {p}]

LaunchService(s) ==
  /\ server[s].pc = "launch" /\ ~server[s].died
  /\ \E i \in DOMAIN Services :
       /\ server[s].started = {Services[j] : j \in 1..(i - 1)}
       /\ Launch(s, Services[i])
  /\ UNCHANGED <<launcher, handler, lock, faults, crashes>>

ScriptReady(s) ==
  /\ server[s].pc = "launch" /\ ~server[s].died
  /\ server[s].started = {Services[j] : j \in DOMAIN Services}
  /\ lock' = Unlocked(s)
  /\ GoesTo(s, IF s \in Editors THEN "editor" ELSE "publish")
  /\ UNCHANGED <<launcher, handler, alive, fds, faults, crashes>>

StartEditor(s) ==
  /\ server[s].pc = "editor" /\ "editor" \notin server[s].started
  /\ Launch(s, "editor")
  /\ UNCHANGED <<launcher, handler, lock, faults, crashes>>

EditorReady(s) ==
  /\ server[s].pc = "editor" /\ "editor" \in server[s].started
  /\ GoesTo(s, "publish")
  /\ UNCHANGED <<launcher, handler, alive, fds, lock, faults, crashes>>

\* session.json is written once the HTTP server is bound.
Publish(s) ==
  /\ server[s].pc = "publish"
  /\ GoesTo(s, "serving")
  /\ UNCHANGED <<launcher, handler, alive, fds, lock, faults, crashes>>

\* A step of the initialization raises: a dead or mute service, a bad script.
\* The with block releases the startup lock before close() begins.
InitRaisesLocked(s) ==
  /\ StartsClosing(s, "init")
  /\ UNCHANGED <<launcher, handler, alive, fds, lock, crashes>>

InitRaises(s) ==
  /\ lock' = Unlocked(s)
  /\ StartsClosing(s, "init")
  /\ UNCHANGED <<launcher, handler, alive, fds, crashes>>

InitFails(s) ==
  /\ server[s].pc \in Initializing /\ faults < MaxFaults
  /\ faults' = faults + 1
  /\ InitRaises(s)

\* check_processes finds a service dead while it waits for the next one.
DeathNoticed(s) ==
  /\ server[s].pc = "launch" /\ server[s].died
  /\ UNCHANGED faults
  /\ InitRaises(s)

BindFailsUnclosed(s) ==
  /\ server[s].pc = "publish" /\ faults < MaxFaults
  /\ faults' = faults + 1
  /\ GoesTo(s, "exited")
  /\ fds' = [fds EXCEPT ![s] = @ \ {"server"}]
  /\ UNCHANGED <<launcher, handler, alive, lock, crashes>>

BindFails(s) ==
  /\ server[s].pc = "publish" /\ faults < MaxFaults
  /\ faults' = faults + 1
  /\ StartsClosing(s, "bind")
  /\ UNCHANGED <<launcher, handler, alive, fds, lock, crashes>>

-----------------------------------------------------------------------------
(* Cleanup: one pass over the processes, the last launched first.           *)

Unfinished(s) == server[s].started \ (server[s].reaped \cup server[s].abandoned)
Position(s, p) == CHOOSE i \in DOMAIN Processes(s) : Processes(s)[i] = p
IsLast(s, p) ==
  p \in Unfinished(s) /\ \A q \in Unfinished(s) : Position(s, q) <= Position(s, p)
Closing(s) == server[s].pc # "exited" /\ server[s].closer # "none"

Reap(s) ==
  /\ Closing(s)
  /\ \E p \in ProcessSet(s) :
       /\ IsLast(s, p)
       /\ server' = [server EXCEPT ![s].reaped = @ \cup {p}]
       /\ alive' = [alive EXCEPT ![s] = @ \ {p}]
       /\ fds' = [fds EXCEPT ![s] = @ \ {p}]
  /\ UNCHANGED <<launcher, handler, lock, faults, crashes>>

WritersIgnored(s) == TRUE
WritersStopped(s) == Unfinished(s) = {}

RestartsAnyway(s, complete) == handler[s] = "restart"
RestartGoesOn(s, complete)  == handler[s] = "restart" /\ complete

PassLeaves(s, pc, closer, complete) ==
  server' = [server EXCEPT ![s].reported = @ \/ WritersStopped(s),
                           ![s].stuck = @ \/ ~WritersStopped(s),
                           ![s].pc = pc, ![s].closer = closer, ![s].complete = complete]

\* What a pass that ended, failed or not, leaves behind.
PassEnded(s, failed) ==
  LET c == server[s].closer
      complete == c # "init" /\ ~failed
  IN CASE c \in {"init", "bind", "main again"} \/ (c = "main" /\ ~failed) ->
            /\ PassLeaves(s, "exited", "none", complete)
            /\ fds' = [fds EXCEPT ![s] = @ \ {"server"}]
            /\ UNCHANGED handler
       [] c = "main" /\ failed ->
            /\ PassLeaves(s, "closing", "main again", server[s].complete)
            /\ fds' = [fds EXCEPT ![s] = IF WritersStopped(s) THEN @ \ {"server"} ELSE @]
            /\ UNCHANGED handler
       [] OTHER ->
            /\ PassLeaves(s, IF handler[s] = "stop" /\ WritersStopped(s)
                             THEN "leaving" ELSE server[s].pc, "none", complete)
            /\ fds' = [fds EXCEPT ![s] = IF WritersStopped(s) THEN @ \ {"server"} ELSE @]
            /\ handler' = [handler EXCEPT ![s] =
                 IF RestartGoesOn(s, complete) THEN "start" ELSE "free"]

\* Unexpected exits are reported by the pass that closes the backend, not again.
EndPass(s) ==
  /\ Closing(s) /\ Unfinished(s) = {}
  /\ PassEnded(s, server[s].died /\ ~server[s].reported)
  /\ UNCHANGED <<launcher, alive, lock, faults, crashes>>

\* A group does not die within 3 seconds of SIGKILL: wait raises, the pass ends.
PassFails(s) ==
  /\ Closing(s) /\ Unfinished(s) # {} /\ faults < MaxFaults
  /\ "editor" \notin Unfinished(s)
  /\ faults' = faults + 1
  /\ PassEnded(s, TRUE)
  /\ UNCHANGED <<launcher, alive, lock, crashes>>

-----------------------------------------------------------------------------
(* Signals and requests. *)

\* SIGTERM raises in the main thread wherever it is; later ones are ignored.
RaisesInStartup(s) == server[s].signal = "sent" /\ server[s].pc \notin {"absent", "exited", "serving"}
Raises(s)          == server[s].signal = "sent" /\ server[s].pc \notin {"absent", "exited"}

TakeSignal(s) ==
  /\ Raises(s)
  /\ lock' = Unlocked(s)
  /\ LET taken == [server EXCEPT ![s].signal = "taken"]
         close(closer) == [taken EXCEPT ![s].pc = "closing", ![s].closer = closer,
                                        ![s].closed = closer # "init"]
         dropped == IF "editor" \in Unfinished(s) THEN {"editor"} ELSE Unfinished(s)
         gone == [taken EXCEPT ![s].abandoned = @ \cup dropped]
     IN CASE server[s].pc \in Initializing ->
               server' = close("init") /\ UNCHANGED fds
          [] server[s].pc = "publish" -> server' = close("bind") /\ UNCHANGED fds
          [] server[s].pc = "serving" -> server' = close("main") /\ UNCHANGED fds
          [] server[s].pc = "closing" /\ dropped = {"editor"} ->
               server' = gone /\ UNCHANGED fds
          [] OTHER ->
               /\ server' = [gone EXCEPT ![s].pc = "exited", ![s].closer = "none"]
               /\ fds' = [fds EXCEPT ![s] = @ \ {"server"}]
  /\ UNCHANGED <<launcher, handler, alive, faults, crashes>>

AlreadyRestarted(s) == server[s].restarted

Request(s, kind) ==
  /\ launcher[s].status = "ready"
  /\ server[s].pc \in {"serving", "leaving"} /\ handler[s] = "free"
  /\ kind = "restart" => s \in Editors /\ ~AlreadyRestarted(s)
  /\ handler' = [handler EXCEPT ![s] =
       IF kind = "restart" /\ server[s].complete THEN "start"
       ELSE IF kind = "stop" /\ server[s].complete THEN "free" ELSE kind]
  /\ server' = IF server[s].complete
               THEN IF kind = "stop" THEN [server EXCEPT ![s].pc = "leaving"] ELSE server
               ELSE [server EXCEPT ![s].closed = TRUE, ![s].closer = "handler"]
  /\ UNCHANGED <<launcher, alive, fds, lock, faults, crashes>>

\* serve_forever returned: the process ends and with it the thread that may be
\* starting a successor (daemon_threads).
Leave(s) ==
  /\ server[s].pc = "leaving" /\ server[s].closer = "none"
  /\ server' = [server EXCEPT ![s].pc = "exited", ![s].complete = TRUE]
  /\ handler' = [handler EXCEPT ![s] = "free"]
  /\ launcher' = [t \in Sessions |-> IF t \in Child(s)
                    THEN [launcher[t] EXCEPT !.status = "gone"] ELSE launcher[t]]
  /\ fds' = [fds EXCEPT ![s] = @ \ {"server"}]
  /\ UNCHANGED <<alive, lock, faults, crashes>>

\* A process group exits by itself.
ServiceDies(s, p) ==
  /\ faults < MaxFaults /\ p \in alive[s] /\ server[s].pc # "exited"
  /\ p # "editor"
  /\ faults' = faults + 1
  /\ server' = [server EXCEPT ![s].died = TRUE]
  /\ alive' = [alive EXCEPT ![s] = @ \ {p}]
  /\ fds' = [fds EXCEPT ![s] = @ \ {p}]
  /\ UNCHANGED <<launcher, handler, lock, crashes>>

\* The server process is killed: the kernel closes its files, its children run on.
Crash(s) ==
  /\ crashes < MaxCrashes /\ server[s].pc \notin {"absent", "exited"}
  /\ crashes' = crashes + 1
  /\ server' = [server EXCEPT ![s].pc = "exited", ![s].closer = "none", ![s].crashed = TRUE]
  /\ handler' = [handler EXCEPT ![s] = "free"]
  /\ launcher' = [t \in Sessions |-> IF t \in Child(s)
                    THEN [launcher[t] EXCEPT !.status = "gone"] ELSE launcher[t]]
  /\ fds' = [fds EXCEPT ![s] = @ \ {"server"}]
  /\ lock' = Unlocked(s)
  /\ UNCHANGED <<alive, faults>>

-----------------------------------------------------------------------------
Works(s) ==
  \/ TakeLease(s) \/ Prepare(s) \/ TakeLock(s) \/ LaunchService(s) \/ ScriptReady(s) \/ DeathNoticed(s)
  \/ StartEditor(s) \/ EditorReady(s) \/ Publish(s)
  \/ Reap(s) \/ EndPass(s) \/ TakeSignal(s) \/ Leave(s)
Waits(s) == LauncherReady(s) \/ LauncherFails(s)

Next ==
  \E s \in Sessions :
    \/ \E p \in Sessions \cup {External} : Start(s, p)
    \/ Works(s) \/ Waits(s)
    \/ LauncherGivesUp(s) \/ LockTimesOut(s)
    \/ InitFails(s) \/ BindFails(s) \/ PassFails(s)
    \/ \E kind \in {"stop", "restart"} : Request(s, kind)
    \/ \E p \in ProcessSet(s) : ServiceDies(s, p)
    \/ Crash(s)

Fairness == \A s \in Sessions : WF_vars(Works(s)) /\ WF_vars(Waits(s))
Spec == Init /\ [][Next]_vars
FairSpec == Spec /\ Fairness

-----------------------------------------------------------------------------
(* Properties. *)

(* A dataset has one writing session: while a process group or an editor of *)
(* a session runs, no other session holds the dataset lock, also after its  *)
(* server was killed or gave up its cleanup (datasets.Lease, pass_fds).     *)
OneWriter ==
  \A s \in Sessions : \A t \in Sharing(s) : alive[s] # {} /\ fds[t] # {} => s = t

(* The startup lock covers JACK launch to script ready and nothing else: no *)
(* two sessions are in that region and none leaves it with the lock, by     *)
(* failing, by a signal or by dying (startup_lock.py docstring).            *)
LockCoversStartup ==
  \A s \in Sessions : lock = s <=> server[s].pc = "launch"

(* When a server exited otherwise than by being killed, the process groups  *)
(* that run on are those of a cleanup that was cut short by the launcher's  *)
(* signal, or that outlived SIGKILL.                                        *)
SurvivorsAreExplained ==
  \A s \in Sessions :
    server[s].pc = "exited" /\ ~server[s].crashed /\ ~server[s].stuck
      => alive[s] \subseteq server[s].abandoned

(* The lease of a closed session is given back only when its writers have   *)
(* stopped (Application.close), so that a failed stop can be retried.       *)
ClosedSessionKeepsLease ==
  \A s \in Sessions :
    server[s].pc = "serving" /\ alive[s] # {} => "server" \in fds[s]

(* The session an editor restarts into is never refused the dataset because *)
(* its predecessor still holds it.                                          *)
SuccessorFindsDatasetFree ==
  \A t \in Sessions :
    server[t].pc = "lease" /\ launcher[t].parent \in Sessions
      => fds[launcher[t].parent] = {}

(* Every failed start comes to an end: its server exits, whether the        *)
(* launcher waited for it or gave up (session.start, its except block).     *)
FailedStartEnds ==
  \A s \in Sessions : launcher[s].status = "failed" ~> server[s].pc = "exited"

(* session.py:128-129: SIGTERM unwinds server initialization as well as the *)
(* serving loop, and its finally blocks own the native groups.  A server    *)
(* that its launcher terminated leaves no group behind.                     *)
SigtermUnwindsInitialization ==
  \A s \in Sessions :
    server[s].pc = "exited" /\ server[s].signal = "taken"
      /\ ~server[s].crashed /\ ~server[s].stuck => alive[s] = {}
=============================================================================
