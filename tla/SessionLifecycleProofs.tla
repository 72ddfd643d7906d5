----------------------- MODULE SessionLifecycleProofs -----------------------
(***************************************************************************)
(* What holds of SessionLifecycle for any number of sessions, services and *)
(* datasets, and any number of faults and crashes.                         *)
(*                                                                         *)
(* None of its invariants is inductive alone.  Each is about what a server *)
(* has open or has running, and the steps that change that are taken from  *)
(* phases of the server that the launcher, the signal and the request      *)
(* under way determine together (Phases).  Files says what is open and     *)
(* running in each phase; Family ties a session to the one that is         *)
(* restarting into it, whose thread is its launcher.                       *)
(***************************************************************************)
EXTENDS SessionLifecycle, SequenceTheorems, TLAPS

(* Where a server is, from its launcher, signal, request and closer. *)
Phases(s) ==
  /\ launcher[s].status = "idle" <=> server[s].pc = "absent"
  /\ launcher[s].status = "ready"
       => server[s].pc \in {"serving", "leaving", "exited"} /\ server[s].signal = "none"
  /\ launcher[s].status \in {"idle", "waiting"} => server[s].signal = "none"
  /\ server[s].signal = "taken" => server[s].pc \in {"closing", "exited"}
  /\ server[s].pc = "leaving" => launcher[s].status = "ready"
  /\ handler[s] # "free"
       => launcher[s].status = "ready" /\ server[s].pc \in {"serving", "leaving"}
  /\ server[s].closer = "handler" <=> handler[s] \in {"stop", "restart"}
  /\ server[s].pc = "closing"
       <=> server[s].closer \in {"init", "bind", "main", "main again"}
  /\ server[s].pc = "editor" => s \in Editors

(* What a server has open and running. *)
Files(s) ==
  /\ server[s].pc \in {"absent", "lease"} => fds[s] = {} /\ server[s].started = {}
  /\ server[s].pc \in Initializing \cup {"publish"} => "server" \in fds[s]
  /\ server[s].pc \in Initializing \cup {"absent", "lease", "publish"} => server[s].reaped = {}
  /\ alive[s] \subseteq fds[s]
  /\ alive[s] \subseteq server[s].started \ server[s].reaped
  /\ server[s].signal # "taken" => server[s].abandoned = {}
  /\ server[s].pc = "serving" /\ "server" \notin fds[s] => Unfinished(s) = {}
  /\ server[s].pc = "leaving" => Unfinished(s) = {}
  /\ server[s].complete /\ server[s].pc # "exited" => launcher[s].status = "ready"
  /\ server[s].complete /\ server[s].pc \in {"serving", "leaving"}
       => fds[s] = {} /\ Unfinished(s) = {}
  /\ handler[s] = "start" => server[s].complete
  /\ server[s].pc = "exited" /\ ~server[s].crashed /\ ~server[s].stuck
       => alive[s] \subseteq server[s].abandoned

(* A session that another one starts. *)
Family(t) ==
  LET p == launcher[t].parent IN
  p \in Sessions =>
    /\ launcher[p].status = "ready"
    /\ launcher[t].status \in {"waiting", "terminating"}
         => handler[p] = "start" /\ Child(p) = {t}
    /\ server[t].pc = "lease" => fds[p] = {}

(* The lock file of a dataset is open in one session. *)
Exclusive ==
  \A s \in Sessions : \A t \in Sharing(s) : fds[s] # {} /\ fds[t] # {} => s = t

IInv == /\ TypeOK /\ LockCoversStartup /\ Exclusive
        /\ \A s \in Sessions : Phases(s) /\ Files(s) /\ Family(s)

-----------------------------------------------------------------------------
(* What a step does to the record of a server, in the parts IInv speaks of. *)
Control(s, pc, closer, signal) ==
  server'[s].pc = pc /\ server'[s].closer = closer /\ server'[s].signal = signal
Work(s, started, reaped, abandoned) ==
  /\ server'[s].started = started /\ server'[s].reaped = reaped
  /\ server'[s].abandoned = abandoned
Past(s, stuck, complete, crashed) ==
  /\ server'[s].stuck = stuck /\ server'[s].complete = complete
  /\ server'[s].crashed = crashed
SameWork(s) == Work(s, server[s].started, server[s].reaped, server[s].abandoned)
SamePast(s) == Past(s, server[s].stuck, server[s].complete, server[s].crashed)

OnlyServer(s) ==
  /\ server' \in [Sessions -> Servers]
  /\ \A t \in Sessions : t # s => server'[t] = server[t]

(* A step of one server, which leaves the launchers and the others alone. *)
Local(s) ==
  /\ launcher' = launcher /\ OnlyServer(s)
  /\ handler' \in [Sessions -> {"free", "stop", "restart", "start"}]
  /\ alive' \in [Sessions -> SUBSET Groups]
  /\ fds' \in [Sessions -> SUBSET (Groups \cup {"server"})]
  /\ \A t \in Sessions : t # s =>
       handler'[t] = handler[t] /\ alive'[t] = alive[t] /\ fds'[t] = fds[t]
  /\ faults' \in 0..MaxFaults /\ crashes' \in 0..MaxCrashes

Unmoved(t) ==
  /\ launcher'[t] = launcher[t] /\ server'[t] = server[t] /\ handler'[t] = handler[t]
  /\ alive'[t] = alive[t] /\ fds'[t] = fds[t]

LEMMA Frame ==
  ASSUME NEW t \in Sessions, Unmoved(t), Phases(t), Files(t)
  PROVE  Phases(t)' /\ Files(t)'
  <1>1. Phases(t)'
    BY DEF Unmoved, Phases
  <1>2. Files(t)'
    BY DEF Unmoved, Files, Unfinished
  <1>3. QED
    BY <1>1, <1>2

LEMMA LocalStep ==
  ASSUME IInv, NEW s \in Sessions, Local(s), Phases(s)', Files(s)',
         server'[s].started \subseteq ProcessSet(s),
         alive'[s] \subseteq server'[s].started,
         fds'[s] \subseteq alive'[s] \cup {"server"},
         \/ lock' = lock /\ (server'[s].pc = "launch" <=> server[s].pc = "launch")
         \/ lock = None /\ lock' = s /\ server'[s].pc = "launch"
         \/ lock' = Unlocked(s) /\ server'[s].pc # "launch",
         server'[s].pc = "lease" => server[s].pc = "lease",
         handler[s] = "start" => handler'[s] = "start",
         fds[s] = {} /\ fds'[s] # {} => server[s].pc = "lease" /\ Holders(s) = {}
  PROVE  IInv'
  <1>1. \A t \in Sessions : t # s => Unmoved(t)
    BY DEF Local, OnlyServer, Unmoved
  <1>2. \A t \in Sessions : Phases(t)' /\ Files(t)'
    BY <1>1, Frame DEF IInv
  <1>3. TypeOK'
    <2>1. \A t \in Sessions : server'[t].started \subseteq ProcessSet(t)
      BY <1>1 DEF IInv, TypeOK, Unmoved
    <2>2. \A t \in Sessions : /\ alive'[t] \subseteq server'[t].started
                              /\ fds'[t] \subseteq alive'[t] \cup {"server"}
      BY <1>1 DEF IInv, TypeOK, Unmoved
    <2>3. lock' \in Sessions \cup {None}
      BY DEF IInv, TypeOK, Unlocked
    <2>4. launcher' \in [Sessions -> Launchers]
      BY DEF IInv, TypeOK, Local
    <2>5. QED
      BY <2>1, <2>2, <2>3, <2>4 DEF TypeOK, Local, OnlyServer
  <1>4. LockCoversStartup'
    BY <1>1, SessionsAssumption DEF IInv, LockCoversStartup, Unlocked, Unmoved
  <1>5. Exclusive'
    <2>1. SUFFICES ASSUME NEW t \in Sessions, NEW u \in Sessions,
                          launcher[u].dataset = launcher[t].dataset,
                          fds'[t] # {}, fds'[u] # {}, t # u
                   PROVE  FALSE
      BY DEF Exclusive, Sharing, Local
    <2>2. CASE fds[t] # {} /\ fds[u] # {}
      BY <2>1, <2>2 DEF IInv, Exclusive, Sharing
    <2>3. CASE t = s
      BY <2>1, <2>2, <2>3, <1>1 DEF Holders, Sharing, Unmoved
    <2>4. CASE u = s
      BY <2>1, <2>2, <2>4, <1>1 DEF Holders, Sharing, Unmoved
    <2>5. QED
      BY <2>1, <2>2, <2>3, <2>4, <1>1 DEF Unmoved
  <1>6. ASSUME NEW t \in Sessions PROVE Family(t)'
    <2>1. \A p : Child(p)' = Child(p)
      BY DEF Child, Local
    <2>2. SUFFICES ASSUME launcher[t].parent \in Sessions
                   PROVE  LET p == launcher[t].parent IN
                          /\ launcher[p].status = "ready"
                          /\ launcher[t].status \in {"waiting", "terminating"}
                               => handler'[p] = "start" /\ Child(p) = {t}
                          /\ server'[t].pc = "lease" => fds'[p] = {}
      BY <2>1 DEF Family, Local
    <2> DEFINE p == launcher[t].parent
    <2>3. Family(t)
      BY DEF IInv
    <2>4. launcher[p].status = "ready"
      BY <2>2, <2>3 DEF Family
    <2>5. launcher[t].status \in {"waiting", "terminating"}
            => handler'[p] = "start" /\ Child(p) = {t}
      BY <2>2, <2>3, <1>1 DEF Family, Unmoved
    <2>6. ASSUME server'[t].pc = "lease" PROVE fds'[p] = {}
      <3>1. fds[p] = {}
        BY <2>2, <2>3, <2>6, <1>1 DEF Family, Unmoved
      <3>2. server[p].pc # "lease"
        BY <2>2, <2>4 DEF IInv, Phases
      <3>3. QED
        BY <3>1, <3>2, <2>2, <1>1 DEF Unmoved
    <2>7. QED
      BY <2>4, <2>5, <2>6
  <1>7. QED
    BY <1>2, <1>3, <1>4, <1>5, <1>6 DEF IInv
-----------------------------------------------------------------------------
PCs == Initializing \cup {"absent", "lease", "publish", "serving",
                          "closing", "leaving", "exited"}
Closers == {"none", "init", "bind", "main", "main again", "handler"}

LEMMA GoesToEffect ==
  ASSUME NEW s \in Sessions, server \in [Sessions -> Servers], NEW x \in PCs,
         GoesTo(s, x)
  PROVE  /\ OnlyServer(s) /\ Control(s, x, server[s].closer, server[s].signal)
         /\ SameWork(s) /\ SamePast(s)
  <1> DEFINE v == server[s]
             w == [v EXCEPT !.pc = x]
  <1>1. v \in Servers
    OBVIOUS
  <1>2. server' = [server EXCEPT ![s] = w]
    BY DEF GoesTo
  <1>3. w \in Servers /\ w.pc = x /\ w.closer = v.closer /\ w.signal = v.signal
    BY <1>1 DEF Servers, PCs
  <1>4. w.started = v.started /\ w.reaped = v.reaped /\ w.abandoned = v.abandoned
    BY <1>1 DEF Servers
  <1>5. w.stuck = v.stuck /\ w.complete = v.complete /\ w.crashed = v.crashed
    BY <1>1 DEF Servers
  <1>6. server'[s] = w
    BY <1>2
  <1> HIDE DEF w
  <1>7. QED
    BY <1>2, <1>3, <1>4, <1>5, <1>6 DEF OnlyServer, Control, Work, Past, SameWork, SamePast

LEMMA StartsClosingEffect ==
  ASSUME NEW s \in Sessions, server \in [Sessions -> Servers], NEW c \in Closers,
         StartsClosing(s, c)
  PROVE  /\ OnlyServer(s) /\ Control(s, "closing", c, server[s].signal)
         /\ SameWork(s) /\ SamePast(s)
  <1> DEFINE v == server[s]
             w == [v EXCEPT !.pc = "closing", !.closer = c, !.closed = c # "init"]
  <1>1. v \in Servers
    OBVIOUS
  <1>2. server' = [server EXCEPT ![s] = w]
    BY DEF StartsClosing
  <1>3. w \in Servers /\ w.pc = "closing" /\ w.closer = c /\ w.signal = v.signal
    BY <1>1 DEF Servers, Closers
  <1>4. w.started = v.started /\ w.reaped = v.reaped /\ w.abandoned = v.abandoned
    BY <1>1 DEF Servers
  <1>5. w.stuck = v.stuck /\ w.complete = v.complete /\ w.crashed = v.crashed
    BY <1>1 DEF Servers
  <1>6. server'[s] = w
    BY <1>2
  <1> HIDE DEF w
  <1>7. QED
    BY <1>2, <1>3, <1>4, <1>5, <1>6 DEF OnlyServer, Control, Work, Past, SameWork, SamePast

LEMMA StartupStep ==
  ASSUME IInv, NEW s \in Sessions,
         server[s].pc \in Initializing \cup {"publish"},
         UNCHANGED <<launcher, handler, alive, fds, crashes>>,
         faults' \in 0..MaxFaults,
         \/ \E x \in Initializing \cup {"publish", "serving"} : GoesTo(s, x)
         \/ \E c \in {"init", "bind"} : StartsClosing(s, c),
         server'[s].pc = "editor" => s \in Editors,
         \/ lock' = lock /\ (server'[s].pc = "launch" <=> server[s].pc = "launch")
         \/ lock = None /\ lock' = s /\ server'[s].pc = "launch"
         \/ lock' = Unlocked(s) /\ server'[s].pc # "launch"
  PROVE  IInv'
  <1>1. TypeOK /\ Phases(s) /\ Files(s) /\ server \in [Sessions -> Servers]
    BY DEF IInv, TypeOK
  <1>2. /\ OnlyServer(s) /\ SameWork(s) /\ SamePast(s)
        /\ \/ \E x \in Initializing \cup {"publish", "serving"} :
                Control(s, x, server[s].closer, server[s].signal)
           \/ \E c \in {"init", "bind"} : Control(s, "closing", c, server[s].signal)
    BY <1>1, GoesToEffect, StartsClosingEffect DEF PCs, Closers
  <1>3. Local(s)
    BY <1>1, <1>2 DEF TypeOK, Local
  <1>4. Phases(s)'
    BY <1>1, <1>2 DEF Phases, Control, Initializing
  <1>5. Files(s)'
    BY <1>1, <1>2 DEF Phases, Files, Unfinished, Control, SameWork, SamePast, Work, Past, Initializing
  <1>6. /\ server'[s].started = server[s].started /\ server'[s].pc # "lease"
        /\ alive'[s] = alive[s] /\ fds'[s] = fds[s] /\ handler'[s] = handler[s]
    BY <1>2 DEF SameWork, Work, Control, Initializing
  <1>7. QED
    BY <1>1, <1>3, <1>4, <1>5, <1>6, LocalStep DEF TypeOK

LEMMA PrepareStep ==
  ASSUME IInv, NEW s \in Sessions, Prepare(s) \/ EditorReady(s) \/ Publish(s)
  PROVE  IInv'
  <1>1. server \in [Sessions -> Servers] /\ faults' \in 0..MaxFaults
    BY DEF IInv, TypeOK, Prepare, EditorReady, Publish
  <1>2. \E x \in {"lock", "publish", "serving"} : GoesTo(s, x) /\ server'[s].pc = x
    BY <1>1, GoesToEffect DEF Prepare, EditorReady, Publish, PCs, Initializing, Control
  <1>3. server[s].pc \in {"prepare", "editor", "publish"}
    BY DEF Prepare, EditorReady, Publish
  <1>4. UNCHANGED <<launcher, handler, alive, fds, lock, crashes>>
    BY DEF Prepare, EditorReady, Publish
  <1>5. QED
    BY <1>1, <1>2, <1>3, <1>4, StartupStep DEF Initializing

LEMMA LockStep ==
  ASSUME IInv, NEW s \in Sessions, TakeLock(s) \/ ScriptReady(s)
  PROVE  IInv'
  <1>1. server \in [Sessions -> Servers] /\ faults' \in 0..MaxFaults
    BY DEF IInv, TypeOK, TakeLock, ScriptReady
  <1>2. /\ \E x \in {"launch", "editor", "publish"} : GoesTo(s, x)
        /\ server[s].pc \in {"lock", "launch"}
        /\ UNCHANGED <<launcher, handler, alive, fds, crashes>>
    BY DEF TakeLock, ScriptReady
  <1>3. \/ lock = None /\ lock' = s /\ server'[s].pc = "launch"
        \/ lock' = Unlocked(s) /\ server'[s].pc # "launch"
    BY <1>1, GoesToEffect DEF TakeLock, ScriptReady, PCs, Initializing, Control
  <1>4. server'[s].pc = "editor" => s \in Editors
    BY <1>1, GoesToEffect DEF TakeLock, ScriptReady, PCs, Initializing, Control
  <1>5. QED
    BY <1>1, <1>2, <1>3, <1>4, StartupStep DEF Initializing

LEMMA StartupFails ==
  ASSUME IInv, NEW s \in Sessions,
         LockTimesOut(s) \/ InitFails(s) \/ DeathNoticed(s) \/ BindFails(s)
  PROVE  IInv'
  <1>1. server \in [Sessions -> Servers] /\ lock \in Sessions \cup {None}
    BY DEF IInv, TypeOK
  <1>2. faults' \in 0..MaxFaults
    BY SessionsAssumption DEF IInv, TypeOK, LockTimesOut, InitFails, DeathNoticed, BindFails, InitRaises
  <1>3. /\ \E c \in {"init", "bind"} : StartsClosing(s, c)
        /\ server[s].pc \in Initializing \cup {"publish"}
        /\ UNCHANGED <<launcher, handler, alive, fds, crashes>>
    BY DEF LockTimesOut, InitFails, DeathNoticed, BindFails, InitRaises, Initializing
  <1>4. server'[s].pc = "closing"
    BY <1>1, <1>3, StartsClosingEffect DEF Closers, Control
  <1>5. \/ lock' = lock /\ server[s].pc # "launch"
        \/ lock' = Unlocked(s)
    BY DEF LockTimesOut, InitFails, DeathNoticed, BindFails, InitRaises
  <1>6. QED
    BY <1>1, <1>2, <1>3, <1>4, <1>5, StartupStep

LEMMA TakeLeaseStep ==
  ASSUME IInv, NEW s \in Sessions, TakeLease(s)
  PROVE  IInv'
  <1>1. TypeOK /\ Phases(s) /\ Files(s) /\ server \in [Sessions -> Servers]
    BY DEF IInv, TypeOK
  <1>2. /\ server[s].pc = "lease" /\ fds[s] = {} /\ server[s].started = {} /\ alive[s] = {}
        /\ server[s].complete => launcher[s].status = "ready"
        /\ launcher[s].status # "ready" /\ handler[s] = "free"
    BY <1>1 DEF TypeOK, TakeLease, Files, Phases
  <1>3. \/ Holders(s) = {} /\ fds' = [fds EXCEPT ![s] = {"server"}] /\ GoesTo(s, "prepare")
        \/ fds' = fds /\ GoesTo(s, "exited")
    BY DEF TakeLease
  <1>4. /\ OnlyServer(s) /\ SameWork(s) /\ SamePast(s)
        /\ \/ /\ Control(s, "prepare", server[s].closer, server[s].signal)
              /\ fds'[s] = {"server"} /\ Holders(s) = {}
           \/ /\ Control(s, "exited", server[s].closer, server[s].signal)
              /\ fds'[s] = {}
    BY <1>1, <1>2, <1>3, GoesToEffect DEF TypeOK, PCs, Initializing
  <1>5. /\ launcher' = launcher /\ handler' = handler /\ alive' = alive /\ lock' = lock
        /\ faults' = faults /\ crashes' = crashes
    BY DEF TakeLease
  <1>6. Local(s)
    <2>1. fds' \in [Sessions -> SUBSET (Groups \cup {"server"})]
      BY <1>1, <1>3 DEF TypeOK
    <2>2. \A t \in Sessions : t # s => fds'[t] = fds[t]
      BY <1>1, <1>3 DEF TypeOK
    <2>3. QED
      BY <1>1, <1>4, <1>5, <2>1, <2>2 DEF TypeOK, Local
  <1>7. Phases(s)'
    BY <1>1, <1>2, <1>4, <1>5 DEF Phases, Control
  <1>8. Files(s)'
    BY <1>1, <1>2, <1>4, <1>5 DEF Files, Unfinished, Control, SameWork, SamePast, Work, Past, Initializing
  <1>9. server'[s].pc \notin {"lease", "launch"} /\ server'[s].started = {}
    BY <1>2, <1>4 DEF Control, SameWork, Work
  <1>10. QED
    BY <1>2, <1>4, <1>5, <1>6, <1>7, <1>8, <1>9, LocalStep

LEMMA LaunchStep ==
  ASSUME IInv, NEW s \in Sessions, NEW p \in ProcessSet(s),
         server[s].pc \in {"launch", "editor"}, Launch(s, p),
         UNCHANGED <<launcher, handler, lock, faults, crashes>>
  PROVE  IInv'
  <1>1. TypeOK /\ Phases(s) /\ Files(s) /\ server \in [Sessions -> Servers]
    BY DEF IInv, TypeOK
  <1> DEFINE v == server[s]
             w == [v EXCEPT !.started = @ \cup {p}]
  <1>2. p \in Groups
    BY DEF Groups
  <1>3. /\ w \in Servers /\ w.pc = v.pc /\ w.closer = v.closer /\ w.signal = v.signal
        /\ w.started = v.started \cup {p} /\ w.reaped = v.reaped /\ w.abandoned = v.abandoned
    BY <1>1, <1>2 DEF Servers
  <1>4. w.stuck = v.stuck /\ w.complete = v.complete /\ w.crashed = v.crashed
    BY <1>1 DEF Servers
  <1>5. server' = [server EXCEPT ![s] = w]
    BY DEF Launch
  <1>6. server'[s] = w
    BY <1>1, <1>5
  <1> HIDE DEF w
  <1>7. /\ OnlyServer(s) /\ Control(s, v.pc, v.closer, v.signal) /\ SamePast(s)
        /\ Work(s, v.started \cup {p}, v.reaped, v.abandoned)
    BY <1>1, <1>3, <1>4, <1>5, <1>6 DEF OnlyServer, Control, Work, Past, SamePast
  <1>8. /\ alive'[s] = alive[s] \cup {p} /\ fds'[s] = fds[s] \cup {p}
        /\ launcher' = launcher /\ handler' = handler /\ lock' = lock
    BY <1>1 DEF Launch, DatasetFds, TypeOK
  <1>9. Local(s)
    BY <1>1, <1>2, <1>7 DEF TypeOK, Local, Launch, DatasetFds
  <1>10. Phases(s)'
    BY <1>1, <1>7, <1>8 DEF Phases, Control
  <1>11. Files(s)'
    BY <1>1, <1>7, <1>8 DEF Files, Unfinished, Control, SamePast, Work, Past, Initializing
  <1>12. /\ server'[s].started = v.started \cup {p} /\ server'[s].pc = v.pc
         /\ fds[s] # {}
    BY <1>1, <1>7 DEF Files, Work, Control, Initializing
  <1>13. /\ v.started \subseteq ProcessSet(s) /\ alive[s] \subseteq v.started
         /\ fds[s] \subseteq alive[s] \cup {"server"}
    BY <1>1 DEF TypeOK
  <1>14. QED
    BY <1>8, <1>9, <1>10, <1>11, <1>12, <1>13, LocalStep

LEMMA ProcessNames ==
  ASSUME NEW s \in Sessions
  PROVE  /\ \A i \in DOMAIN Services : Services[i] \in ProcessSet(s)
         /\ s \in Editors => "editor" \in ProcessSet(s)
         /\ "server" \notin ProcessSet(s)
  <1>1. DOMAIN Services = 1..Len(Services) /\ Len(Services) \in Nat
    BY SessionsAssumption
  <1>2. CASE s \in Editors
    <2>1. Processes(s) = Services \o <<"editor">>
      BY <1>2 DEF Processes
    <2>2. /\ DOMAIN Processes(s) = 1..(Len(Services) + 1)
          /\ \A i \in 1..Len(Services) : Processes(s)[i] = Services[i]
          /\ Processes(s)[Len(Services) + 1] = "editor"
      BY <2>1, SessionsAssumption
    <2>3. QED
      BY <1>1, <2>2, SessionsAssumption DEF ProcessSet
  <1>3. CASE s \notin Editors
    <2>1. Processes(s) = Services
      BY <1>3, ConcatEmptySeq, SessionsAssumption DEF Processes
    <2>2. QED
      BY <1>1, <1>3, <2>1, SessionsAssumption DEF ProcessSet
  <1>4. QED
    BY <1>2, <1>3

LEMMA ClosingPhase ==
  ASSUME IInv, NEW s \in Sessions, Closing(s)
  PROVE  \/ server[s].closer = "handler" /\ server[s].pc \in {"serving", "leaving"}
         \/ server[s].closer # "handler" /\ server[s].pc = "closing"
  <1>1. Phases(s) /\ server[s] \in Servers
    BY DEF IInv, TypeOK
  <1>2. server[s].closer \in Closers
    BY <1>1 DEF Servers, Closers
  <1>3. QED
    BY <1>1, <1>2 DEF Closing, Phases, Closers

LEMMA ServiceLaunchStep ==
  ASSUME IInv, NEW s \in Sessions, LaunchService(s) \/ StartEditor(s)
  PROVE  IInv'
  <1>1. \A i \in DOMAIN Services : Services[i] \in ProcessSet(s)
    BY ProcessNames
  <1>2. CASE LaunchService(s)
    <2>1. PICK i \in DOMAIN Services : Launch(s, Services[i])
      BY <1>2 DEF LaunchService
    <2>2. QED
      BY <1>1, <1>2, <2>1, LaunchStep DEF LaunchService
  <1>3. CASE StartEditor(s)
    <2>1. "editor" \in ProcessSet(s)
      BY <1>3, ProcessNames DEF IInv, Phases, StartEditor
    <2>2. QED
      BY <1>3, <2>1, LaunchStep DEF StartEditor
  <1>4. QED
    BY <1>2, <1>3

LEMMA ReapStep ==
  ASSUME IInv, NEW s \in Sessions, Reap(s)
  PROVE  IInv'
  <1>1. TypeOK /\ Phases(s) /\ Files(s) /\ server \in [Sessions -> Servers]
    BY DEF IInv, TypeOK
  <1>2. PICK p \in ProcessSet(s) :
          /\ server' = [server EXCEPT ![s].reaped = @ \cup {p}]
          /\ alive' = [alive EXCEPT ![s] = @ \ {p}]
          /\ fds' = [fds EXCEPT ![s] = @ \ {p}]
    BY DEF Reap
  <1> DEFINE v == server[s]
             w == [v EXCEPT !.reaped = @ \cup {p}]
  <1>3. p \in Groups
    BY DEF Groups
  <1>4. /\ w \in Servers /\ w.pc = v.pc /\ w.closer = v.closer /\ w.signal = v.signal
        /\ w.started = v.started /\ w.reaped = v.reaped \cup {p} /\ w.abandoned = v.abandoned
    BY <1>1, <1>3 DEF Servers
  <1>5. w.stuck = v.stuck /\ w.complete = v.complete /\ w.crashed = v.crashed
    BY <1>1 DEF Servers
  <1>6. server' = [server EXCEPT ![s] = w]
    BY <1>2
  <1>7. server'[s] = w
    BY <1>1, <1>6
  <1> HIDE DEF w
  <1>8. /\ OnlyServer(s) /\ Control(s, v.pc, v.closer, v.signal) /\ SamePast(s)
        /\ Work(s, v.started, v.reaped \cup {p}, v.abandoned)
    BY <1>1, <1>4, <1>5, <1>6, <1>7 DEF OnlyServer, Control, Work, Past, SamePast
  <1>9. /\ alive'[s] = alive[s] \ {p} /\ fds'[s] = fds[s] \ {p}
        /\ launcher' = launcher /\ handler' = handler /\ lock' = lock
    BY <1>1, <1>2 DEF Reap, TypeOK
  <1>10. Local(s)
    BY <1>1, <1>2, <1>8 DEF TypeOK, Local, Reap
  <1>11. Phases(s)'
    BY <1>1, <1>8, <1>9 DEF Phases, Control
  <1>12. v.pc \notin Initializing \cup {"absent", "lease", "publish"}
    BY ClosingPhase DEF Reap, Initializing
  <1>13. Files(s)'
    BY <1>1, <1>8, <1>9, <1>12, ProcessNames DEF Files, Unfinished, Control, SamePast, Work, Past
  <1>14. /\ server'[s].started = v.started /\ server'[s].pc = v.pc
         /\ v.started \subseteq ProcessSet(s) /\ alive[s] \subseteq v.started
         /\ fds[s] \subseteq alive[s] \cup {"server"}
    BY <1>1, <1>8 DEF Work, Control, TypeOK
  <1>15. QED
    BY <1>9, <1>10, <1>11, <1>13, <1>14, LocalStep

LEMMA ServiceDiesStep ==
  ASSUME IInv, NEW s \in Sessions, NEW p \in ProcessSet(s), ServiceDies(s, p)
  PROVE  IInv'
  <1>1. TypeOK /\ Phases(s) /\ Files(s) /\ server \in [Sessions -> Servers]
    BY DEF IInv, TypeOK
  <1> DEFINE v == server[s]
             w == [v EXCEPT !.died = TRUE]
  <1>2. /\ w \in Servers /\ w.pc = v.pc /\ w.closer = v.closer /\ w.signal = v.signal
        /\ w.started = v.started /\ w.reaped = v.reaped /\ w.abandoned = v.abandoned
    BY <1>1 DEF Servers
  <1>3. w.stuck = v.stuck /\ w.complete = v.complete /\ w.crashed = v.crashed
    BY <1>1 DEF Servers
  <1>4. server' = [server EXCEPT ![s] = w]
    BY DEF ServiceDies
  <1>5. server'[s] = w
    BY <1>1, <1>4
  <1> HIDE DEF w
  <1>6. /\ OnlyServer(s) /\ Control(s, v.pc, v.closer, v.signal) /\ SamePast(s) /\ SameWork(s)
    BY <1>1, <1>2, <1>3, <1>4, <1>5 DEF OnlyServer, Control, Work, SameWork, Past, SamePast
  <1>7. /\ alive'[s] = alive[s] \ {p} /\ fds'[s] = fds[s] \ {p} /\ p \in alive[s]
        /\ launcher' = launcher /\ handler' = handler /\ lock' = lock
    BY <1>1 DEF ServiceDies, TypeOK
  <1>8. Local(s)
    BY <1>1, <1>6, SessionsAssumption DEF TypeOK, Local, ServiceDies
  <1>9. Phases(s)'
    BY <1>1, <1>6, <1>7 DEF Phases, Control
  <1>10. p # "server"
    BY ProcessNames
  <1>11. Files(s)'
    BY <1>1, <1>6, <1>7, <1>10 DEF Files, Unfinished, Control, SamePast, Work, SameWork, Past, Initializing
  <1>12. /\ server'[s].started = v.started /\ server'[s].pc = v.pc
         /\ v.started \subseteq ProcessSet(s) /\ alive[s] \subseteq v.started
         /\ fds[s] \subseteq alive[s] \cup {"server"}
    BY <1>1, <1>6 DEF Work, SameWork, Control, TypeOK
  <1>13. QED
    BY <1>7, <1>8, <1>9, <1>11, <1>12, LocalStep
-----------------------------------------------------------------------------
LEMMA PassLeavesEffect ==
  ASSUME IInv, NEW s \in Sessions, NEW pc \in PCs, NEW closer \in Closers,
         NEW complete \in BOOLEAN, PassLeaves(s, pc, closer, complete)
  PROVE  /\ OnlyServer(s) /\ SameWork(s)
         /\ Control(s, pc, closer, server[s].signal)
         /\ Past(s, server[s].stuck \/ ~WritersStopped(s), complete, server[s].crashed)
  <1> DEFINE v == server[s]
             r == v.reported \/ WritersStopped(s)
             k == v.stuck \/ ~WritersStopped(s)
             w == [v EXCEPT !.reported = r, !.stuck = k, !.pc = pc, !.closer = closer,
                            !.complete = complete]
  <1>1. v \in Servers /\ server \in [Sessions -> Servers]
    BY DEF IInv, TypeOK
  <1>2. r \in BOOLEAN /\ k \in BOOLEAN
    OBVIOUS
  <1>3. server' = [server EXCEPT ![s] = w]
    BY <1>1 DEF PassLeaves
  <1> HIDE DEF r, k
  <1>4. w \in Servers
    BY <1>1, <1>2 DEF Servers, PCs, Closers
  <1>5. w.pc = pc /\ w.closer = closer /\ w.signal = v.signal
    BY <1>1 DEF Servers
  <1>6. w.started = v.started /\ w.reaped = v.reaped /\ w.abandoned = v.abandoned
    BY <1>1 DEF Servers
  <1>7. w.stuck = k /\ w.complete = complete /\ w.crashed = v.crashed
    BY <1>1 DEF Servers
  <1> HIDE DEF w
  <1>8. server'[s] = w
    BY <1>1, <1>3
  <1>9. QED
    BY <1>1, <1>3, <1>4, <1>5, <1>6, <1>7, <1>8 DEF OnlyServer, SameWork, Work, Control, Past, k

(* The three ways a pass ends. *)
LEMMA PassEndedEffect ==
  ASSUME IInv, NEW s \in Sessions, Closing(s), NEW failed \in BOOLEAN, PassEnded(s, failed)
  PROVE  LET v == server[s]
             stuck == v.stuck \/ ~WritersStopped(s)
         IN  /\ OnlyServer(s) /\ SameWork(s)
             /\ \/ /\ v.pc = "closing"
                   /\ Control(s, "exited", "none", v.signal)
                   /\ \E c \in BOOLEAN : Past(s, stuck, c, v.crashed)
                   /\ fds' = [fds EXCEPT ![s] = @ \ {"server"}] /\ handler' = handler
                \/ /\ v.closer = "main" /\ v.pc = "closing"
                   /\ Control(s, "closing", "main again", v.signal)
                   /\ Past(s, stuck, v.complete, v.crashed)
                   /\ fds' = [fds EXCEPT ![s] = IF WritersStopped(s) THEN @ \ {"server"} ELSE @]
                   /\ handler' = handler
                \/ /\ v.closer = "handler" /\ v.pc \in {"serving", "leaving"}
                   /\ \E x \in {v.pc, "leaving"} :
                        /\ x = "leaving" => v.pc = "leaving" \/ WritersStopped(s)
                        /\ Control(s, x, "none", v.signal)
                   /\ Past(s, stuck, ~failed, v.crashed)
                   /\ fds' = [fds EXCEPT ![s] = IF WritersStopped(s) THEN @ \ {"server"} ELSE @]
                   /\ \E h \in {"start", "free"} :
                        /\ h = "start" => ~failed
                        /\ handler' = [handler EXCEPT ![s] = h]
  <1> DEFINE v == server[s]
             complete == v.closer # "init" /\ ~failed
  <1>1. v \in Servers
    BY DEF IInv, TypeOK
  <1>2. /\ v.complete \in BOOLEAN /\ v.pc \in PCs /\ v.closer \in Closers /\ complete \in BOOLEAN
        /\ {"none", "main again"} \subseteq Closers
        /\ {"closing", "exited", "leaving"} \subseteq PCs
    BY <1>1 DEF Servers, PCs, Closers
  <1>3. CASE v.pc = "closing" /\ \/ v.closer \in {"init", "bind", "main again"}
                                 \/ v.closer = "main" /\ ~failed
    <2>1. /\ PassLeaves(s, "exited", "none", complete) /\ handler' = handler
          /\ fds' = [fds EXCEPT ![s] = @ \ {"server"}]
      BY <1>3 DEF PassEnded
    <2>2. QED
      BY <1>2, <1>3, <2>1, PassLeavesEffect
  <1>4. CASE v.pc = "closing" /\ v.closer = "main" /\ failed
    <2>1. /\ PassLeaves(s, "closing", "main again", v.complete) /\ handler' = handler
          /\ fds' = [fds EXCEPT ![s] = IF WritersStopped(s) THEN @ \ {"server"} ELSE @]
      BY <1>4 DEF PassEnded
    <2>2. QED
      BY <1>2, <1>4, <2>1, PassLeavesEffect
  <1>5. CASE v.closer = "handler" /\ v.pc \in {"serving", "leaving"}
    <2> DEFINE x == IF handler[s] = "stop" /\ WritersStopped(s) THEN "leaving" ELSE v.pc
    <2>1. /\ PassLeaves(s, x, "none", complete)
          /\ fds' = [fds EXCEPT ![s] = IF WritersStopped(s) THEN @ \ {"server"} ELSE @]
          /\ handler' = [handler EXCEPT ![s] =
                           IF RestartGoesOn(s, complete) THEN "start" ELSE "free"]
      BY <1>5 DEF PassEnded
    <2>2. x \in PCs /\ complete = ~failed
      BY <1>2, <1>5
    <2> HIDE DEF complete
    <2>3. QED
      BY <1>2, <1>5, <2>1, <2>2, PassLeavesEffect DEF RestartGoesOn
  <1>6. QED
    BY <1>2, <1>3, <1>4, <1>5, ClosingPhase DEF Closing, Closers

LEMMA PassStep ==
  ASSUME IInv, NEW s \in Sessions, Closing(s), NEW failed \in BOOLEAN,
         PassEnded(s, failed), ~failed => Unfinished(s) = {},
         UNCHANGED <<launcher, alive, lock, crashes>>, faults' \in 0..MaxFaults
  PROVE  IInv'
  <1>1. TypeOK /\ Phases(s) /\ Files(s) /\ server \in [Sessions -> Servers]
    BY DEF IInv, TypeOK
  <1> DEFINE v == server[s]
  <1>2. /\ alive[s] \subseteq v.started \ v.reaped /\ fds[s] \subseteq alive[s] \cup {"server"}
        /\ v.started \subseteq ProcessSet(s) /\ "server" \notin ProcessSet(s)
    BY <1>1, ProcessNames DEF TypeOK, Files
  <1>3. OnlyServer(s) /\ SameWork(s)
    BY PassEndedEffect
  <1>4. /\ \E F \in {fds[s], fds[s] \ {"server"}} : fds' = [fds EXCEPT ![s] = F]
        /\ handler' = handler \/ \E h \in {"start", "free"} : handler' = [handler EXCEPT ![s] = h]
        /\ handler' = handler \/ v.closer = "handler"
    BY PassEndedEffect
  <1>5. /\ alive'[s] = alive[s] /\ fds'[s] \in {fds[s], fds[s] \ {"server"}}
        /\ launcher' = launcher /\ lock' = lock
        /\ handler[s] = "start" => handler'[s] = "start"
        /\ server'[s].pc \notin {"lease", "launch"} /\ v.pc # "launch"
        /\ server'[s].started = v.started
    <2>1. handler[s] = "start" => v.closer # "handler"
      BY <1>1 DEF Phases
    <2>2. server'[s].pc \notin {"lease", "launch"} /\ v.pc # "launch"
      BY PassEndedEffect, ClosingPhase DEF Control
    <2>3. fds'[s] \in {fds[s], fds[s] \ {"server"}}
      BY <1>1, <1>4 DEF TypeOK
    <2>4. QED
      BY <1>3, <1>4, <2>1, <2>2, <2>3 DEF SameWork, Work
  <1> Local(s)
    <2>1. /\ fds' \in [Sessions -> SUBSET (Groups \cup {"server"})]
          /\ \A t \in Sessions : t # s => fds'[t] = fds[t]
      BY <1>1, <1>4 DEF TypeOK
    <2>2. /\ handler' \in [Sessions -> {"free", "stop", "restart", "start"}]
          /\ \A t \in Sessions : t # s => handler'[t] = handler[t]
      BY <1>1, <1>4 DEF TypeOK
    <2>3. QED
      BY <1>1, <1>3, <2>1, <2>2 DEF TypeOK, Local
  <1>6. CASE /\ v.pc = "closing" /\ Control(s, "exited", "none", v.signal)
             /\ \E c \in BOOLEAN : Past(s, v.stuck \/ ~WritersStopped(s), c, v.crashed)
             /\ fds' = [fds EXCEPT ![s] = @ \ {"server"}] /\ handler' = handler
    <2>1. handler[s] = "free" /\ launcher[s].status # "ready"
      BY <1>1, <1>6 DEF Phases
    <2>2. Phases(s)'
      BY <1>1, <1>5, <1>6, <2>1 DEF Phases, Control
    <2>3. fds'[s] = fds[s] \ {"server"}
      BY <1>1, <1>6 DEF TypeOK
    <2>4. Files(s)'
      BY <1>1, <1>2, <1>3, <1>5, <1>6, <2>1, <2>3 DEF Files, Unfinished, Control, SameWork, Work,
         Past, WritersStopped, Initializing
    <2>5. QED
      BY <1>2, <1>5, <2>2, <2>4, LocalStep DEF TypeOK
  <1>7. CASE /\ v.closer = "main" /\ v.pc = "closing"
             /\ Control(s, "closing", "main again", v.signal)
             /\ Past(s, v.stuck \/ ~WritersStopped(s), v.complete, v.crashed)
             /\ handler' = handler
    <2>1. handler[s] = "free" /\ launcher[s].status # "ready"
      BY <1>1, <1>7 DEF Phases
    <2>2. Phases(s)'
      BY <1>1, <1>5, <1>7, <2>1 DEF Phases, Control
    <2>3. Files(s)'
      BY <1>1, <1>2, <1>3, <1>5, <1>7, <2>1 DEF Files, Unfinished, Control, SameWork, Work,
         Past, Initializing
    <2>4. QED
      BY <1>2, <1>5, <2>2, <2>3, LocalStep DEF TypeOK
  <1>8. CASE /\ v.closer = "handler" /\ v.pc \in {"serving", "leaving"}
             /\ \E x \in {v.pc, "leaving"} :
                  /\ x = "leaving" => v.pc = "leaving" \/ WritersStopped(s)
                  /\ Control(s, x, "none", v.signal)
             /\ Past(s, v.stuck \/ ~WritersStopped(s), ~failed, v.crashed)
             /\ fds' = [fds EXCEPT ![s] = IF WritersStopped(s) THEN @ \ {"server"} ELSE @]
             /\ \E h \in {"start", "free"} :
                  (h = "start" => ~failed) /\ handler' = [handler EXCEPT ![s] = h]
    <2>1. /\ launcher[s].status = "ready" /\ v.signal = "none" /\ v.abandoned = {}
          /\ handler[s] \in {"stop", "restart"}
      BY <1>1, <1>8 DEF Phases, Files
    <2>2. /\ handler'[s] \in {"start", "free"} /\ (handler'[s] = "start" => ~failed)
          /\ fds'[s] = IF WritersStopped(s) THEN fds[s] \ {"server"} ELSE fds[s]
      BY <1>1, <1>8 DEF TypeOK
    <2>3. PICK x \in {v.pc, "leaving"} : /\ x = "leaving" => v.pc = "leaving" \/ WritersStopped(s)
                                        /\ Control(s, x, "none", v.signal)
      BY <1>8
    <2>4. Phases(s)'
      BY <1>1, <1>5, <1>8, <2>1, <2>2, <2>3 DEF Phases, Control
    <2>5. ~failed => alive[s] = {} /\ fds'[s] = {}
      BY <1>2, <2>1, <2>2 DEF Unfinished, WritersStopped
    <2>6. Past(s, v.stuck \/ ~WritersStopped(s), ~failed, v.crashed)
      BY <1>8
    <2>7. /\ Unfinished(s)' = Unfinished(s) /\ server'[s].pc = x
          /\ server'[s].abandoned = {} /\ server'[s].reaped = v.reaped
          /\ server'[s].complete = ~failed
      BY <1>3, <2>1, <2>3, <2>6 DEF Unfinished, SameWork, Work, Past, Control
    <2>8. alive'[s] \subseteq fds'[s] /\ ("server" \notin fds'[s] => "server" \notin fds[s] \/ Unfinished(s) = {})
      BY <1>1, <1>2, <1>5, <2>2 DEF Files, WritersStopped
    <2>9. x \in {"serving", "leaving"} /\ (x = "leaving" => Unfinished(s) = {})
      BY <1>1, <1>8, <2>3 DEF Files, WritersStopped
    <2>10. x = "serving" /\ "server" \notin fds[s] => Unfinished(s) = {}
      BY <1>1, <1>8, <2>3 DEF Files
    <2>11. Files(s)'
      BY <1>2, <1>5, <2>1, <2>2, <2>5, <2>7, <2>8, <2>9, <2>10 DEF Files, Initializing
    <2>12. QED
      BY <1>2, <1>5, <2>4, <2>11, LocalStep DEF TypeOK
  <1>9. QED
    BY <1>6, <1>7, <1>8, PassEndedEffect

LEMMA PassEndsStep ==
  ASSUME IInv, NEW s \in Sessions, EndPass(s) \/ PassFails(s)
  PROVE  IInv'
  <1>1. TypeOK /\ server[s] \in Servers
    BY DEF IInv, TypeOK
  <1>2. CASE EndPass(s)
    <2>1. /\ Closing(s) /\ Unfinished(s) = {} /\ PassEnded(s, server[s].died /\ ~server[s].reported)
          /\ UNCHANGED <<launcher, alive, lock, crashes>> /\ faults' \in 0..MaxFaults
      BY <1>1, <1>2 DEF EndPass, TypeOK
    <2> DEFINE failed == server[s].died /\ ~server[s].reported
    <2>2. failed \in BOOLEAN /\ PassEnded(s, failed)
      BY <2>1
    <2> HIDE DEF failed
    <2>3. ~failed => Unfinished(s) = {}
      BY <2>1
    <2>4. QED
      BY <2>1, <2>2, <2>3, PassStep, Zenon
  <1>3. CASE PassFails(s)
    <2>1. faults' \in 0..MaxFaults
      BY <1>1, <1>3, SessionsAssumption DEF PassFails, TypeOK
    <2>2. /\ Closing(s) /\ PassEnded(s, TRUE) /\ TRUE \in BOOLEAN
          /\ UNCHANGED <<launcher, alive, lock, crashes>>
      BY <1>3, Zenon DEF PassFails
    <2>3. QED
      BY <2>1, <2>2, PassStep, Zenon
  <1>4. QED
    BY <1>2, <1>3
-----------------------------------------------------------------------------
(* What the signal does: it starts the closing of a server, or it cuts its  *)
(* closing short, which an editor survives.                                 *)
LEMMA ClosesEffect ==
  ASSUME IInv, NEW s \in Sessions, NEW closer \in Closers,
         server' = [server EXCEPT ![s].signal = "taken", ![s].pc = "closing",
                                  ![s].closer = closer, ![s].closed = closer # "init"]
  PROVE  /\ OnlyServer(s) /\ Control(s, "closing", closer, "taken")
         /\ SameWork(s) /\ SamePast(s)
  <1> DEFINE v == server[s]
             w == [v EXCEPT !.signal = "taken", !.pc = "closing",
                            !.closer = closer, !.closed = closer # "init"]
  <1>1. v \in Servers /\ server \in [Sessions -> Servers]
    BY DEF IInv, TypeOK
  <1>2. server' = [server EXCEPT ![s] = w]
    BY <1>1
  <1>3. w \in Servers
    BY <1>1 DEF Servers, Closers
  <1>4. w.pc = "closing" /\ w.closer = closer /\ w.signal = "taken"
    BY <1>1 DEF Servers
  <1>5. w.started = v.started /\ w.reaped = v.reaped /\ w.abandoned = v.abandoned
    BY <1>1 DEF Servers
  <1>6. w.stuck = v.stuck /\ w.complete = v.complete /\ w.crashed = v.crashed
    BY <1>1 DEF Servers
  <1> HIDE DEF w
  <1>7. server'[s] = w
    BY <1>1, <1>2
  <1>8. QED
    BY <1>1, <1>2, <1>3, <1>4, <1>5, <1>6, <1>7
    DEF OnlyServer, Control, SameWork, Work, SamePast, Past

LEMMA AbandonsEffect ==
  ASSUME IInv, NEW s \in Sessions, NEW dropped \in SUBSET Groups,
         server' = [server EXCEPT ![s].signal = "taken", ![s].abandoned = @ \cup dropped]
  PROVE  /\ OnlyServer(s) /\ Control(s, server[s].pc, server[s].closer, "taken")
         /\ Work(s, server[s].started, server[s].reaped, server[s].abandoned \cup dropped)
         /\ SamePast(s)
  <1> DEFINE v == server[s]
             w == [v EXCEPT !.signal = "taken", !.abandoned = @ \cup dropped]
  <1>1. v \in Servers /\ server \in [Sessions -> Servers]
    BY DEF IInv, TypeOK
  <1>2. server' = [server EXCEPT ![s] = w]
    BY <1>1
  <1>3. w \in Servers
    BY <1>1 DEF Servers
  <1>4. w.pc = v.pc /\ w.closer = v.closer /\ w.signal = "taken"
    BY <1>1 DEF Servers
  <1>5. w.started = v.started /\ w.reaped = v.reaped /\ w.abandoned = v.abandoned \cup dropped
    BY <1>1 DEF Servers
  <1>6. w.stuck = v.stuck /\ w.complete = v.complete /\ w.crashed = v.crashed
    BY <1>1 DEF Servers
  <1> HIDE DEF w
  <1>7. server'[s] = w
    BY <1>1, <1>2
  <1>8. QED
    BY <1>1, <1>2, <1>3, <1>4, <1>5, <1>6, <1>7
    DEF OnlyServer, Control, Work, SamePast, Past

LEMMA CutShortEffect ==
  ASSUME IInv, NEW s \in Sessions, NEW dropped \in SUBSET Groups,
         server' = [server EXCEPT ![s].signal = "taken", ![s].abandoned = @ \cup dropped,
                                  ![s].pc = "exited", ![s].closer = "none"]
  PROVE  /\ OnlyServer(s) /\ Control(s, "exited", "none", "taken")
         /\ Work(s, server[s].started, server[s].reaped, server[s].abandoned \cup dropped)
         /\ SamePast(s)
  <1> DEFINE v == server[s]
             w == [v EXCEPT !.signal = "taken", !.abandoned = @ \cup dropped,
                            !.pc = "exited", !.closer = "none"]
  <1>1. v \in Servers /\ server \in [Sessions -> Servers]
    BY DEF IInv, TypeOK
  <1>2. server' = [server EXCEPT ![s] = w]
    BY <1>1
  <1>3. w \in Servers
    BY <1>1 DEF Servers
  <1>4. w.pc = "exited" /\ w.closer = "none" /\ w.signal = "taken"
    BY <1>1 DEF Servers
  <1>5. w.started = v.started /\ w.reaped = v.reaped /\ w.abandoned = v.abandoned \cup dropped
    BY <1>1 DEF Servers
  <1>6. w.stuck = v.stuck /\ w.complete = v.complete /\ w.crashed = v.crashed
    BY <1>1 DEF Servers
  <1> HIDE DEF w
  <1>7. server'[s] = w
    BY <1>1, <1>2
  <1>8. QED
    BY <1>1, <1>2, <1>3, <1>4, <1>5, <1>6, <1>7
    DEF OnlyServer, Control, Work, SamePast, Past

LEMMA TakeSignalStep ==
  ASSUME IInv, NEW s \in Sessions, TakeSignal(s)
  PROVE  IInv'
  <1>1. TypeOK /\ Phases(s) /\ Files(s) /\ server \in [Sessions -> Servers]
    BY DEF IInv, TypeOK
  <1> DEFINE v == server[s]
             dropped == IF "editor" \in Unfinished(s) THEN {"editor"} ELSE Unfinished(s)
             Closes(closer) ==
               server' = [server EXCEPT ![s].signal = "taken", ![s].pc = "closing",
                                        ![s].closer = closer, ![s].closed = closer # "init"]
             Goes ==
               server' = [server EXCEPT ![s].signal = "taken", ![s].abandoned = @ \cup dropped]
             CutShort ==
               /\ server' = [server EXCEPT ![s].signal = "taken", ![s].abandoned = @ \cup dropped,
                                           ![s].pc = "exited", ![s].closer = "none"]
               /\ fds' = [fds EXCEPT ![s] = @ \ {"server"}]
  <1>2. /\ v.pc \in PCs /\ v.pc \notin {"absent", "exited"} /\ v.signal = "sent"
        /\ alive[s] \subseteq v.started \ v.reaped /\ fds[s] \subseteq alive[s] \cup {"server"}
        /\ v.started \subseteq ProcessSet(s) /\ "server" \notin ProcessSet(s)
    BY <1>1, ProcessNames DEF TypeOK, Files, Servers, PCs, TakeSignal, Raises
  <1>3. launcher[s].status # "ready" /\ handler[s] = "free" /\ v.pc # "leaving"
    BY <1>1, <1>2 DEF Phases, TypeOK
  <1>4. /\ launcher' = launcher /\ handler' = handler /\ alive' = alive /\ lock' = Unlocked(s)
        /\ faults' = faults /\ crashes' = crashes
    BY DEF TakeSignal
  <1>5. ASSUME OnlyServer(s), fds' = fds \/ fds' = [fds EXCEPT ![s] = @ \ {"server"}]
        PROVE  Local(s)
    BY <1>1, <1>4, <1>5 DEF TypeOK, Local
  <1>6. ASSUME NEW closer \in {"init", "bind", "main"}, fds' = fds, Closes(closer)
        PROVE  IInv'
    <2>1. /\ OnlyServer(s) /\ Control(s, "closing", closer, "taken")
          /\ SameWork(s) /\ SamePast(s)
      BY <1>6, ClosesEffect DEF Closers
    <2>2. Phases(s)'
      BY <1>1, <1>2, <1>3, <1>4, <2>1 DEF Phases, Control
    <2>3. Files(s)'
      BY <1>1, <1>2, <1>3, <1>4, <1>6, <2>1
      DEF Files, Unfinished, Control, SameWork, Work, SamePast, Past, Initializing
    <2>4. Local(s)
      BY <1>5, <1>6, <2>1
    <2>5. server'[s].pc = "closing" /\ server'[s].started = v.started
      BY <2>1 DEF Control, SameWork, Work
    <2>6. QED
      BY <1>2, <1>4, <1>6, <2>2, <2>3, <2>4, <2>5, LocalStep DEF Files
  <1>7. dropped \in SUBSET Groups
    <2>1. v.started \in SUBSET Groups
      BY <1>1 DEF Servers
    <2>2. dropped \subseteq v.started
      BY DEF Unfinished
    <2>3. QED
      BY <2>1, <2>2
  <1>8. ASSUME v.pc = "closing", fds' = fds, Goes
        PROVE  IInv'
    <2> HIDE DEF dropped
    <2>1. /\ OnlyServer(s) /\ Control(s, "closing", v.closer, "taken")
          /\ Work(s, v.started, v.reaped, v.abandoned \cup dropped) /\ SamePast(s)
      BY <1>7, <1>8, AbandonsEffect
    <2>2. Phases(s)'
      BY <1>1, <1>2, <1>3, <1>4, <1>8, <2>1 DEF Phases, Control
    <2>3. Files(s)'
      BY <1>1, <1>2, <1>3, <1>4, <1>8, <2>1
      DEF Files, Unfinished, Control, Work, SamePast, Past, Initializing
    <2>4. Local(s)
      BY <1>5, <1>8, <2>1
    <2>5. server'[s].pc = "closing" /\ server'[s].started = v.started
      BY <2>1 DEF Control, Work
    <2>6. QED
      BY <1>2, <1>4, <1>8, <2>2, <2>3, <2>4, <2>5, LocalStep DEF Files
  <1>9. ASSUME v.pc \in {"lease", "closing"}, v.pc = "closing" => dropped = Unfinished(s), CutShort
        PROVE  IInv'
    <2>1. alive[s] \subseteq v.abandoned \cup dropped
      <3>1. CASE v.pc = "lease"
        BY <1>1, <1>2, <3>1 DEF Files
      <3>2. CASE v.pc = "closing"
        BY <1>2, <1>9, <3>2 DEF Unfinished
      <3>3. QED
        BY <1>9, <3>1, <3>2
    <2> HIDE DEF dropped
    <2>2. /\ OnlyServer(s) /\ Control(s, "exited", "none", "taken")
          /\ Work(s, v.started, v.reaped, v.abandoned \cup dropped) /\ SamePast(s)
      BY <1>7, <1>9, CutShortEffect
    <2>3. fds'[s] = fds[s] \ {"server"}
      BY <1>1, <1>9 DEF TypeOK
    <2>4. Phases(s)'
      BY <1>1, <1>2, <1>3, <1>4, <1>9, <2>2 DEF Phases, Control
    <2>5. Files(s)'
      BY <1>1, <1>2, <1>3, <1>4, <1>9, <2>1, <2>2, <2>3
      DEF Files, Unfinished, Control, Work, SamePast, Past, Initializing
    <2>6. Local(s)
      BY <1>5, <1>9, <2>2
    <2>7. server'[s].pc = "exited" /\ server'[s].started = v.started
      BY <2>2 DEF Control, Work
    <2>8. QED
      BY <1>2, <1>4, <2>3, <2>4, <2>5, <2>6, <2>7, LocalStep DEF Files
  <1>10. CASE v.pc \in Initializing \cup {"publish", "serving"}
    <2>1. \E closer \in {"init", "bind", "main"} : Closes(closer) /\ fds' = fds
      <3>1. CASE v.pc \in Initializing
        <4>1. Closes("init") /\ fds' = fds
          BY <3>1 DEF TakeSignal, Initializing
        <4>2. QED
          BY <4>1
      <3>2. CASE v.pc = "publish"
        <4>1. Closes("bind") /\ fds' = fds
          BY <3>2 DEF TakeSignal, Initializing
        <4>2. QED
          BY <4>1
      <3>3. CASE v.pc = "serving"
        <4>1. Closes("main") /\ fds' = fds
          BY <3>3 DEF TakeSignal, Initializing
        <4>2. QED
          BY <4>1
      <3>4. QED
        BY <1>10, <3>1, <3>2, <3>3
    <2>2. QED
      BY <1>6, <2>1
  <1>11. CASE v.pc = "closing" /\ dropped = {"editor"}
    BY <1>8, <1>11 DEF TakeSignal, Initializing
  <1>12. CASE v.pc = "lease" \/ (v.pc = "closing" /\ dropped # {"editor"})
    <2>1. v.pc = "closing" => dropped = Unfinished(s)
      BY <1>12
    <2>2. CutShort
      BY <1>12 DEF TakeSignal, Initializing
    <2>3. QED
      BY <1>9, <1>12, <2>1, <2>2
  <1>13. \/ v.pc \in Initializing \cup {"publish", "serving"}
         \/ v.pc = "closing" \/ v.pc = "lease"
    BY <1>2, <1>3 DEF PCs
  <1> HIDE DEF dropped
  <1>14. QED
    BY <1>10, <1>11, <1>12, <1>13

LEMMA RequestStep ==
  ASSUME IInv, NEW s \in Sessions, NEW kind \in {"stop", "restart"}, Request(s, kind)
  PROVE  IInv'
  <1>1. TypeOK /\ Phases(s) /\ Files(s) /\ server \in [Sessions -> Servers]
    BY DEF IInv, TypeOK
  <1> DEFINE v == server[s]
             h == IF kind = "restart" /\ v.complete THEN "start"
                  ELSE IF kind = "stop" /\ v.complete THEN "free" ELSE kind
             w == [v EXCEPT !.closed = TRUE, !.closer = "handler"]
  <1>2. /\ launcher[s].status = "ready" /\ v.pc \in {"serving", "leaving"} /\ handler[s] = "free"
        /\ v.signal = "none"
    BY <1>1 DEF Request, Phases
  <1>3. /\ handler' = [handler EXCEPT ![s] = h] /\ launcher' = launcher
        /\ alive' = alive /\ fds' = fds /\ lock' = lock /\ faults' = faults /\ crashes' = crashes
        /\ \/ v.complete /\ kind = "stop" /\ GoesTo(s, "leaving")
           \/ v.complete /\ kind = "restart" /\ server' = server
           \/ ~v.complete /\ server' = [server EXCEPT ![s].closed = TRUE, ![s].closer = "handler"]
    BY DEF Request, GoesTo
  <1>4. handler'[s] = h /\ h \in {"free", "stop", "restart", "start"}
    BY <1>1, <1>3 DEF TypeOK
  <1>5. /\ alive[s] \subseteq v.started /\ fds[s] \subseteq alive[s] \cup {"server"}
        /\ v.started \subseteq ProcessSet(s)
    BY <1>1 DEF TypeOK
  <1>6. ASSUME OnlyServer(s), SameWork(s), SamePast(s), NEW x \in {v.pc, "leaving"},
               NEW closer \in {v.closer, "handler"}, Control(s, x, closer, v.signal),
               x = "leaving" => v.pc = "leaving" \/ v.complete,
               closer = "handler" <=> h \in {"stop", "restart"},
               closer \notin {"init", "bind", "main", "main again"}
        PROVE  IInv'
    <2>1. Phases(s)'
      BY <1>1, <1>2, <1>3, <1>4, <1>6 DEF Phases, Control
    <2>2. Files(s)'
      BY <1>1, <1>2, <1>3, <1>4, <1>6
      DEF Files, Unfinished, Control, SameWork, Work, SamePast, Past, Initializing
    <2>3. Local(s)
      BY <1>1, <1>3, <1>4, <1>6 DEF TypeOK, Local
    <2>4. /\ server'[s].pc \notin {"lease", "launch"} /\ server'[s].started = v.started
      BY <1>2, <1>6 DEF Control, SameWork, Work
    <2>5. QED
      BY <1>2, <1>3, <1>5, <2>1, <2>2, <2>3, <2>4, LocalStep
  <1>7. v.closer \notin {"handler", "init", "bind", "main", "main again"}
    BY <1>1, <1>2 DEF Phases
  <1>8. CASE v.complete /\ kind = "stop" /\ GoesTo(s, "leaving")
    <2>1. /\ OnlyServer(s) /\ SameWork(s) /\ SamePast(s) /\ Control(s, "leaving", v.closer, v.signal)
      BY <1>1, <1>8, GoesToEffect DEF PCs
    <2>2. h = "free"
      BY <1>8
    <2>3. QED
      BY <1>6, <1>7, <1>8, <2>1, <2>2
  <1>9. CASE v.complete /\ kind = "restart" /\ server' = server
    <2>1. /\ OnlyServer(s) /\ SameWork(s) /\ SamePast(s) /\ Control(s, v.pc, v.closer, v.signal)
      BY <1>1, <1>9 DEF OnlyServer, SameWork, Work, SamePast, Past, Control
    <2>2. h = "start"
      BY <1>9
    <2>3. QED
      BY <1>6, <1>7, <1>9, <2>1, <2>2
  <1>10. CASE ~v.complete /\ server' = [server EXCEPT ![s].closed = TRUE, ![s].closer = "handler"]
    <2>1. v \in Servers
      BY <1>1
    <2>2. w \in Servers
      BY <2>1 DEF Servers
    <2>3. w.pc = v.pc /\ w.closer = "handler" /\ w.signal = v.signal
      BY <2>1 DEF Servers
    <2>4. w.started = v.started /\ w.reaped = v.reaped /\ w.abandoned = v.abandoned
      BY <2>1 DEF Servers
    <2>5. w.stuck = v.stuck /\ w.complete = v.complete /\ w.crashed = v.crashed
      BY <2>1 DEF Servers
    <2>6. server' = [server EXCEPT ![s] = w]
      BY <1>1, <1>10
    <2> HIDE DEF w
    <2>7. server'[s] = w
      BY <1>1, <2>6
    <2>8. /\ OnlyServer(s) /\ SameWork(s) /\ SamePast(s) /\ Control(s, v.pc, "handler", v.signal)
      BY <1>1, <2>2, <2>3, <2>4, <2>5, <2>6, <2>7
      DEF OnlyServer, SameWork, Work, SamePast, Past, Control
    <2>9. h \in {"stop", "restart"} /\ v.pc \in {v.pc, "leaving"}
      BY <1>10
    <2> HIDE DEF h
    <2>10. QED
      BY <1>6, <2>8, <2>9
  <1>11. QED
    BY <1>3, <1>8, <1>9, <1>10
-----------------------------------------------------------------------------
(* Steps that change what launchers wait for. *)

LEMMA StatusEffect ==
  ASSUME IInv, NEW s \in Sessions,
         NEW x \in {"idle", "waiting", "terminating", "ready", "failed", "gone"},
         launcher' = [launcher EXCEPT ![s].status = x]
  PROVE  /\ launcher' \in [Sessions -> Launchers] /\ launcher'[s].status = x
         /\ \A t \in Sessions : t # s => launcher'[t] = launcher[t]
         /\ \A t \in Sessions : /\ launcher'[t].parent = launcher[t].parent
                                /\ launcher'[t].dataset = launcher[t].dataset
  <1>1. launcher \in [Sessions -> Launchers]
    BY DEF IInv, TypeOK
  <1>2. QED
    BY <1>1 DEF Launchers

(* What is left to show when no session opens its dataset's lock. *)
LEMMA Assembled ==
  ASSUME IInv, TypeOK', LockCoversStartup',
         \A t \in Sessions : Phases(t)' /\ Files(t)' /\ Family(t)',
         \A t \in Sessions : fds'[t] # {} =>
           fds[t] # {} /\ launcher'[t].dataset = launcher[t].dataset
  PROVE  IInv'
  <1>1. Exclusive'
    BY DEF IInv, Exclusive, Sharing
  <1>2. QED
    BY <1>1 DEF IInv

LEMMA GivesUpStep ==
  ASSUME IInv, NEW s \in Sessions, LauncherGivesUp(s)
  PROVE  IInv'
  <1>1. TypeOK /\ Phases(s) /\ Files(s) /\ server \in [Sessions -> Servers]
    BY DEF IInv, TypeOK
  <1> DEFINE v == server[s]
             w == [v EXCEPT !.signal = "sent"]
  <1>2. v \in Servers
    BY <1>1
  <1>3. /\ w \in Servers /\ w.pc = v.pc /\ w.closer = v.closer /\ w.signal = "sent"
    BY <1>2 DEF Servers
  <1>4. w.started = v.started /\ w.reaped = v.reaped /\ w.abandoned = v.abandoned
    BY <1>2 DEF Servers
  <1>5. w.stuck = v.stuck /\ w.complete = v.complete /\ w.crashed = v.crashed
    BY <1>2 DEF Servers
  <1>6. server' = [server EXCEPT ![s] = w]
    BY DEF LauncherGivesUp
  <1> HIDE DEF w
  <1>7. /\ OnlyServer(s) /\ Control(s, v.pc, v.closer, "sent") /\ SameWork(s) /\ SamePast(s)
    BY <1>1, <1>3, <1>4, <1>5, <1>6 DEF OnlyServer, Control, Work, SameWork, Past, SamePast
  <1>8. /\ launcher' \in [Sessions -> Launchers] /\ launcher'[s].status = "terminating"
        /\ \A t \in Sessions : t # s => launcher'[t] = launcher[t]
        /\ \A t \in Sessions : /\ launcher'[t].parent = launcher[t].parent
                               /\ launcher'[t].dataset = launcher[t].dataset
    BY StatusEffect DEF LauncherGivesUp
  <1>9. /\ launcher[s].status = "waiting" /\ v.pc # "exited"
        /\ handler' = handler /\ alive' = alive /\ fds' = fds /\ lock' = lock
        /\ faults' = faults /\ crashes' = crashes
    BY DEF LauncherGivesUp
  <1>10. \A t \in Sessions : t # s => Unmoved(t)
    BY <1>7, <1>8, <1>9 DEF OnlyServer, Unmoved
  <1>11. Phases(s)'
    BY <1>1, <1>7, <1>8, <1>9 DEF Phases, Control
  <1>12. Files(s)'
    BY <1>1, <1>7, <1>8, <1>9
    DEF Files, Phases, Unfinished, Control, SameWork, Work, SamePast, Past
  <1>13. \A t \in Sessions : Phases(t)' /\ Files(t)'
    BY <1>10, <1>11, <1>12, Frame DEF IInv
  <1>14. \A t \in Sessions : server'[t].started = server[t].started /\ server'[t].pc = server[t].pc
    BY <1>7 DEF OnlyServer, SameWork, Work, Control
  <1>15. TypeOK'
    BY <1>1, <1>7, <1>8, <1>9, <1>14 DEF TypeOK, OnlyServer
  <1>16. LockCoversStartup'
    BY <1>9, <1>14 DEF IInv, LockCoversStartup
  <1>17. \A p : Child(p)' = Child(p)
    BY <1>8, <1>9 DEF Child
  <1>18. ASSUME NEW t \in Sessions PROVE Family(t)'
    <2>1. Family(t)
      BY DEF IInv
    <2>2. launcher'[t].parent = launcher[t].parent
      BY <1>8
    <2>3. launcher[t].status \in {"waiting", "terminating"}
            <=> launcher'[t].status \in {"waiting", "terminating"}
      BY <1>8, <1>9
    <2>4. ASSUME launcher[t].parent \in Sessions, launcher[launcher[t].parent].status = "ready"
          PROVE  launcher'[launcher[t].parent].status = "ready"
      BY <1>8, <1>9, <2>4
    <2>5. QED
      BY <1>9, <1>14, <1>17, <2>1, <2>2, <2>3, <2>4 DEF Family
  <1>19. QED
    BY <1>8, <1>9, <1>13, <1>15, <1>16, <1>18, Assembled

(* What a launcher in the thread of another server does to it when its     *)
(* start ends: that server is the one it was restarting from.              *)
LEMMA RestartEndsEffect ==
  ASSUME IInv, NEW s \in Sessions, NEW ready \in BOOLEAN,
         launcher[s].status \in {"waiting", "terminating"}, RestartEnds(s, ready)
  PROVE  LET p == launcher[s].parent IN
         \/ p \notin Sessions /\ server' = server /\ handler' = handler
         \/ /\ p \in Sessions /\ OnlyServer(p) /\ SameWork(p) /\ SamePast(p)
            /\ p # s /\ handler[p] = "start" /\ launcher[p].status = "ready" /\ Child(p) = {s}
            /\ \E x \in {server[p].pc, "leaving"} :
                 Control(p, x, server[p].closer, server[p].signal)
            /\ handler' = [handler EXCEPT ![p] = "free"]
  <1> DEFINE p == launcher[s].parent
  <1>1. TypeOK /\ server \in [Sessions -> Servers] /\ Family(s)
    BY DEF IInv, TypeOK
  <1>2. CASE p \notin Sessions
    BY <1>2 DEF RestartEnds
  <1>3. CASE p \in Sessions
    <2> DEFINE v == server[p]
               w == [v EXCEPT !.restarted = TRUE, !.pc = "leaving"]
    <2>1. handler[p] = "start" /\ launcher[p].status = "ready" /\ Child(p) = {s} /\ p # s
      BY <1>1, <1>3 DEF Family
    <2>2. /\ handler' = [handler EXCEPT ![p] = "free"]
          /\ server' = IF ready THEN [server EXCEPT ![p].restarted = TRUE, ![p].pc = "leaving"]
                       ELSE server
      BY <1>3 DEF RestartEnds
    <2>3. v \in Servers
      BY <1>1, <1>3
    <2>4. CASE ready
      <3>1. w \in Servers
        BY <2>3 DEF Servers
      <3>2. w.pc = "leaving" /\ w.closer = v.closer /\ w.signal = v.signal
        BY <2>3 DEF Servers
      <3>3. w.started = v.started /\ w.reaped = v.reaped /\ w.abandoned = v.abandoned
        BY <2>3 DEF Servers
      <3>4. w.stuck = v.stuck /\ w.complete = v.complete /\ w.crashed = v.crashed
        BY <2>3 DEF Servers
      <3>5. server' = [server EXCEPT ![p] = w]
        BY <1>1, <1>3, <2>2, <2>4
      <3> HIDE DEF w
      <3>6. server'[p] = w
        BY <1>1, <1>3, <3>5
      <3>7. /\ OnlyServer(p) /\ SameWork(p) /\ SamePast(p)
            /\ Control(p, "leaving", v.closer, v.signal)
        BY <1>1, <1>3, <3>1, <3>2, <3>3, <3>4, <3>5, <3>6
        DEF OnlyServer, Control, SameWork, Work, SamePast, Past
      <3>8. QED
        BY <1>3, <2>1, <2>2, <3>7
    <2>5. CASE ~ready
      <3>1. server' = server
        BY <2>2, <2>5
      <3>2. /\ OnlyServer(p) /\ SameWork(p) /\ SamePast(p)
            /\ Control(p, v.pc, v.closer, v.signal)
        BY <1>1, <3>1 DEF OnlyServer, Control, SameWork, Work, SamePast, Past
      <3>3. QED
        BY <1>3, <2>1, <2>2, <3>2
    <2>6. QED
      BY <2>4, <2>5
  <1>4. QED
    BY <1>2, <1>3

LEMMA StartEndsStep ==
  ASSUME IInv, NEW s \in Sessions, NEW ready \in BOOLEAN, NEW x \in {"ready", "failed"},
         launcher[s].status \in {"waiting", "terminating"},
         x = "ready" => launcher[s].status = "waiting" /\ server[s].pc = "serving",
         launcher' = [launcher EXCEPT ![s].status = x], RestartEnds(s, ready),
         UNCHANGED <<alive, fds, lock, faults, crashes>>
  PROVE  IInv'
  <1> DEFINE p == launcher[s].parent
  <1>1. /\ TypeOK /\ server \in [Sessions -> Servers]
        /\ \A t \in Sessions : Phases(t) /\ Files(t) /\ Family(t)
    BY DEF IInv, TypeOK
  <1>2. /\ launcher' \in [Sessions -> Launchers] /\ launcher'[s].status = x
        /\ \A t \in Sessions : t # s => launcher'[t] = launcher[t]
        /\ \A t \in Sessions : /\ launcher'[t].parent = launcher[t].parent
                               /\ launcher'[t].dataset = launcher[t].dataset
    BY StatusEffect
  <1>3. alive' = alive /\ fds' = fds /\ lock' = lock /\ faults' = faults /\ crashes' = crashes
    OBVIOUS
  <1>4. \/ p \notin Sessions /\ server' = server /\ handler' = handler
        \/ /\ p \in Sessions /\ OnlyServer(p) /\ SameWork(p) /\ SamePast(p)
           /\ p # s /\ handler[p] = "start" /\ launcher[p].status = "ready" /\ Child(p) = {s}
           /\ \E y \in {server[p].pc, "leaving"} :
                Control(p, y, server[p].closer, server[p].signal)
           /\ handler' = [handler EXCEPT ![p] = "free"]
    BY RestartEndsEffect
  <1>5. /\ server'[s] = server[s] /\ handler'[s] = handler[s]
        /\ \A t \in Sessions : t # s /\ t # p => Unmoved(t)
    BY <1>1, <1>2, <1>3, <1>4 DEF OnlyServer, Unmoved, TypeOK
  <1>6. Phases(s) /\ Files(s)
    BY <1>1
  <1>7. Phases(s)' /\ Files(s)'
    <2>1. Phases(s)'
      BY <1>2, <1>5, <1>6 DEF Phases
    <2>2. Files(s)'
      BY <1>2, <1>3, <1>5, <1>6 DEF Files, Phases, Unfinished
    <2>3. QED
      BY <2>1, <2>2
  <1>8. ASSUME NEW u \in Sessions, u = p PROVE Phases(u)' /\ Files(u)'
    <2>1. /\ launcher'[u] = launcher[u] /\ handler'[u] = "free"
          /\ handler[u] = "start" /\ launcher[u].status = "ready"
      BY <1>1, <1>2, <1>4, <1>8 DEF TypeOK
    <2>2. SameWork(u) /\ SamePast(u)
      BY <1>4, <1>8
    <2>3. PICK y \in {server[u].pc, "leaving"} :
            Control(u, y, server[u].closer, server[u].signal)
      BY <1>4, <1>8
    <2>4. Phases(u) /\ Files(u)
      BY <1>1
    <2>5. Phases(u)'
      BY <2>1, <2>3, <2>4 DEF Phases, Control
    <2>6. Files(u)'
      BY <1>3, <2>1, <2>2, <2>3, <2>4
      DEF Files, Phases, Unfinished, Control, SameWork, Work, SamePast, Past, Initializing
    <2>7. QED
      BY <2>5, <2>6
  <1>9. \A t \in Sessions : Phases(t)' /\ Files(t)'
    BY <1>1, <1>5, <1>7, <1>8, Frame
  <1>10. \A t \in Sessions :
           /\ server'[t].started = server[t].started
           /\ server'[t].pc = "lease" <=> server[t].pc = "lease"
           /\ server'[t].pc = "launch" <=> server[t].pc = "launch"
    <2>1. p \in Sessions => server[p].pc \in {"serving", "leaving"}
      BY <1>1, <1>4 DEF Phases
    <2>2. QED
      BY <1>4, <2>1 DEF OnlyServer, SameWork, Work, Control
  <1>11. TypeOK'
    <2>1. server' \in [Sessions -> Servers]
      BY <1>1, <1>4 DEF OnlyServer
    <2>2. handler' \in [Sessions -> {"free", "stop", "restart", "start"}]
      BY <1>1, <1>4 DEF TypeOK
    <2>3. QED
      BY <1>1, <1>2, <1>3, <1>10, <2>1, <2>2 DEF TypeOK
  <1>12. LockCoversStartup'
    BY <1>3, <1>10 DEF IInv, LockCoversStartup
  <1>13. ASSUME NEW t \in Sessions PROVE Family(t)'
    <2> DEFINE q == launcher[t].parent
    <2>1. SUFFICES ASSUME q \in Sessions
                   PROVE  /\ launcher'[q].status = "ready"
                          /\ launcher'[t].status \in {"waiting", "terminating"}
                               => handler'[q] = "start" /\ Child(q)' = {t}
                          /\ server'[t].pc = "lease" => fds'[q] = {}
      BY <1>2 DEF Family
    <2>2. /\ launcher[q].status = "ready"
          /\ launcher[t].status \in {"waiting", "terminating"}
               => handler[q] = "start" /\ Child(q) = {t}
          /\ server[t].pc = "lease" => fds[q] = {}
      BY <1>1, <2>1 DEF Family
    <2>3. q # s
      BY <2>2
    <2>4. launcher'[q].status = "ready" /\ (server'[t].pc = "lease" => fds'[q] = {})
      BY <1>2, <1>3, <1>10, <2>1, <2>2, <2>3
    <2>5. ASSUME launcher'[t].status \in {"waiting", "terminating"}
          PROVE  handler'[q] = "start" /\ Child(q)' = {t}
      <3>1. t # s /\ launcher'[t] = launcher[t]
        BY <1>2, <2>5
      <3>2. handler[q] = "start" /\ Child(q) = {t}
        BY <2>2, <2>5, <3>1
      <3>3. q # p
        BY <1>4, <2>1, <3>1, <3>2
      <3>4. handler'[q] = "start"
        BY <1>1, <1>4, <2>1, <3>2, <3>3 DEF TypeOK
      <3>5. Child(q)' = Child(q)
        BY <1>2, <3>3 DEF Child
      <3>6. QED
        BY <3>2, <3>4, <3>5
    <2>6. QED
      BY <2>4, <2>5
  <1>14. QED
    BY <1>2, <1>3, <1>9, <1>11, <1>12, <1>13, Assembled

LEMMA LauncherEndsStep ==
  ASSUME IInv, NEW s \in Sessions, Waits(s)
  PROVE  IInv'
  <1>1. CASE LauncherReady(s)
    <2>1. /\ launcher[s].status = "waiting" /\ server[s].pc = "serving"
          /\ launcher' = [launcher EXCEPT ![s].status = "ready"]
          /\ RestartEnds(s, TRUE) /\ TRUE \in BOOLEAN
          /\ UNCHANGED <<alive, fds, lock, faults, crashes>>
      BY <1>1, Zenon DEF LauncherReady
    <2>2. QED
      BY <2>1, StartEndsStep
  <1>2. CASE LauncherFails(s)
    <2>1. /\ launcher[s].status \in {"waiting", "terminating"}
          /\ launcher' = [launcher EXCEPT ![s].status = "failed"]
          /\ RestartEnds(s, FALSE) /\ FALSE \in BOOLEAN
          /\ UNCHANGED <<alive, fds, lock, faults, crashes>>
      BY <1>2, Zenon DEF LauncherFails
    <2>2. QED
      BY <2>1, StartEndsStep
  <1>3. QED
    BY <1>1, <1>2 DEF Waits

(* A server that exits takes the thread of its restart with it: whoever     *)
(* that thread was starting has no launcher any more.                       *)
LEMMA ServerEndsStep ==
  ASSUME IInv, NEW s \in Sessions, OnlyServer(s), SameWork(s),
         Control(s, "exited", "none", server[s].signal),
         NEW complete, NEW crashed, Past(s, server[s].stuck, complete, crashed),
         server[s].pc \notin {"absent", "exited"},
         ~crashed => alive[s] \subseteq server[s].abandoned,
         handler' = [handler EXCEPT ![s] = "free"],
         launcher' = [t \in Sessions |-> IF t \in Child(s)
                        THEN [launcher[t] EXCEPT !.status = "gone"] ELSE launcher[t]],
         fds' = [fds EXCEPT ![s] = @ \ {"server"}],
         lock' = Unlocked(s), alive' = alive,
         faults' \in 0..MaxFaults, crashes' \in 0..MaxCrashes
  PROVE  IInv'
  <1>1. /\ TypeOK /\ server \in [Sessions -> Servers] /\ launcher \in [Sessions -> Launchers]
        /\ \A t \in Sessions : Phases(t) /\ Files(t) /\ Family(t)
    BY DEF IInv, TypeOK
  <1>2. ASSUME NEW t \in Sessions
        PROVE  /\ launcher'[t] \in Launchers /\ launcher'[t].parent = launcher[t].parent
               /\ launcher'[t].dataset = launcher[t].dataset
               /\ \/ launcher'[t] = launcher[t] /\ t \notin Child(s)
                  \/ /\ launcher'[t].status = "gone" /\ t \in Child(s)
                     /\ launcher[t].status \in {"waiting", "terminating"}
                     /\ launcher[t].parent = s
    <2>1. launcher[t] \in Launchers
      BY <1>1
    <2>2. CASE t \in Child(s)
      BY <2>1, <2>2 DEF Child, Launchers
    <2>3. CASE t \notin Child(s)
      BY <2>1, <2>3
    <2>4. QED
      BY <2>2, <2>3
  <1>3. s \notin Child(s)
    BY <1>1 DEF Family, Child
  <1>4. /\ fds'[s] = fds[s] \ {"server"} /\ handler'[s] = "free" /\ launcher'[s] = launcher[s]
        /\ \A t \in Sessions : t # s =>
             server'[t] = server[t] /\ handler'[t] = handler[t] /\ fds'[t] = fds[t]
    BY <1>1, <1>2, <1>3 DEF TypeOK, OnlyServer
  <1>5. ASSUME NEW t \in Sessions, t # s PROVE Phases(t)' /\ Files(t)'
    <2>1. Phases(t) /\ Files(t)
      BY <1>1
    <2>2. Phases(t)'
      BY <1>2, <1>4, <1>5, <2>1 DEF Phases
    <2>3. Files(t)'
      BY <1>2, <1>4, <1>5, <2>1 DEF Files, Phases, Unfinished
    <2>4. QED
      BY <2>2, <2>3
  <1>6. Phases(s) /\ Files(s) /\ "server" \notin alive[s]
    BY <1>1, ProcessNames DEF TypeOK
  <1>7. Phases(s)'
    BY <1>4, <1>6 DEF Phases, Control
  <1>8. Files(s)'
    BY <1>4, <1>6 DEF Files, Unfinished, Control, SameWork, Work, Past, Initializing
  <1>9. /\ \A t \in Sessions : server'[t].started = server[t].started /\ fds'[t] \subseteq fds[t]
        /\ \A t \in Sessions : server'[t].pc = "lease" => server[t].pc = "lease" /\ t # s
    BY <1>4 DEF SameWork, Work, Control
  <1>10. TypeOK'
    <2>1. launcher' \in [Sessions -> Launchers]
      BY <1>2
    <2>2. lock' \in Sessions \cup {None}
      BY <1>1 DEF TypeOK, Unlocked
    <2>3. /\ handler' \in [Sessions -> {"free", "stop", "restart", "start"}]
          /\ fds' \in [Sessions -> SUBSET (Groups \cup {"server"})]
      BY <1>1 DEF TypeOK
    <2>4. QED
      BY <1>1, <1>9, <2>1, <2>2, <2>3 DEF TypeOK, OnlyServer
  <1>11. LockCoversStartup'
    BY <1>1, <1>4, SessionsAssumption DEF IInv, LockCoversStartup, Unlocked, Control
  <1>12. ASSUME NEW t \in Sessions PROVE Family(t)'
    <2> DEFINE q == launcher[t].parent
    <2>1. SUFFICES ASSUME q \in Sessions
                   PROVE  /\ launcher'[q].status = "ready"
                          /\ launcher'[t].status \in {"waiting", "terminating"}
                               => handler'[q] = "start" /\ Child(q)' = {t}
                          /\ server'[t].pc = "lease" => fds'[q] = {}
      BY <1>2 DEF Family
    <2>2. /\ launcher[q].status = "ready"
          /\ launcher[t].status \in {"waiting", "terminating"}
               => handler[q] = "start" /\ Child(q) = {t}
          /\ server[t].pc = "lease" => fds[q] = {}
      BY <1>1, <2>1 DEF Family
    <2>3. launcher'[q].status = "ready" /\ (server'[t].pc = "lease" => fds'[q] = {})
      BY <1>2, <1>9, <2>1, <2>2
    <2>4. ASSUME launcher'[t].status \in {"waiting", "terminating"}
          PROVE  handler'[q] = "start" /\ Child(q)' = {t}
      <3>1. t \notin Child(s) /\ launcher'[t] = launcher[t]
        BY <1>2, <2>4
      <3>2. handler[q] = "start" /\ Child(q) = {t}
        BY <2>2, <2>4, <3>1
      <3>3. q # s
        BY <3>1, <3>2
      <3>4. Child(q)' = Child(q)
        BY <1>2, <3>3 DEF Child
      <3>5. QED
        BY <1>4, <2>1, <3>2, <3>3, <3>4
    <2>5. QED
      BY <2>3, <2>4
  <1>13. QED
    BY <1>2, <1>5, <1>7, <1>8, <1>9, <1>10, <1>11, <1>12, Assembled

LEMMA LeaveStep ==
  ASSUME IInv, NEW s \in Sessions, Leave(s)
  PROVE  IInv'
  <1>1. TypeOK /\ Files(s) /\ server \in [Sessions -> Servers] /\ LockCoversStartup
    BY DEF IInv, TypeOK
  <1> DEFINE v == server[s]
             w == [v EXCEPT !.pc = "exited", !.complete = TRUE]
  <1>2. v \in Servers /\ v.pc = "leaving" /\ v.closer = "none"
    BY <1>1 DEF Leave
  <1>3. w \in Servers /\ w.pc = "exited" /\ w.closer = v.closer /\ w.signal = v.signal
    BY <1>2 DEF Servers
  <1>4. w.started = v.started /\ w.reaped = v.reaped /\ w.abandoned = v.abandoned
    BY <1>2 DEF Servers
  <1>5. w.stuck = v.stuck /\ w.complete = TRUE /\ w.crashed = v.crashed
    BY <1>2 DEF Servers
  <1>6. server' = [server EXCEPT ![s] = w]
    BY <1>1 DEF Leave
  <1> HIDE DEF w
  <1>7. server'[s] = w
    BY <1>1, <1>6
  <1>8. /\ OnlyServer(s) /\ SameWork(s) /\ Control(s, "exited", "none", v.signal)
        /\ Past(s, v.stuck, TRUE, v.crashed)
    BY <1>1, <1>2, <1>3, <1>4, <1>5, <1>6, <1>7
    DEF OnlyServer, Control, SameWork, Work, Past
  <1>9. alive[s] \subseteq v.abandoned
    BY <1>1, <1>2 DEF Files, Unfinished
  <1>10. lock' = Unlocked(s)
    BY <1>1, <1>2 DEF Leave, LockCoversStartup, Unlocked
  <1>11. /\ handler' = [handler EXCEPT ![s] = "free"]
         /\ launcher' = [t \in Sessions |-> IF t \in Child(s)
                           THEN [launcher[t] EXCEPT !.status = "gone"] ELSE launcher[t]]
         /\ fds' = [fds EXCEPT ![s] = @ \ {"server"}] /\ alive' = alive
         /\ faults' \in 0..MaxFaults /\ crashes' \in 0..MaxCrashes
    BY <1>1 DEF Leave, TypeOK
  <1>12. QED
    BY <1>2, <1>8, <1>9, <1>10, <1>11, ServerEndsStep

LEMMA CrashStep ==
  ASSUME IInv, NEW s \in Sessions, Crash(s)
  PROVE  IInv'
  <1>1. TypeOK /\ server \in [Sessions -> Servers]
    BY DEF IInv, TypeOK
  <1> DEFINE v == server[s]
             w == [v EXCEPT !.pc = "exited", !.closer = "none", !.crashed = TRUE]
  <1>2. v \in Servers /\ v.pc \notin {"absent", "exited"}
    BY <1>1 DEF Crash
  <1>3. w \in Servers /\ w.pc = "exited" /\ w.closer = "none" /\ w.signal = v.signal
    BY <1>2 DEF Servers
  <1>4. w.started = v.started /\ w.reaped = v.reaped /\ w.abandoned = v.abandoned
    BY <1>2 DEF Servers
  <1>5. w.stuck = v.stuck /\ w.complete = v.complete /\ w.crashed = TRUE
    BY <1>2 DEF Servers
  <1>6. server' = [server EXCEPT ![s] = w]
    BY <1>1 DEF Crash
  <1> HIDE DEF w
  <1>7. server'[s] = w
    BY <1>1, <1>6
  <1>8. /\ OnlyServer(s) /\ SameWork(s) /\ Control(s, "exited", "none", v.signal)
        /\ Past(s, v.stuck, v.complete, TRUE)
    BY <1>1, <1>3, <1>4, <1>5, <1>6, <1>7 DEF OnlyServer, Control, SameWork, Work, Past
  <1>9. crashes' \in 0..MaxCrashes
    BY <1>1, SessionsAssumption DEF Crash, TypeOK
  <1>10. /\ handler' = [handler EXCEPT ![s] = "free"]
         /\ launcher' = [t \in Sessions |-> IF t \in Child(s)
                           THEN [launcher[t] EXCEPT !.status = "gone"] ELSE launcher[t]]
         /\ fds' = [fds EXCEPT ![s] = @ \ {"server"}] /\ alive' = alive
         /\ lock' = Unlocked(s) /\ faults' \in 0..MaxFaults
    BY <1>1 DEF Crash, TypeOK
  <1>11. QED
    BY <1>2, <1>8, <1>9, <1>10, ServerEndsStep

LEMMA StartStep ==
  ASSUME IInv, NEW s \in Sessions, NEW p \in Sessions \cup {External}, Start(s, p)
  PROVE  IInv'
  <1>1. /\ TypeOK /\ server \in [Sessions -> Servers] /\ launcher \in [Sessions -> Launchers]
        /\ \A t \in Sessions : Phases(t) /\ Files(t) /\ Family(t)
    BY DEF IInv, TypeOK
  <1>2. PICK d \in Datasets[s] :
          launcher' = [launcher EXCEPT ![s] = [status |-> "waiting", parent |-> p, dataset |-> d]]
    BY DEF Start
  <1>3. /\ GoesTo(s, "lease") /\ handler' = handler /\ alive' = alive /\ fds' = fds
        /\ lock' = lock /\ faults' = faults /\ crashes' = crashes
        /\ p \in Sessions => handler[p] = "start" /\ Child(p) = {}
    BY DEF Start, GoesTo
  <1>4. launcher[s].status = "idle"
    BY SessionsAssumption DEF Start
  <1>5. /\ OnlyServer(s) /\ Control(s, "lease", server[s].closer, server[s].signal)
        /\ SameWork(s) /\ SamePast(s)
    BY <1>1, <1>3, GoesToEffect DEF PCs
  <1>6. /\ launcher'[s].status = "waiting" /\ launcher'[s].parent = p
        /\ launcher' \in [Sessions -> Launchers]
        /\ \A t \in Sessions : t # s => launcher'[t] = launcher[t]
    <2>1. [status |-> "waiting", parent |-> p, dataset |-> d] \in Launchers
      BY DEF Launchers
    <2>2. QED
      BY <1>1, <1>2, <2>1
  <1>7. Phases(s) /\ Files(s)
    BY <1>1
  <1>8. /\ server[s].pc = "absent" /\ handler[s] = "free" /\ fds[s] = {}
        /\ server[s].started = {} /\ alive[s] = {}
    <2>1. server[s].pc = "absent" /\ handler[s] = "free"
      BY <1>4, <1>7 DEF Phases
    <2>2. fds[s] = {} /\ server[s].started = {}
      BY <1>7, <2>1 DEF Files
    <2>3. alive[s] = {}
      BY <1>1, <2>2 DEF TypeOK
    <2>4. QED
      BY <2>1, <2>2, <2>3
  <1>9. Phases(s)'
    BY <1>3, <1>4, <1>5, <1>6, <1>7, <1>8 DEF Phases, Control
  <1>10. Files(s)'
    BY <1>3, <1>4, <1>5, <1>6, <1>7, <1>8
    DEF Files, Phases, Unfinished, Control, SameWork, Work, SamePast, Past, Initializing
  <1>11. \A t \in Sessions : t # s => Unmoved(t)
    BY <1>3, <1>5, <1>6 DEF OnlyServer, Unmoved
  <1>12. \A t \in Sessions : Phases(t)' /\ Files(t)'
    BY <1>1, <1>9, <1>10, <1>11, Frame
  <1>13. TypeOK'
    <2>1. \A t \in Sessions : server'[t].started = server[t].started
      BY <1>5 DEF OnlyServer, SameWork, Work
    <2>2. QED
      BY <1>1, <1>3, <1>5, <1>6, <2>1 DEF TypeOK, OnlyServer
  <1>14. LockCoversStartup'
    BY <1>3, <1>5, <1>8, <1>11 DEF IInv, LockCoversStartup, Control, Unmoved
  <1>15. Family(s)'
    <2>1. SUFFICES ASSUME p \in Sessions
                   PROVE  launcher'[p].status = "ready" /\ handler'[p] = "start"
                          /\ Child(p)' = {s} /\ fds'[p] = {}
      BY <1>6 DEF Family
    <2>2. /\ handler[p] = "start" /\ Child(p) = {} /\ Phases(p) /\ Files(p)
      BY <1>1, <1>3, <2>1
    <2>3. launcher[p].status = "ready" /\ fds[p] = {}
      BY <2>2 DEF Phases, Files
    <2>4. Child(p)' = {s}
      BY <1>6, <2>2 DEF Child
    <2>5. QED
      BY <1>3, <1>4, <1>6, <2>1, <2>2, <2>3, <2>4
  <1>16. ASSUME NEW t \in Sessions, t # s PROVE Family(t)'
    <2> DEFINE q == launcher[t].parent
    <2>1. SUFFICES ASSUME q \in Sessions
                   PROVE  /\ launcher'[q].status = "ready"
                          /\ launcher'[t].status \in {"waiting", "terminating"}
                               => handler'[q] = "start" /\ Child(q)' = {t}
                          /\ server'[t].pc = "lease" => fds'[q] = {}
      BY <1>6, <1>16 DEF Family
    <2>2. /\ launcher[q].status = "ready"
          /\ launcher[t].status \in {"waiting", "terminating"}
               => handler[q] = "start" /\ Child(q) = {t}
          /\ server[t].pc = "lease" => fds[q] = {}
      BY <1>1, <2>1 DEF Family
    <2>3. launcher'[t] = launcher[t] /\ server'[t] = server[t] /\ launcher'[q] = launcher[q]
      BY <1>4, <1>6, <1>11, <1>16, <2>1, <2>2 DEF Unmoved
    <2>4. ASSUME launcher[t].status \in {"waiting", "terminating"}
          PROVE  Child(q)' = {t}
      <3>1. q # p
        BY <1>3, <2>1, <2>2, <2>4
      <3>2. s \notin Child(q) /\ s \notin Child(q)'
        BY <1>4, <1>6, <2>3, <3>1 DEF Child
      <3>3. Child(q)' = Child(q)
        BY <1>6, <2>3, <3>2 DEF Child
      <3>4. QED
        BY <2>2, <2>4, <3>3
    <2>5. QED
      BY <1>3, <2>2, <2>3, <2>4
  <1>17. \A t \in Sessions : fds'[t] # {} =>
           fds[t] # {} /\ launcher'[t].dataset = launcher[t].dataset
    BY <1>3, <1>6, <1>8
  <1>18. QED
    BY <1>12, <1>13, <1>14, <1>15, <1>16, <1>17, Assembled
-----------------------------------------------------------------------------
LEMMA InitIInv == Init => IInv
  <1> SUFFICES ASSUME Init PROVE IInv
    OBVIOUS
  <1>1. ASSUME NEW s \in Sessions
        PROVE  /\ launcher[s].status = "idle" /\ launcher[s].parent = External
               /\ handler[s] = "free" /\ alive[s] = {} /\ fds[s] = {}
               /\ server[s].pc = "absent" /\ server[s].closer = "none"
               /\ server[s].signal = "none" /\ server[s].started = {}
               /\ server[s].reaped = {} /\ server[s].abandoned = {}
               /\ server[s].complete = FALSE
    BY DEF Init
  <1>2. TypeOK
    <2>1. launcher \in [Sessions -> Launchers]
      <3>1. [status |-> "idle", parent |-> External, dataset |-> None] \in Launchers
        BY DEF Launchers
      <3>2. QED
        BY <3>1 DEF Init
    <2>2. server \in [Sessions -> Servers]
      BY DEF Init, Servers
    <2>3. QED
      BY <1>1, <2>1, <2>2, SessionsAssumption DEF Init, TypeOK
  <1>3. LockCoversStartup
    BY <1>1, SessionsAssumption DEF Init, LockCoversStartup
  <1>4. Exclusive
    BY <1>1 DEF Exclusive, Sharing
  <1>5. ASSUME NEW s \in Sessions PROVE Phases(s) /\ Files(s) /\ Family(s)
    <2>1. Phases(s)
      BY <1>1 DEF Phases
    <2>2. Files(s)
      BY <1>1 DEF Files, Unfinished, Initializing
    <2>3. Family(s)
      BY <1>1, SessionsAssumption DEF Family
    <2>4. QED
      BY <2>1, <2>2, <2>3
  <1>6. QED
    BY <1>2, <1>3, <1>4, <1>5 DEF IInv

LEMMA NextIInv == IInv /\ [Next]_vars => IInv'
  <1> SUFFICES ASSUME IInv, [Next]_vars PROVE IInv'
    OBVIOUS
  <1>1. CASE UNCHANGED vars
    <2>1. /\ launcher' = launcher /\ server' = server /\ handler' = handler /\ alive' = alive
          /\ fds' = fds /\ lock' = lock /\ faults' = faults /\ crashes' = crashes
      BY <1>1 DEF vars
    <2>2. TypeOK' /\ LockCoversStartup' /\ Exclusive'
      BY <2>1 DEF IInv, TypeOK, LockCoversStartup, Exclusive, Sharing
    <2>3. ASSUME NEW s \in Sessions PROVE Phases(s)' /\ Files(s)' /\ Family(s)'
      <3>1. Phases(s) /\ Files(s) /\ Family(s)
        BY DEF IInv
      <3>2. QED
        BY <2>1, <3>1, Frame DEF Unmoved, Family, Child
    <2>4. QED
      BY <2>2, <2>3 DEF IInv
  <1>2. ASSUME NEW s \in Sessions, Works(s) PROVE IInv'
    BY <1>2, TakeLeaseStep, PrepareStep, LockStep, ServiceLaunchStep, StartupFails,
       ReapStep, PassEndsStep, TakeSignalStep, LeaveStep DEF Works
  <1>3. ASSUME NEW s \in Sessions,
               \/ \E p \in Sessions \cup {External} : Start(s, p)
               \/ Waits(s) \/ LauncherGivesUp(s) \/ LockTimesOut(s)
               \/ InitFails(s) \/ BindFails(s) \/ PassFails(s)
               \/ \E kind \in {"stop", "restart"} : Request(s, kind)
               \/ \E p \in ProcessSet(s) : ServiceDies(s, p)
               \/ Crash(s)
        PROVE  IInv'
    BY <1>3, StartStep, LauncherEndsStep, GivesUpStep, StartupFails, PassEndsStep,
       RequestStep, ServiceDiesStep, CrashStep
  <1>4. QED
    BY <1>1, <1>2, <1>3 DEF Next

(* Spec keeps the inductive invariant. *)
THEOREM Invariance == Spec => []IInv
  BY InitIInv, NextIInv, PTL DEF Spec

(* Every variable keeps its type, for every set of sessions, services and   *)
(* datasets: a session's processes are its own and only they, and its       *)
(* server, have the dataset's lock open.                                    *)
THEOREM TypeCorrect == Spec => []TypeOK
  <1>1. IInv => TypeOK
    BY DEF IInv
  <1>2. QED
    BY <1>1, Invariance, PTL

(* The startup lock is held exactly from JACK's launch to script ready,     *)
(* whichever way a server leaves that region.                               *)
THEOREM StartupIsCovered == Spec => []LockCoversStartup
  <1>1. IInv => LockCoversStartup
    BY DEF IInv
  <1>2. QED
    BY <1>1, Invariance, PTL

(* A dataset is never written by two sessions.  A group that runs has the   *)
(* lock's file open, and only the session that found it closed opens it.    *)
THEOREM DatasetHasOneWriter == Spec => []OneWriter
  <1>1. IInv => OneWriter
    BY DEF IInv, OneWriter, Exclusive, Files
  <1>2. QED
    BY <1>1, Invariance, PTL

(* The groups that outlive a server are accounted for. *)
THEOREM SurvivorsExplained == Spec => []SurvivorsAreExplained
  <1>1. IInv => SurvivorsAreExplained
    BY DEF IInv, SurvivorsAreExplained, Files
  <1>2. QED
    BY <1>1, Invariance, PTL

(* A serving session with a group that runs has the lease, closed or not:   *)
(* no signal reached it, so no group was abandoned, and one that runs is    *)
(* one that a cleanup still has to finish.                                  *)
THEOREM LeaseIsKept == Spec => []ClosedSessionKeepsLease
  <1>1. IInv => ClosedSessionKeepsLease
    <2>1. SUFFICES ASSUME IInv, NEW s \in Sessions, server[s].pc = "serving",
                          "server" \notin fds[s]
                   PROVE  alive[s] = {}
      BY DEF ClosedSessionKeepsLease
    <2>2. server[s].signal # "taken"
      BY <2>1 DEF IInv, Phases
    <2>3. QED
      BY <2>1, <2>2 DEF IInv, Files, Unfinished
  <1>2. QED
    BY <1>1, Invariance, PTL

(* A restarted session is never refused its dataset by its predecessor. *)
THEOREM SuccessorNotRefused == Spec => []SuccessorFindsDatasetFree
  <1>1. IInv => SuccessorFindsDatasetFree
    BY DEF IInv, SuccessorFindsDatasetFree, Family
  <1>2. QED
    BY <1>1, Invariance, PTL
=============================================================================
