----------------------------- MODULE ScenarioRun -----------------------------
(***************************************************************************)
(* A scenario run (runner.run with timeline.Timeline): steps against a     *)
(* session whose transport, health and sources change underneath, the      *)
(* bundle it leaves behind, and the verifier of that bundle                *)
(* (evidence.verify).  Numbers are ticks and beats; a scenario has one     *)
(* anchor, from which its waits are one beat away.                         *)
(***************************************************************************)
EXTENDS Naturals, Sequences, FiniteSets, SequencesExt

CONSTANTS Scenarios,   \* [backend, steps]: what a run may be asked for
          RunDeadline,    \* deadline_ms
          StepTimeout, \* timeout_ms of a waiting step
          MaxBeats     \* bound of the transport, per epoch

Kinds == {"action", "at_beat", "assertion", "wait", "anchor", "wait_beats", "fixture_fault"}
Acts == {"action", "at_beat"}
Looks == {"assertion", "wait", "wait_beats"}
Paces == {"anchor", "at_beat", "wait_beats"}

ASSUME ScenarioAssumption ==
  /\ Scenarios \subseteq [backend : {"native", "contract-fixture"}, steps : Seq(Kinds)]
  /\ {RunDeadline, StepTimeout, MaxBeats} \subseteq Nat

VARIABLES scenario,
          run,     \* the locals of run(): its phase, and the files it will write
          world    \* the clock, the session and its transport, and the sources

runVars == <<scenario, run, world>>

NoAnchor == [beats |-> 0, epoch |-> 0]

\* run: what is refused before a bundle exists.
Runnable(s) ==
  /\ \E k \in DOMAIN s.steps : s.steps[k] \in Looks
  /\ s.backend = "native" => \A k \in DOMAIN s.steps : s.steps[k] # "fixture_fault"

RunInit ==
  /\ scenario \in {s \in Scenarios : Runnable(s)}
  /\ run = [phase |-> "start", until |-> 0, known |-> FALSE, results |-> <<>>, trace |-> <<>>,
            seen |-> {}, anchor |-> NoAnchor, timeline |-> <<>>, error |-> "none"]
  /\ world = [now |-> 0, session |-> "none", beats |-> 0, epoch |-> 1, value |-> FALSE,
              errors |-> FALSE, source |-> "same", applied |-> <<>>, resets |-> 0]

-----------------------------------------------------------------------------
(* The steps. *)

Steps == scenario.steps
Position == Len(run.results) + 1
Step == Steps[Position]
Index == Len(run.results)

Fail(r, code) ==
  [r EXCEPT !.error = code, !.phase = "stop",
            !.results = IF Len(@) < Len(Steps)
                        THEN Append(@, [index |-> Index, passed |-> FALSE,
                               kind |-> IF r.phase = "start" THEN "startup" ELSE Step])
                        ELSE @]

Pass(r) ==
  [r EXCEPT !.phase = "steps",
            !.results = Append(@, [index |-> Index, kind |-> Step, passed |-> TRUE])]

\* session.start; a launcher that fails may still name its session.
RunStartsSession(outcome) ==
  /\ run.phase = "start"
  /\ world' = [world EXCEPT !.session = IF outcome = "ready" THEN "up" ELSE "none"]
  /\ run' = IF outcome = "ready" THEN [run EXCEPT !.phase = "steps", !.known = TRUE]
            ELSE [Fail(run, "start") EXCEPT !.known = outcome = "named"]
  /\ UNCHANGED scenario

Earlier(a, b) == IF a < b THEN a ELSE b

Unanchored == Step \in {"at_beat", "wait_beats"} /\ run.anchor = NoAnchor

BeginStep ==
  /\ run.phase = "steps" /\ Position <= Len(Steps)
  /\ run' = CASE world.now >= RunDeadline -> Fail(run, "scenario_timeout")
              [] world.now < RunDeadline /\ Unanchored -> Fail(run, "missing_anchor")
              [] OTHER -> [run EXCEPT !.phase = IF Step = "at_beat" THEN "beat" ELSE "step",
                                      !.until = Earlier(RunDeadline, world.now + StepTimeout)]
  /\ UNCHANGED <<scenario, world>>

\* A request may be applied and its answer lost, refused, or late.
DoAction(applied, answered) ==
  /\ run.phase = "step" /\ Step \in Acts
  /\ answered => applied /\ world.session = "up"
  /\ applied => world.session = "up"
  /\ world' = IF applied THEN [world EXCEPT !.applied = Append(@, Index)] ELSE world
  /\ run' = IF answered THEN Pass([run EXCEPT !.trace = Append(@, Len(run.trace) + 1)])
            ELSE Fail(run, "request")
  /\ UNCHANGED scenario

DoFixtureFault ==
  /\ run.phase = "step" /\ Step = "fixture_fault"
  /\ run' = Fail(run, "fixture_fault")
  /\ UNCHANGED <<scenario, world>>

\* Every observation is kept, one with errors too, and ends the run.
Observing(Then(_)) ==
  LET kept == [run EXCEPT !.seen = @ \cup {world.errors}] IN
  /\ run' = IF world.session # "up" THEN Fail(run, "request")
            ELSE IF world.errors THEN Fail(kept, "runtime_errors") ELSE Then(kept)
  /\ UNCHANGED <<scenario, world>>

\* lookup: an observation may have nothing at the path.
Look(present) ==
  /\ run.phase = "step" /\ Step \in {"assertion", "wait"}
  /\ Observing(LAMBDA r :
       CASE ~present -> Fail(r, "observation_path")
         [] present /\ world.value -> Pass(r)
         [] present /\ ~world.value /\ Step = "assertion" -> Fail(r, "assertion_failed")
         [] present /\ ~world.value /\ Step = "wait" /\ world.now >= run.until ->
              Fail(r, "observation_timeout")
         [] OTHER -> r)

\* Timeline.sample: beats are of a native clock.
Sampling(Then(_)) ==
  Observing(LAMBDA r : IF scenario.backend = "native" THEN Then(r)
                       ELSE Fail(r, "clock_fidelity"))

Anchor ==
  /\ run.phase = "step" /\ Step = "anchor"
  /\ IF run.anchor # NoAnchor
     THEN run' = Fail(run, "duplicate_anchor") /\ UNCHANGED <<scenario, world>>
     ELSE Sampling(LAMBDA r : Pass(
            [r EXCEPT !.anchor = [beats |-> world.beats, epoch |-> world.epoch],
                      !.timeline = Append(@, [kind |-> "anchor", at |-> world.resets])]))

SameTransportAssumed(r) == TRUE
SameTransport(r)        == world.epoch = r.anchor.epoch

\* Timeline.wait: an at_beat goes on to its action.
WaitBeats ==
  /\ \/ run.phase = "beat"
     \/ run.phase = "step" /\ Step = "wait_beats"
  /\ IF world.now >= run.until
     THEN run' = Fail(run, "beat_timeout") /\ UNCHANGED <<scenario, world>>
     ELSE Sampling(LAMBDA r :
            LET reached == [r EXCEPT !.timeline =
                              Append(@, [kind |-> Step, at |-> world.resets])] IN
            CASE ~SameTransport(r) -> Fail(r, "clock_reset")
              [] SameTransport(r) /\ world.beats < r.anchor.beats + 1 -> r
              [] OTHER -> IF Step = "at_beat" THEN [reached EXCEPT !.phase = "step"]
                          ELSE Pass(reached))

Finish ==
  /\ run.phase = "steps" /\ Position > Len(Steps)
  /\ run' = CASE world.now > RunDeadline -> Fail(run, "scenario_timeout")
              [] world.now <= RunDeadline /\ world.source = "changed" -> Fail(run, "source_changed")
              [] OTHER -> [run EXCEPT !.phase = "stop"]
  /\ UNCHANGED <<scenario, world>>

\* The session is stopped however the run went, if it is still published.
StopSession(stopped) ==
  /\ run.phase = "stop"
  /\ world' = IF run.known /\ stopped THEN [world EXCEPT !.session = "none"] ELSE world
  /\ world.session = "lost" /\ run.known => ~stopped
  /\ run' = [run EXCEPT !.phase = "done",
               !.error = IF run.known /\ ~stopped /\ world.session # "none" /\ @ = "none"
                         THEN "stop" ELSE @]
  /\ UNCHANGED scenario

-----------------------------------------------------------------------------
(* What happens meanwhile. *)

Elapses ==
  /\ world.now <= RunDeadline /\ run.phase # "done"
  /\ world' = [world EXCEPT !.now = @ + 1]
  /\ UNCHANGED <<scenario, run>>

\* A beat passes, or the script starts the transport again.
Beats ==
  /\ world.session = "up"
  /\ \/ world.beats < MaxBeats /\ world' = [world EXCEPT !.beats = @ + 1]
     \/ world.resets = 0 /\ world' = [world EXCEPT !.beats = MaxBeats, !.epoch = @ + 1,
                                                   !.resets = @ + 1]
  /\ UNCHANGED <<scenario, run>>

Changes ==
  /\ \/ world.session = "up" /\ ~world.value /\ world' = [world EXCEPT !.value = TRUE]
     \/ world.session = "up" /\ ~world.errors /\ world' = [world EXCEPT !.errors = TRUE]
     \/ world.session = "up" /\ world' = [world EXCEPT !.session = "lost"]
     \/ world.source = "same"
        /\ world' = [world EXCEPT !.source = IF run.phase \in {"stop", "done"}
                                             THEN "changed later" ELSE "changed"]
  /\ UNCHANGED <<scenario, run>>

RunNext ==
  \/ \E outcome \in {"ready", "named", "unnamed"} : RunStartsSession(outcome)
  \/ BeginStep \/ DoFixtureFault \/ Anchor \/ WaitBeats \/ Finish
  \/ \E present \in BOOLEAN : Look(present)
  \/ \E applied, answered \in BOOLEAN : DoAction(applied, answered)
  \/ \E stopped \in BOOLEAN : StopSession(stopped)
  \/ Elapses \/ Beats \/ Changes

RunSpec == RunInit /\ [][RunNext]_runVars

-----------------------------------------------------------------------------
(* The bundle, and evidence.verify. *)

Manifest ==
  [steps |-> Steps, collected |-> Len(Steps), results |-> run.results,
   passed |-> run.error = "none", stale |-> world.source # "same",
   trace |-> run.trace, seen |-> run.seen,
   timeline |-> [k \in DOMAIN run.timeline |-> run.timeline[k].kind]]

Of(seq, kinds) ==
  FoldLeft(LAMBDA picked, kind : IF kind \in kinds THEN Append(picked, kind) ELSE picked, <<>>, seq)
ResultKinds(m) == [k \in DOMAIN m.results |-> m.results[k].kind]

Complete(m) == m.collected > 0 /\ Len(m.results) = m.collected
Ordered(m) == \A k \in DOMAIN m.results : m.results[k].index = k - 1
Successful(m) == m.passed /\ \A k \in DOMAIN m.results : m.results[k].passed
Observed(m) == m.seen = {FALSE} /\ Of(ResultKinds(m), Looks) # <<>>
Traced(m) ==
  /\ Len(m.trace) = Len(Of(m.steps, Acts))
  /\ \A k \in DOMAIN m.trace : m.trace[k] = k

Paced(m) == m.timeline = Of(m.steps, Paces)

BundleVerified(m) ==
  /\ Complete(m) /\ Ordered(m) /\ Successful(m) /\ Observed(m) /\ ~m.stale
  /\ Len(m.steps) = m.collected /\ ResultKinds(m) = m.steps
  /\ Traced(m) /\ Paced(m)

\* A bundle of a run with one of its parts missing, or two of them swapped.
Without(seq) == {RemoveAt(seq, k) : k \in DOMAIN seq}
Swapped(seq) ==
  {[seq EXCEPT ![k] = seq[k + 1], ![k + 1] = seq[k]] :
     k \in {i \in 1..(Len(seq) - 1) : seq[i] # seq[i + 1]}}

BundleForgeries(m) ==
  {[m EXCEPT !.results = r] : r \in Without(m.results) \cup Swapped(m.results)}
  \cup {[m EXCEPT !.trace = r] : r \in Without(m.trace) \cup Swapped(m.trace)}
  \cup {[m EXCEPT !.timeline = r] : r \in Without(m.timeline) \cup Swapped(m.timeline)}
  \cup {[m EXCEPT !.steps = r] : r \in Without(m.steps) \cup Swapped(m.steps)}
  \cup {[m EXCEPT !.seen = r] : r \in {{}, {TRUE, FALSE}}}

-----------------------------------------------------------------------------
(* A run that passed did each of its steps, and the backend applied its     *)
(* actions in their order; the beats it waited for were of the transport it *)
(* was anchored to, not of one that was started again; the sources were the *)
(* same throughout and its session is stopped.  Whatever happens a run ends *)
(* without a session it could have stopped (runner.run, Timeline.wait).     *)
VerdictIsEarned ==
  run.phase = "done" =>
    /\ run.error = "none" =>
         /\ ResultKinds(Manifest) = Steps
         /\ ToSet(world.applied) = {k - 1 : k \in {i \in DOMAIN Steps : Steps[i] \in Acts}}
         /\ \A j, k \in DOMAIN world.applied : j < k => world.applied[j] < world.applied[k]
         /\ \A j, k \in DOMAIN run.timeline : run.timeline[j].at = run.timeline[k].at
         /\ world.source # "changed" /\ world.session = "none"
    /\ world.session # "none" => run.error # "none"

(* The bundle of a run is evidence exactly when the run passed and its      *)
(* sources have not changed since, and the bundle with anything removed or  *)
(* exchanged is not (evidence.verify).                                      *)
BundleIsEvidence ==
  run.phase = "done" =>
    /\ BundleVerified(Manifest) <=> run.error = "none" /\ world.source = "same"
    /\ BundleVerified(Manifest) => \A m \in BundleForgeries(Manifest) : ~BundleVerified(m)

(* A run's verdict is earned, and its bundle is evidence of it.             *)
PassedRunsAreEvidence == VerdictIsEarned /\ BundleIsEvidence
=============================================================================
