------------------------------ MODULE Admission ------------------------------
(***************************************************************************)
(* The evidence that controlled clocks are to be admitted on: a probe      *)
(* repeated in three fresh processes (repeat_controlled_probe.py), a       *)
(* native check, the comparison of an application with and without         *)
(* controlled time, and a review, all collected while the sources and the  *)
(* installations may change; and the verifiers of it                       *)
(* (controlled_evidence.verify_repeat, clock_admission.verify_m5).         *)
(* Contents are version numbers, and files that are referred to by their   *)
(* hash change with them.                                                  *)
(***************************************************************************)
EXTENDS Naturals, Sequences, FiniteSets, SequencesExt

CONSTANTS Outputs,      \* what a probe or an application may be seen to do
          MaxChanges    \* changes of the sources or an installation

ASSUME AdmissionAssumption == MaxChanges \in Nat

VARIABLES tree,     \* the sources and both installations, as they are now
          repeat,   \* the controlled-repeat record
          index     \* the rest of the controlled-admission index

admissionVars == <<tree, repeat, index>>

Missing == [passed |-> FALSE]
Runtimes == {"candidate", "default"}

\* What a check of one installation is a check of.
Checked(state, runtime) == [source |-> state.source, installed |-> state[runtime]]

AdmissionInit ==
  /\ tree = [source |-> 1, candidate |-> 1, default |-> 1]
  /\ repeat = [step |-> "idle", began |-> tree, runs |-> <<>>, passed |-> FALSE]
  /\ index = [check |-> [runtime \in Runtimes |-> Missing], application |-> Missing,
              review |-> Missing]

ChangesMade == (tree.source - 1) + (tree.candidate - 1) + (tree.default - 1)

Change(what) ==
  /\ ChangesMade < MaxChanges
  /\ tree' = [tree EXCEPT ![what] = @ + 1]
  /\ UNCHANGED <<repeat, index>>

-----------------------------------------------------------------------------
(* repeat_controlled_probe.main. *)

BeginRepeat ==
  /\ repeat.step = "idle"
  /\ repeat' = [repeat EXCEPT !.step = "running", !.began = tree]
  /\ UNCHANGED <<tree, index>>

\* A native session of the probe: whether its oracle passed, how its services
\* exited, and what was observed of it.
Outcomes ==
  [oracle : {TRUE}, services : {"clean"}, sclang : {"clean", "odd"}, output : Outputs]
  \cup [oracle : BOOLEAN, services : {"clean", "failed"}, sclang : {"clean"},
        output : {CHOOSE o \in Outputs : TRUE}]

Acceptable(outcome) ==
  /\ outcome.oracle /\ outcome.services = "clean"
  /\ tree.source = repeat.began.source /\ tree.candidate = repeat.began.candidate

Probe(outcome) ==
  /\ repeat.step = "running" /\ Len(repeat.runs) < 3
  /\ repeat' = IF Acceptable(outcome)
               THEN [repeat EXCEPT !.runs = Append(@,
                      [session |-> Len(repeat.runs) + 1, source |-> tree.source,
                       candidate |-> tree.candidate, outcome |-> outcome])]
               ELSE [repeat EXCEPT !.step = "written"]
  /\ UNCHANGED <<tree, index>>

Agree(runs) == \A i, j \in DOMAIN runs : runs[i].outcome.output = runs[j].outcome.output

ConcludeRepeat ==
  /\ repeat.step = "running" /\ Len(repeat.runs) = 3
  /\ repeat' = [repeat EXCEPT !.step = "written",
                              !.passed = Agree(repeat.runs) /\ tree = repeat.began]
  /\ UNCHANGED <<tree, index>>

-----------------------------------------------------------------------------
(* The rest of the index, each item of the tree as it is when collected.    *)

\* The real-time clock suite is collected with either installation.
CollectCheck(runtime, passed) ==
  /\ repeat.step = "written" /\ index.check[runtime] = Missing
  /\ index' = [index EXCEPT !.check[runtime] = [passed |-> passed, of |-> Checked(tree, runtime)]]
  /\ UNCHANGED <<tree, repeat>>

\* One run in real time, and what its three controlled runs were seen to do.
CollectApplication(real, controlled) ==
  /\ repeat.step = "written" /\ index.application = Missing
  /\ index' = [index EXCEPT !.application =
                 [passed |-> TRUE, of |-> tree, real |-> real, controlled |-> controlled]]
  /\ UNCHANGED <<tree, repeat>>

Review(resolved) ==
  /\ repeat.step = "written" /\ index.review = Missing
  /\ index' = [index EXCEPT !.review = [passed |-> resolved, of |-> tree]]
  /\ UNCHANGED <<tree, repeat>>

AdmissionNext ==
  \/ \E what \in {"source", "candidate", "default"} : Change(what)
  \/ BeginRepeat \/ ConcludeRepeat
  \/ \E outcome \in Outcomes : Probe(outcome)
  \/ \E passed \in BOOLEAN :
       Review(passed) \/ \E runtime \in Runtimes : CollectCheck(runtime, passed)
  \/ \E real \in Outputs, controlled \in SUBSET Outputs \ {{}} : CollectApplication(real, controlled)

AdmissionSpec == AdmissionInit /\ [][AdmissionNext]_admissionVars

-----------------------------------------------------------------------------
(* The verifiers, now. *)

\* A run of a repeat: its oracle, identities and the exits of its services.
RunVerified(r, run) ==
  /\ run.outcome.oracle /\ run.outcome.services = "clean" /\ run.outcome.sclang = "clean"
  /\ run.source = r.began.source /\ run.candidate = r.began.candidate

FreshSessions(runs) ==
  Len(runs) = 3 /\ \A i, j \in DOMAIN runs : i # j => runs[i].session # runs[j].session

\* verify_repeat: the descriptor retained is that of the candidate at its start.
RepeatVerified(r) ==
  /\ r.passed /\ FreshSessions(r.runs) /\ Agree(r.runs)
  /\ \A k \in DOMAIN r.runs : RunVerified(r, r.runs[k])
  /\ r.began = tree

\* generic_check, of the installation that it names; application_comparison with its external_case; the review.
CheckVerified(runtime, check) == check.passed /\ check.of = Checked(tree, runtime)
ApplicationVerified(application) ==
  /\ application.passed /\ application.of = tree
  /\ application.controlled = {application.real}
ReviewVerified(review) ==
  review.passed /\ review.of.source = tree.source /\ review.of.candidate = tree.candidate

\* verify_m5.
Admitted(r) ==
  /\ RepeatVerified(r) /\ \A runtime \in Runtimes : CheckVerified(runtime, index.check[runtime])
  /\ ApplicationVerified(index.application) /\ ReviewVerified(index.review)

-----------------------------------------------------------------------------
(* Whatever changes while evidence is collected, what is admitted was all   *)
(* seen of the sources and installations as they are now, and the probe     *)
(* three times in three sessions and each time alike; a repeat that passed  *)
(* stays verified while nothing changes, unless the audio language server   *)
(* of a run exited oddly, which the collector lets pass; and one of its     *)
(* runs listed again in place of another is refused                         *)
(* (verify_repeat, verify_m5).                                              *)
AdmissionIsEarned ==
  LET odd == \E k \in DOMAIN repeat.runs : repeat.runs[k].outcome.sclang = "odd"
      again == {[repeat EXCEPT !.runs[k] = repeat.runs[j]] :
                  j, k \in {i \in DOMAIN repeat.runs : repeat.step = "written"}} \ {repeat}
  IN /\ repeat.step = "written" =>
          (RepeatVerified(repeat) <=> repeat.passed /\ ~odd /\ repeat.began = tree)
     /\ \A r \in again : ~RepeatVerified(r)
     /\ Admitted(repeat) =>
          /\ \A runtime \in Runtimes : index.check[runtime].of = Checked(repeat.began, runtime)
          /\ index.application.of = repeat.began
          /\ index.review.of.source = repeat.began.source
          /\ Cardinality({repeat.runs[k].outcome.output : k \in 1..3}) = 1
=============================================================================
