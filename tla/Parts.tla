-------------------------------- MODULE Parts --------------------------------
(***************************************************************************)
(* The parts around a session's input, each a state machine that shares    *)
(* nothing with the others: the initial state chooses which of them runs,  *)
(* so that one run of TLC explores the sum of their state spaces, not the  *)
(* product.                                                                *)
(***************************************************************************)
EXTENDS ContainerRoot, AudioCaptures, Recorder, AudioMonitor, CrowCaptures, CrowTrace,
        MaidenRelay, MidiCapture, ProcessTree, RunMetrics, ResourceEnvelope, StartOptions,
        ScenarioRun, NativeEvidence, Admission, ControlledClock

VARIABLE part   \* the part that runs

allVars == <<part, containerVars, captureVars, recorderVars, monitorVars,
             crowVars, traceVars, relayVars, midiVars,
             treeVars, metricsVars, machine, optionVars,
             runVars, evidenceVars, admissionVars, clockVars>>

\* A part that does not run has one initial state.
Init ==
  /\ part \in {"root", "captures", "recorder", "monitor", "crow",
              "trace", "relay", "midi", "tree", "metrics",
              "envelope", "options", "runner", "evidence",
              "admission", "clock"}
  /\ part = "runner" \/ scenario = CHOOSE s \in Scenarios : Runnable(s)
  /\ part = "options" \/ config = {}
  /\ part = "envelope" \/ machine = CHOOSE m \in Hosts : TRUE
  /\ part = "clock" \/ script = CHOOSE s \in Scripts : TRUE
  /\ ContainerInit /\ CapturesInit /\ RecorderInit /\ MonitorInit /\ CrowInit /\ TraceInit
  /\ RelayInit /\ MidiCaptureInit /\ ProcessTreeInit /\ MetricsInit /\ EnvelopeInit
  /\ OptionsInit /\ RunInit /\ EvidenceInit /\ AdmissionInit /\ ClockInit

RunsRoot ==
  /\ part = "root" /\ ContainerNext
  /\ UNCHANGED <<captureVars, recorderVars, monitorVars, crowVars,
                 traceVars, relayVars, midiVars,
                 treeVars, metricsVars, machine,
                 optionVars, runVars, evidenceVars,
                 admissionVars, clockVars>>

RunsCaptures ==
  /\ part = "captures" /\ CapturesNext
  /\ UNCHANGED <<containerVars, recorderVars, monitorVars, crowVars,
                 traceVars, relayVars, midiVars,
                 treeVars, metricsVars, machine,
                 optionVars, runVars, evidenceVars,
                 admissionVars, clockVars>>

RunsRecorder ==
  /\ part = "recorder" /\ RecorderNext
  /\ UNCHANGED <<containerVars, captureVars, monitorVars, crowVars,
                 traceVars, relayVars, midiVars,
                 treeVars, metricsVars, machine,
                 optionVars, runVars, evidenceVars,
                 admissionVars, clockVars>>

RunsMonitor ==
  /\ part = "monitor" /\ MonitorNext
  /\ UNCHANGED <<containerVars, captureVars, recorderVars, crowVars,
                 traceVars, relayVars, midiVars,
                 treeVars, metricsVars, machine,
                 optionVars, runVars, evidenceVars,
                 admissionVars, clockVars>>

RunsCrow ==
  /\ part = "crow" /\ CrowNext
  /\ UNCHANGED <<containerVars, captureVars, recorderVars, monitorVars,
                 traceVars, relayVars, midiVars,
                 treeVars, metricsVars, machine,
                 optionVars, runVars, evidenceVars,
                 admissionVars, clockVars>>

RunsTrace ==
  /\ part = "trace" /\ TraceNext
  /\ UNCHANGED <<containerVars, captureVars, recorderVars, monitorVars,
                 crowVars, relayVars, midiVars,
                 treeVars, metricsVars, machine,
                 optionVars, runVars, evidenceVars,
                 admissionVars, clockVars>>

RunsRelay ==
  /\ part = "relay" /\ RelayNext
  /\ UNCHANGED <<containerVars, captureVars, recorderVars, monitorVars,
                 crowVars, traceVars, midiVars,
                 treeVars, metricsVars, machine,
                 optionVars, runVars, evidenceVars,
                 admissionVars, clockVars>>

RunsMidi ==
  /\ part = "midi" /\ MidiCaptureNext
  /\ UNCHANGED <<containerVars, captureVars, recorderVars, monitorVars,
                 crowVars, traceVars, relayVars,
                 treeVars, metricsVars, machine,
                 optionVars, runVars, evidenceVars,
                 admissionVars, clockVars>>

RunsTree ==
  /\ part = "tree" /\ ProcessTreeNext
  /\ UNCHANGED <<containerVars, captureVars, recorderVars, monitorVars,
                 crowVars, traceVars, relayVars,
                 midiVars, metricsVars, machine,
                 optionVars, runVars, evidenceVars,
                 admissionVars, clockVars>>

RunsMetrics ==
  /\ part = "metrics" /\ MetricsNext
  /\ UNCHANGED <<containerVars, captureVars, recorderVars, monitorVars,
                 crowVars, traceVars, relayVars,
                 midiVars, treeVars, machine,
                 optionVars, runVars, evidenceVars,
                 admissionVars, clockVars>>

RunsOptions ==
  /\ part = "options" /\ Restart
  /\ UNCHANGED <<containerVars, captureVars, recorderVars, monitorVars,
                 crowVars, traceVars, relayVars,
                 midiVars, treeVars, metricsVars,
                 machine, runVars, evidenceVars,
                 admissionVars, clockVars>>

RunsRunner ==
  /\ part = "runner" /\ RunNext
  /\ UNCHANGED <<containerVars, captureVars, recorderVars, monitorVars,
                 crowVars, traceVars, relayVars,
                 midiVars, treeVars, metricsVars,
                 machine, optionVars, evidenceVars,
                 admissionVars, clockVars>>

RunsEvidence ==
  /\ part = "evidence" /\ EvidenceNext
  /\ UNCHANGED <<containerVars, captureVars, recorderVars, monitorVars,
                 crowVars, traceVars, relayVars,
                 midiVars, treeVars, metricsVars,
                 machine, optionVars, runVars,
                 admissionVars, clockVars>>

RunsAdmission ==
  /\ part = "admission" /\ AdmissionNext
  /\ UNCHANGED <<containerVars, captureVars, recorderVars, monitorVars,
                 crowVars, traceVars, relayVars,
                 midiVars, treeVars, metricsVars,
                 machine, optionVars, runVars,
                 evidenceVars, clockVars>>

RunsClock ==
  /\ part = "clock" /\ ClockNext
  /\ UNCHANGED <<containerVars, captureVars, recorderVars, monitorVars,
                 crowVars, traceVars, relayVars,
                 midiVars, treeVars, metricsVars,
                 machine, optionVars, runVars,
                 evidenceVars, admissionVars>>

Next ==
  /\ UNCHANGED part
  /\ \/ RunsRoot \/ RunsCaptures \/ RunsRecorder \/ RunsMonitor \/ RunsCrow
     \/ RunsTrace \/ RunsRelay \/ RunsMidi \/ RunsTree \/ RunsMetrics
     \/ RunsOptions \/ RunsRunner \/ RunsEvidence \/ RunsAdmission \/ RunsClock

Spec == Init /\ [][Next]_allVars

-----------------------------------------------------------------------------
(* Properties of two or more parts. *)

(* The Crow host and the server agree on captures and inputs, and a client  *)
(* gets every record of its ii trace once (crow_capture.py, crow_ii.py).    *)
CrowIsExact == CrowAgrees /\ TracePagesAreExact

(* The editor's commands reach an interpreter whole, and its restarts keep  *)
(* its dataset and options (maiden.py, /editor/restart).                    *)
EditorsAreServed == CommandsAreWhole /\ RestartsKeepTheSession

(* A passed run and an admitted build both rest on evidence that was not    *)
(* assumed (evidence.py, clock_admission.py).                               *)
EvidenceIsEarned == PassedRunsAreEvidence /\ AdmissionIsEarned

(* A performance report rests on a CPU counter that counts each process     *)
(* once, on a plan without drift and percentiles of it, on samples that     *)
(* enclose its window and show its growth, and on limits that bound the     *)
(* lane (performance.py).                                                   *)
MeasurementsAreExact ==
  TreeCounterIsExact /\ PassedRunsKeepTime /\ WindowsAreEnclosed
  /\ GrowthAndRecoveryAreSeen /\ LaneIsBounded
==============================================================================
