---------------------------- MODULE PartsTogether ----------------------------
(***************************************************************************)
(* What holds of each part alone (PartsProofs, MeasureProofs) holds of it  *)
(* in every run of Parts, where they take their steps in any order: a step *)
(* of Parts is one of a part, and no other part moves.                     *)
(***************************************************************************)
EXTENDS PartsProofs, MeasureProofs

LEMMA EachPartRuns ==
  Spec => /\ ContainerSpec /\ CapturesSpec /\ RecorderSpec /\ MonitorSpec /\ CrowSpec
          /\ TraceSpec /\ RelaySpec /\ OptionsSpec /\ AdmissionSpec
          /\ TreeSpec /\ MetricsSpec /\ RunSpec /\ MidiCaptureSpec
        /\ EnvelopeInit /\ [][FALSE]_machine
<1>1. Init => /\ ContainerInit /\ CapturesInit /\ RecorderInit /\ MonitorInit /\ CrowInit
              /\ TraceInit /\ RelayInit /\ OptionsInit /\ AdmissionInit
              /\ ProcessTreeInit /\ MetricsInit /\ RunInit /\ MidiCaptureInit /\ EnvelopeInit
  BY DEF Init
<1>2. ASSUME [Next]_allVars
      PROVE  /\ [ContainerNext]_containerVars /\ [CapturesNext]_captureVars
             /\ [RecorderNext]_recorderVars /\ [MonitorNext]_monitorVars
             /\ [CrowNext]_crowVars /\ [TraceNext]_traceVars /\ [RelayNext]_relayVars
             /\ [Restart]_optionVars /\ [AdmissionNext]_admissionVars
             /\ [ProcessTreeNext]_treeVars /\ [MetricsNext]_metricsVars /\ [RunNext]_runVars
             /\ [MidiCaptureNext]_midiVars
             /\ UNCHANGED machine
  <2>1. CASE RunsRoot BY <2>1 DEF RunsRoot
  <2>2. CASE RunsCaptures BY <2>2 DEF RunsCaptures
  <2>3. CASE RunsRecorder BY <2>3 DEF RunsRecorder
  <2>4. CASE RunsMonitor BY <2>4 DEF RunsMonitor
  <2>5. CASE RunsCrow BY <2>5 DEF RunsCrow
  <2>6. CASE RunsTrace BY <2>6 DEF RunsTrace
  <2>7. CASE RunsRelay BY <2>7 DEF RunsRelay
  <2>8. CASE RunsMidi BY <2>8 DEF RunsMidi
  <2>9. CASE RunsTree BY <2>9 DEF RunsTree
  <2>10. CASE RunsMetrics BY <2>10 DEF RunsMetrics
  <2>11. CASE RunsOptions BY <2>11 DEF RunsOptions
  <2>12. CASE RunsRunner BY <2>12 DEF RunsRunner
  <2>13. CASE RunsEvidence BY <2>13 DEF RunsEvidence
  <2>14. CASE RunsAdmission BY <2>14 DEF RunsAdmission
  <2>15. CASE RunsClock BY <2>15 DEF RunsClock
  <2>16. CASE UNCHANGED allVars BY <2>16 DEF allVars
  <2>17. QED
    BY <1>2, <2>1, <2>2, <2>3, <2>4, <2>5, <2>6, <2>7, <2>8, <2>9, <2>10, <2>11, <2>12, <2>13,
       <2>14, <2>15, <2>16
    DEF Next
<1>3. QED
  BY <1>1, <1>2, PTL
  DEF Spec, ContainerSpec, CapturesSpec, RecorderSpec, MonitorSpec, CrowSpec, TraceSpec,
      RelaySpec, OptionsSpec, AdmissionSpec, TreeSpec, MetricsSpec, RunSpec, MidiCaptureSpec

(* The Crow host and its server agree, and its trace is read exactly        *)
(* (crow_capture.py, crow_ii.py), in every run of the parts.                *)
THEOREM CrowStaysExact == Spec => []CrowIsExact
<1>1. CrowAgrees /\ TracePagesAreExact => CrowIsExact BY DEF CrowIsExact
<1>2. QED BY <1>1, EachPartRuns, CrowStaysTrue, TracePagesStayExact, PTL

(* An editor's commands arrive whole and its restarts keep its session      *)
(* (maiden.py, /editor/restart), in every run of the parts.                 *)
THEOREM EditorsStayServed == Spec => []EditorsAreServed
<1>1. CommandsAreWhole /\ RestartsKeepTheSession => EditorsAreServed BY DEF EditorsAreServed
<1>2. QED BY <1>1, EachPartRuns, CommandsStayWhole, SessionIsKept, PTL

(* What holds of each part alone holds of it in every run of the parts.     *)
THEOREM PartsStayTrue ==
  Spec => [](/\ DataRootIsKept /\ CapturesAreSettled /\ RecordingIsExact
             /\ ListeningIsExact /\ AdmissionIsEarned)
BY EachPartRuns, DataRootKept, CapturesStaySettled, RecordingStaysExact, ListeningStaysExact,
   AdmissionStaysEarned, PTL

(* The record of a script's MIDI output has every message once and in order,*)
(* (devices/midi), in every run of the parts.                               *)
THEOREM OutputStaysExact == Spec => []CaptureIsExact
BY EachPartRuns, CaptureStaysExact, PTL

(* A passed run and an admitted build rest on evidence (runner.py,          *)
(* evidence.py, clock_admission.py), in every run of the parts.             *)
THEOREM EvidenceStaysEarned == Spec => []EvidenceIsEarned
<1>1. PassedRunsAreEvidence /\ AdmissionIsEarned => EvidenceIsEarned BY DEF EvidenceIsEarned
<1>2. QED BY <1>1, EachPartRuns, PassedRunsStayEvidence, AdmissionStaysEarned, PTL

(* A performance report measures what it says (performance.py,              *)
(* performance_clock.py, scheduling_metrics.py, resource_envelope.py), in   *)
(* every run of the parts.                                                  *)
THEOREM MeasurementsStayExact == Spec => []MeasurementsAreExact
<1>1. TreeCounterIsExact /\ PassedRunsKeepTime /\ WindowsAreEnclosed /\ GrowthAndRecoveryAreSeen
      /\ LaneIsBounded => MeasurementsAreExact
  BY DEF MeasurementsAreExact
<1>2. EnvelopeInit /\ [FALSE]_machine => EnvelopeInit' BY DEF EnvelopeInit
<1>3. QED
  BY <1>1, <1>2, EachPartRuns, TreeCounterStaysExact, ReportStaysExact, LaneStaysBounded, PTL
==============================================================================
