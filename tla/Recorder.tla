------------------------------ MODULE Recorder ------------------------------
(***************************************************************************)
(* The performance recorder of a session (automation/performance.py,       *)
(* PerformanceRecorder, and the /performance endpoints of the server): a   *)
(* thread that samples until a limit, a deadline, a failure or a stop, the *)
(* requests that start, stop and read it one at a time under the server's  *)
(* performance_lock, also after the session has closed, and the close of   *)
(* the session, which stops the recorder it has when it begins.            *)
(***************************************************************************)
EXTENDS Naturals, Sequences

CONSTANTS MaximumSamples, PageLimit

ASSUME RecorderAssumption == MaximumSamples \in Nat \ {0} /\ PageLimit \in Nat \ {0}

VARIABLES recorder,   \* state, samples and the stopping event
          sampling,   \* where the thread is
          stoppers,   \* caller -> where its stop() is, and what stop() returned
          reader      \* the client's rows, cursor, and the last reply

recorderVars == <<recorder, sampling, stoppers, reader>>
Callers == {"request", "close"}

Recorded == recorder.state # "none"

\* performance_lock is held through a stop, while it joins the thread.
LockFree == stoppers["request"].at \notin {"marked", "joins"}

Status == [state |-> recorder.state, count |-> Len(recorder.samples)]

RecorderInit ==
  /\ recorder = [state |-> "none", samples |-> <<>>, stopping |-> FALSE]
  /\ sampling = "none"
  /\ stoppers = [c \in Callers |-> [at |-> IF c = "close" THEN "open" ELSE "idle",
                                   returned |-> Status]]
  /\ reader = [rows |-> <<>>, cursor |-> 0, more |-> TRUE, state |-> "running"]

\* A session has one recording.  The constructor takes the first sample, or
\* raises and there is no recorder; a closed session is not refused one.
StartRecording ==
  /\ LockFree /\ ~Recorded
  /\ recorder' = [state |-> "running", samples |-> <<1>>, stopping |-> FALSE]
  /\ sampling' = "waits"
  /\ UNCHANGED <<stoppers, reader>>

\* Application.close lists what it will stop, the recorder last, and begins.
CloseLists ==
  /\ stoppers["close"].at = "open"
  /\ stoppers' = [stoppers EXCEPT !["close"].at = IF Recorded THEN "idle" ELSE "nothing"]
  /\ UNCHANGED <<recorder, sampling, reader>>

Ends(state) == recorder' = [recorder EXCEPT !.state = state]

-----------------------------------------------------------------------------
(* The thread: _run, and record_once in its two halves. *)

Tick ==
  /\ sampling = "waits"
  /\ IF recorder.stopping \/ recorder.state # "running"
     THEN sampling' = "ended" /\ UNCHANGED recorder
     ELSE \/ sampling' = "records" /\ UNCHANGED recorder
          \/ sampling' = "ended" /\ Ends("complete")     \* the deadline
  /\ UNCHANGED <<stoppers, reader>>

HasRoom == Len(recorder.samples) < MaximumSamples

RecordOnce ==
  /\ sampling = "records"
  /\ IF recorder.state # "running"
     THEN sampling' = "waits" /\ UNCHANGED recorder
     ELSE IF HasRoom
     THEN sampling' = "samples" /\ UNCHANGED recorder
     ELSE /\ sampling' = "waits"
          /\ recorder' = [recorder EXCEPT !.state = "complete", !.stopping = TRUE]
  /\ UNCHANGED <<stoppers, reader>>

\* The sampler reads the control group without the lock.
SampleTaken ==
  /\ sampling = "samples"
  /\ sampling' = "waits"
  /\ recorder' = IF recorder.state # "running" THEN recorder
                 ELSE [recorder EXCEPT !.samples = Append(@, Len(@) + 1)]
  /\ UNCHANGED <<stoppers, reader>>

\* A failure is recorded whatever the state has become meanwhile.
SampleFails ==
  /\ sampling = "samples"
  /\ sampling' = "waits"
  /\ recorder' = [recorder EXCEPT !.state = "failed", !.stopping = TRUE]
  /\ UNCHANGED <<stoppers, reader>>

-----------------------------------------------------------------------------
(* stop(): mark under the lock, raise the event, join the thread. *)

StopMarks(c) ==
  /\ stoppers[c].at = "idle" /\ Recorded
  /\ recorder' = [recorder EXCEPT !.state = IF @ = "running" THEN "stopped" ELSE @]
  /\ stoppers' = [stoppers EXCEPT ![c].at = "marked"]
  /\ UNCHANGED <<sampling, reader>>

StopSignals(c) ==
  /\ stoppers[c].at = "marked"
  /\ recorder' = [recorder EXCEPT !.stopping = TRUE]
  /\ stoppers' = [stoppers EXCEPT ![c].at = "joins"]
  /\ UNCHANGED <<sampling, reader>>

StopReturnsUnjoined(c) ==
  /\ stoppers[c].at = "joins"
  /\ stoppers' = [stoppers EXCEPT ![c] = [at |-> "returned", returned |-> Status]]
  /\ UNCHANGED <<recorder, sampling, reader>>

\* The thread has ended, or after two seconds has not and stop() raises.
StopReturns(c) ==
  /\ stoppers[c].at = "joins"
  /\ stoppers' = [stoppers EXCEPT ![c] =
       [at |-> IF sampling = "ended" THEN "returned" ELSE "raised", returned |-> Status]]
  /\ UNCHANGED <<recorder, sampling, reader>>

-----------------------------------------------------------------------------
Least(m, n) == IF m < n THEN m ELSE n
NextCursor(from, rows) == from + Len(rows)

\* The client asks for what follows the cursor of the page before.
Read ==
  /\ LockFree /\ Recorded
  /\ reader.more \/ reader.state = "running"
  /\ LET from == reader.cursor
         rows == SubSeq(recorder.samples, from + 1,
                        Least(from + PageLimit, Len(recorder.samples)))
         cursor == NextCursor(from, rows)
     IN reader' = [rows |-> reader.rows \o rows, cursor |-> cursor,
                 more |-> cursor < Len(recorder.samples), state |-> recorder.state]
  /\ UNCHANGED <<recorder, sampling, stoppers>>

RecorderNext ==
  \/ StartRecording \/ CloseLists
  \/ Tick \/ RecordOnce \/ SampleTaken \/ SampleFails
  \/ \E c \in Callers : StopMarks(c) \/ StopSignals(c) \/ StopReturns(c)
  \/ Read

RecorderSpec == RecorderInit /\ [][RecorderNext]_recorderVars

-----------------------------------------------------------------------------
(* Properties. *)

(* What a stop() that returned said is final: no sample comes after it and  *)
(* no failure of a sample under way replaces the state (stop joins the      *)
(* thread, record_once writes failed over stopped), nor does a recording    *)
(* that a request starts when the session has closed.                       *)
StopIsFinal ==
  \A c \in Callers : stoppers[c].at = "returned" => stoppers[c].returned = Status

(* A client that follows cursor, has_more and status gets every sample once *)
(* and in order, and never more than the bound, while samples are added and *)
(* the storage fills; when it is told that there are no more it has them.   *)
PagesAreExact ==
  /\ Len(recorder.samples) <= MaximumSamples
  /\ reader.rows = SubSeq(recorder.samples, 1, reader.cursor)
  /\ ~reader.more /\ reader.state # "running" => reader.cursor = Len(recorder.samples)

(* What a stopped recorder reports is what its reader has paged through.    *)
RecordingIsExact == StopIsFinal /\ PagesAreExact
=============================================================================
