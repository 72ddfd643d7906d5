--------------------------- MODULE AudioCaptures ---------------------------
(***************************************************************************)
(* The audio capture jobs of a session (runtime/audio_capture.py and       *)
(* Application.capture_request): the native helper of a job, the thread    *)
(* that waits for it, the request that starts or cancels under app.lock,   *)
(* and the closing of the session, which is the /stop request under that   *)
(* lock or, after SIGTERM, the main thread without it.                     *)
(***************************************************************************)
EXTENDS Naturals, Sequences

CONSTANT MaxCaptures   \* at most eight jobs per session

ASSUME CapturesAssumption == MaxCaptures \in Nat

VARIABLES jobs,      \* the jobs in the order of their directories
          request,   \* the request that holds app.lock
          closing    \* the close of the session

captureVars == <<jobs, request, closing>>

Jobs == DOMAIN jobs
Terminal == {"complete", "cancelled", "failed"}
NoRequest == [op |-> "none", job |-> 0]

CapturesInit ==
  /\ jobs = <<>>
  /\ request = NoRequest
  /\ closing = [by |-> "nobody", left |-> {}, step |-> "none"]

Fresh == [status |-> "starting", helper |-> "running", thread |-> "none",
          registered |-> FALSE, file |-> "none"]
Registered == {i \in Jobs : jobs[i].registered}
Closed == closing.by # "nobody"
Busy == \E i \in Registered : jobs[i].status = "capturing"

Become(i, change) == jobs' = [jobs EXCEPT ![i] = change]

-----------------------------------------------------------------------------
(* /audio/capture/start: the whole of it happens under app.lock. *)

LaunchHelper ==
  /\ request = NoRequest /\ ~Closed
  /\ ~Busy /\ Len(jobs) < MaxCaptures
  /\ jobs' = Append(jobs, Fresh)
  /\ request' = [op |-> "start", job |-> Len(jobs) + 1]
  /\ UNCHANGED closing

\* The helper says that it captures: the job has a thread from now on.
HelperReady ==
  LET i == request.job IN
  /\ request.op = "start" /\ jobs[i].status = "starting"
  /\ jobs[i].helper # "failed"
  /\ Become(i, [jobs[i] EXCEPT !.status = "capturing", !.thread = "waits"])
  /\ UNCHANGED <<request, closing>>

RegisterJob ==
  LET i == request.job IN
  /\ request.op = "start" /\ jobs[i].status # "starting"
  /\ Become(i, [jobs[i] EXCEPT !.registered = TRUE])
  /\ request' = NoRequest
  /\ UNCHANGED closing

\* Not ready in three seconds, or dead, or not what it should be: the job is
\* cancelled without a thread, which leaves nobody else to write its result.
StartFails ==
  LET i == request.job IN
  /\ request.op = "start" /\ jobs[i].status = "starting"
  /\ Become(i, [jobs[i] EXCEPT !.status = "cancelled", !.helper = "dead",
                               !.file = "cancelled"])
  /\ request' = NoRequest
  /\ UNCHANGED closing

-----------------------------------------------------------------------------
(* The helper and the thread that waits for it (finish). *)

HelperEnds(i) ==
  /\ jobs[i].helper = "running"
  /\ \E end \in {"finished", "failed"} :
       Become(i, [jobs[i] EXCEPT !.helper = end])
  /\ UNCHANGED <<request, closing>>

\* communicate returns with a valid record, or it raises, also when the helper
\* took eight seconds too long, and the thread kills what is left of it.
Collect(i) ==
  /\ jobs[i].thread = "waits"
  /\ \/ /\ jobs[i].helper = "finished"
        /\ Become(i, [jobs[i] EXCEPT !.thread = "finished"])
     \/ Become(i, [jobs[i] EXCEPT !.thread = "failed", !.helper =
                     IF @ = "running" THEN "dead" ELSE @])
  /\ UNCHANGED <<request, closing>>

MarkedFailed(status) == IF status \in {"cancelled", "failed"} THEN status ELSE "failed"

Conclude(i) ==
  /\ jobs[i].thread \in {"finished", "failed"}
  /\ Become(i, [jobs[i] EXCEPT
       !.thread = "writes",
       !.status = IF jobs[i].thread = "failed" THEN MarkedFailed(@)
                  ELSE IF @ = "capturing" THEN "complete" ELSE @])
  /\ UNCHANGED <<request, closing>>

WriteResult(i) ==
  /\ jobs[i].thread = "writes"
  /\ Become(i, [jobs[i] EXCEPT !.thread = "ended", !.file = jobs[i].status])
  /\ UNCHANGED <<request, closing>>

-----------------------------------------------------------------------------
(* cancel: mark the job, end its helper, join its thread. *)

MarkedAlways(status) == "cancelled"

Marked(status) == IF status \in {"starting", "capturing"} THEN "cancelled" ELSE status

Killed(helper) == IF helper = "running" THEN "dead" ELSE helper

\* The thread is joined for three seconds only.
Joinable(i) == jobs[i].thread \in {"none", "writes", "ended"}

RequestCancel(i) ==
  /\ request = NoRequest /\ ~Closed /\ i \in Registered
  /\ Become(i, [jobs[i] EXCEPT !.status = Marked(@)])
  /\ request' = [op |-> "cancel", job |-> i]
  /\ UNCHANGED closing

KillForRequest ==
  /\ request.op = "cancel"
  /\ Become(request.job, [jobs[request.job] EXCEPT !.helper = Killed(@)])
  /\ request' = [request EXCEPT !.op = "join"]
  /\ UNCHANGED closing

JoinForRequest ==
  /\ request.op = "join" /\ Joinable(request.job)
  /\ request' = NoRequest
  /\ UNCHANGED <<jobs, closing>>

-----------------------------------------------------------------------------
(* Application.close: its closers are listed once, then each runs, in the  *)
(* order of their jobs.                                                    *)

Close(by) ==
  /\ ~Closed
  /\ by = "stop" => request = NoRequest
  /\ closing' = [by |-> by, left |-> Registered, step |-> "mark"]
  /\ request' = IF by = "stop" THEN [op |-> "stop", job |-> 0] ELSE request
  /\ UNCHANGED jobs

NextCloser(i) == i \in closing.left /\ \A j \in closing.left : i <= j

CloseNext(i) ==
  /\ NextCloser(i)
  /\ \/ /\ closing.step = "mark"
        /\ Become(i, [jobs[i] EXCEPT !.status = Marked(@)])
        /\ closing' = [closing EXCEPT !.step = "kill"]
     \/ /\ closing.step = "kill"
        /\ Become(i, [jobs[i] EXCEPT !.helper = Killed(@)])
        /\ closing' = [closing EXCEPT !.step = "join"]
     \/ /\ closing.step = "join" /\ Joinable(i)
        /\ closing' = [closing EXCEPT !.step = "mark", !.left = @ \ {i}]
        /\ UNCHANGED jobs
  /\ UNCHANGED request

CapturesNext ==
  \/ LaunchHelper \/ HelperReady \/ RegisterJob \/ StartFails
  \/ \E i \in Jobs : \/ HelperEnds(i) \/ Collect(i) \/ Conclude(i) \/ WriteResult(i)
                     \/ RequestCancel(i) \/ CloseNext(i)
  \/ KillForRequest \/ JoinForRequest
  \/ \E by \in {"stop", "signal"} : Close(by)

CapturesSpec == CapturesInit /\ [][CapturesNext]_captureVars

-----------------------------------------------------------------------------
(* Properties. *)

(* A job that finishes while it is cancelled ends one way: once result.json *)
(* is written the status is that of the file and stays it, whoever won      *)
(* (audio_capture.py finish and cancel, which race under the job's lock).   *)
ResultIsFinal ==
  \A i \in Jobs : jobs[i].file # "none" =>
    jobs[i].file = jobs[i].status /\ jobs[i].status \in Terminal

(* One helper records at a time while the session is open, also in the      *)
(* moment after a cancellation; when a close has run its closers no helper  *)
(* is left of a job that was registered when it began (audio-api.md:49).    *)
CapturesAreOwned ==
  LET running == {i \in Jobs : jobs[i].helper = "running"} IN
  /\ ~Closed => \A i, j \in running : i = j
  /\ closing.by = "stop" /\ closing.left = {} => running = {}

(* Both, whoever cancels, finishes or closes at the same time.              *)
CapturesAreSettled == ResultIsFinal /\ CapturesAreOwned
=============================================================================
