---------------------------- MODULE CrowCaptures ----------------------------
(***************************************************************************)
(* CV captures and voltage injection over the control socket of the Crow   *)
(* host: the server's CrowCapture (runtime/crow_capture.py), whose calls   *)
(* app.lock serialises, and the host's loop (devices/crow_host/capture.h   *)
(* and main.c), which completes a capture by itself at any time and writes *)
(* its file first.  A host that stalls for a second finishes the iteration *)
(* it is in and then ends.                                                 *)
(***************************************************************************)
EXTENDS Naturals, Sequences

CONSTANTS MaxJobs, MaxInputs,
          MaxUnanswered   \* commands a stalled host is sent

ASSUME CrowAssumption == MaxJobs \in Nat /\ MaxInputs \in Nat /\ MaxUnanswered \in Nat

VARIABLES job,      \* the server's jobs: their status, and which is active
          call,     \* the call under app.lock and what it waits for
          commands, \* server to host
          replies,  \* host to server
          host      \* the capture in its buffer, the last identity, the files

crowVars == <<job, call, commands, replies, host>>

Idle == [op |-> "none", job |-> 0, replies |-> 0]

CrowInit ==
  /\ job = [status |-> <<>>, active |-> 0, inputs |-> 0]
  /\ call = Idle
  /\ commands = <<>> /\ replies = <<>>
  /\ host = [at |-> "poll", buffer |-> 0, id |-> 0, files |-> {}, stalled |-> FALSE,
             ended |-> FALSE, refused |-> FALSE]

-----------------------------------------------------------------------------
(* The server. *)

Became(event) ==
  CASE event = "started" -> "capturing"
    [] event \in {"complete", "cancel_complete"} -> "complete"
    [] event = "cancelled" -> "cancelled"

\* receive: one reply is taken and the job it names is updated.
After(r) ==
  IF r.event = "input" THEN job
  ELSE [job EXCEPT !.status[r.id] = Became(r.event),
                   !.active = IF r.event = "started" THEN @ ELSE 0]
Take == job' = After(Head(replies)) /\ replies' = Tail(replies)

\* check_processes passed: the host runs.  status() drains and returns.
Begin(op, i) ==
  /\ call = Idle /\ ~host.ended /\ Len(commands) < MaxUnanswered
  /\ \/ op = "start" /\ i = Len(job.status) + 1 /\ i <= MaxJobs
     \/ op \in {"status", "cancel"} /\ i \in DOMAIN job.status
     \/ op = "inject" /\ i = 0 /\ job.inputs < MaxInputs
  /\ call' = [op |-> op, job |-> i, replies |-> 0]
  /\ UNCHANGED <<job, commands, replies, host>>

Drain ==
  /\ call.op # "none" /\ call.replies = 0 /\ replies # <<>>
  /\ Take
  /\ UNCHANGED <<call, commands, host>>

Returns == call' = Idle

Sends(command) ==
  /\ commands' = Append(commands, command)
  /\ call' = [call EXCEPT !.replies = 1]

\* After the drain each call decides from the jobs it knows.
SendOrReturn ==
  /\ call.op # "none" /\ call.replies = 0 /\ replies = <<>>
  /\ \/ /\ call.op = "start" /\ job.active = 0
        /\ Sends([op |-> "start", id |-> call.job])
        /\ job' = [job EXCEPT !.status = Append(@, "starting"), !.active = call.job]
     \/ /\ call.op = "cancel" /\ job.status[call.job] = "capturing"
        /\ Sends([op |-> "cancel", id |-> call.job])
        /\ UNCHANGED job
     \/ /\ call.op = "inject"
        /\ Sends([op |-> "input", id |-> 0])
        /\ job' = [job EXCEPT !.inputs = @ + 1]
     \/ /\ \/ call.op = "start" /\ job.active # 0
           \/ call.op = "cancel" /\ job.status[call.job] # "capturing"
           \/ call.op = "status"
        /\ Returns /\ UNCHANGED <<job, commands>>
  /\ UNCHANGED <<replies, host>>

CancelReadsOnce(r) == call.op = "inject" /\ r.event # "input" /\ call.replies < 3

\* A capture that completed just before the host read its cancel answers twice;
\* an injection skips up to two replies about captures.
ReadsOn(r) ==
  \/ call.op = "cancel" /\ r.event = "complete" /\ call.replies = 1
  \/ call.op = "inject" /\ r.event # "input" /\ call.replies < 3

Await ==
  /\ call.replies > 0 /\ replies # <<>>
  /\ IF ReadsOn(Head(replies))
     THEN call' = [call EXCEPT !.replies = @ + 1]
     ELSE Returns
  /\ Take
  /\ UNCHANGED <<commands, host>>

\* No reply in three seconds: the host has stalled, or is gone.
TimesOut ==
  /\ call.replies > 0 /\ replies = <<>> /\ (host.stalled \/ host.ended)
  /\ Returns
  /\ UNCHANGED <<job, commands, replies, host>>

-----------------------------------------------------------------------------
(* The host: an iteration records, may complete, and reads one command. *)

Reply(event, id) == replies' = Append(replies, [event |-> event, id |-> id])

Record ==
  /\ host.at = "poll" /\ ~host.ended
  /\ \/ /\ ~host.stalled
        /\ host' = [host EXCEPT !.at = "command"]
        /\ UNCHANGED replies
     \/ /\ ~host.stalled /\ host.buffer # 0
        /\ host' = [host EXCEPT !.at = "command", !.buffer = 0,
                                !.files = @ \cup {host.buffer}]
        /\ Reply("complete", host.buffer)
     \/ /\ host.stalled
        /\ host' = [host EXCEPT !.ended = TRUE]
        /\ UNCHANGED replies
  /\ UNCHANGED <<job, call, commands>>

Stall ==
  /\ ~host.stalled /\ ~host.ended
  /\ host' = [host EXCEPT !.stalled = TRUE]
  /\ UNCHANGED <<job, call, commands, replies>>

Command ==
  /\ host.at = "command" /\ ~host.ended
  /\ IF commands = <<>>
     THEN host' = [host EXCEPT !.at = "poll"] /\ UNCHANGED <<commands, replies>>
     ELSE LET c == Head(commands)
              rest == [host EXCEPT !.at = "poll"]
          IN /\ commands' = Tail(commands)
             /\ CASE c.op = "input" ->
                       host' = rest /\ Reply("input", 0)
                  [] c.op = "start" /\ host.buffer = 0 ->
                       host' = [rest EXCEPT !.buffer = c.id, !.id = c.id] /\ Reply("started", c.id)
                  [] c.op = "cancel" /\ c.id = host.id ->
                       /\ host' = [rest EXCEPT !.buffer = 0]
                       /\ Reply(IF host.buffer # 0 THEN "cancelled" ELSE "cancel_complete", c.id)
                  [] OTHER -> host' = [rest EXCEPT !.ended = TRUE, !.refused = TRUE]
                              /\ UNCHANGED replies
  /\ UNCHANGED <<job, call>>

CrowNext ==
  \/ \E op \in {"start", "status", "cancel", "inject"}, i \in 0..MaxJobs : Begin(op, i)
  \/ Drain \/ SendOrReturn \/ Await \/ TimesOut
  \/ Record \/ Stall \/ Command

CrowSpec == CrowInit /\ [][CrowNext]_crowVars

-----------------------------------------------------------------------------
(* Properties. *)

(* The server never sends what the host must refuse: a start while a        *)
(* capture runs, or the cancellation of another than the last one, which    *)
(* would end the host and with it the session.                              *)
HostNeverRefuses == ~host.refused

(* While no reply is under way a job's status is the truth of the host: a   *)
(* complete one has its file, a cancelled one has none, and the active one  *)
(* is in the host's buffer, also when the host completed it at the moment   *)
(* it was cancelled.                                                        *)
StatusIsTrue ==
  /\ \A i \in DOMAIN job.status :
       /\ job.status[i] = "complete" => i \in host.files
       /\ job.status[i] = "cancelled" => i \notin host.files
  /\ call = Idle /\ replies = <<>> /\ commands = <<>> => job.active = host.buffer
CrowAgrees == HostNeverRefuses /\ StatusIsTrue
=============================================================================
