---------------------------- MODULE AudioMonitor ----------------------------
(***************************************************************************)
(* Listening to a session in a browser: the pages of ui/audio.js, their    *)
(* requests to /audio/start, read and stop, which the server handles one   *)
(* at a time under audio_lock and in any order, and the monitor whose PCM  *)
(* blocks the server keeps in a ring (runtime/audio_monitor.py).  A page   *)
(* may lose the answer to a request that the server still handles later.   *)
(***************************************************************************)
EXTENDS Integers, FiniteSets

CONSTANTS Pages,       \* browser pages, each with its client identity
          NoPage,
          Ring,        \* blocks that the server keeps
          MaxBlocks, MaxStreams, MaxLost

ASSUME MonitorAssumption ==
  /\ NoPage \notin Pages
  /\ Ring \in Nat \ {0} /\ MaxBlocks \in Nat /\ MaxStreams \in Nat /\ MaxLost \in Nat

VARIABLES monitor,   \* Application.audio_monitor
          page,      \* page -> its audioState
          requests,  \* sent and not yet forgotten
          audioPast  \* streams begun, answers lost, pages released, session closed

monitorVars == <<monitor, page, requests, audioPast>>

NoMonitor == [owner |-> NoPage, stream |-> 0, last |-> -1, failed |-> FALSE]
Off == [phase |-> "off", stream |-> 0, after |-> -1, gap |-> FALSE]

MonitorInit ==
  /\ monitor = NoMonitor
  /\ page = [p \in Pages |-> Off]
  /\ requests = {}
  /\ audioPast = [streams |-> 0, lost |-> 0, released |-> {}, closed |-> FALSE]

\* One request of a page is sent; the page waits for it while it is "heard".
Sent(p, op, stream, after) ==
  [page |-> p, op |-> op, stream |-> stream, after |-> after,
   heard |-> TRUE, answer |-> "none", first |-> 0, last |-> -1]
Unheard(p) == {[r EXCEPT !.heard = FALSE] :
                 r \in {q \in requests : q.page = p /\ q.answer = "none"}}
Others(p) == {r \in requests : r.page # p}

-----------------------------------------------------------------------------
(* The page. *)

Listen(p) ==
  /\ page[p].phase = "off" /\ audioPast.streams < MaxStreams
  /\ LET stream == audioPast.streams + 1 IN
     /\ page' = [page EXCEPT ![p] = [Off EXCEPT !.phase = "starting", !.stream = stream]]
     /\ requests' = requests \cup {Sent(p, "start", stream, -1)}
     /\ audioPast' = [audioPast EXCEPT !.streams = stream, !.released = @ \ {p}]
  /\ UNCHANGED monitor

\* stopListening: a running stream is stopped at once, a start is waited for.
SendStop(p, state) ==
  /\ page' = [page EXCEPT ![p] = [state EXCEPT !.phase = "stopping"]]
  /\ requests' = Others(p) \cup Unheard(p) \cup {Sent(p, "stop", state.stream, -1)}

StopListening(p) ==
  /\ \/ page[p].phase = "on" /\ SendStop(p, page[p])
     \/ /\ page[p].phase = "starting"
        /\ page' = [page EXCEPT ![p].phase = "cancelled"]
        /\ UNCHANGED requests
  /\ UNCHANGED <<monitor, audioPast>>

\* What the page does when the request it waits for is answered, or failed.
Hear(p, r, ok) ==
  CASE page[p].phase = "starting" /\ ok ->
         /\ page' = [page EXCEPT ![p].phase = "on"]
         /\ requests' = Others(p) \cup Unheard(p) \cup {Sent(p, "read", r.stream, -1)}
    [] page[p].phase = "on" /\ ok ->
         LET gap == r.first <= r.last /\ page[p].after >= 0 /\ r.first # page[p].after + 1
             after == IF r.first <= r.last THEN r.last ELSE page[p].after
         IN /\ page' = [page EXCEPT ![p].after = after, ![p].gap = @ \/ gap]
            /\ requests' = Others(p) \cup Unheard(p) \cup {Sent(p, "read", r.stream, after)}
    [] page[p].phase = "stopping" ->
         /\ page' = [page EXCEPT ![p] = Off]
         /\ requests' = Others(p) \cup Unheard(p)
    [] OTHER -> SendStop(p, page[p])

Answered(r) ==
  /\ r.heard /\ r.answer # "none"
  /\ Hear(r.page, r, r.answer = "ok")
  /\ UNCHANGED <<monitor, audioPast>>

\* The request of a page fails without an answer: it is not heard any more.
AnswerLost(r) ==
  /\ r.heard /\ r.answer = "none" /\ audioPast.lost < MaxLost
  /\ Hear(r.page, r, FALSE)
  /\ audioPast' = [audioPast EXCEPT !.lost = @ + 1]
  /\ UNCHANGED monitor

-----------------------------------------------------------------------------
(* The server. *)

RefusedByOwner(r) ==
  \/ audioPast.closed
  \/ monitor.owner # NoPage /\ monitor.owner # r.page

Refused(r) ==
  \/ audioPast.closed
  \/ monitor.owner # NoPage /\ (monitor.owner # r.page \/ monitor.stream # r.stream)

Oldest == IF monitor.last + 1 > Ring THEN monitor.last + 1 - Ring ELSE 0
Gap(r) == r.after >= 0 /\ r.after < Oldest - 1

Answer(r, answer) ==
  requests' = (requests \ {r}) \cup
    (IF r.heard THEN {[r EXCEPT !.answer = answer]} ELSE {})
Running(r) == monitor.owner # NoPage /\ ~monitor.failed

\* A monitor answers its first start when it has produced a block, or fails.
ServeStart(r) ==
  /\ r.op = "start" /\ ~Refused(r)
  /\ IF monitor.owner # NoPage
     THEN Answer(r, IF monitor.failed THEN "error" ELSE "ok") /\ UNCHANGED monitor
     ELSE \/ /\ Answer(r, "ok")
             /\ monitor' = [NoMonitor EXCEPT !.owner = r.page, !.stream = r.stream, !.last = 0]
          \/ Answer(r, "error") /\ UNCHANGED monitor

ServeStop(r) ==
  /\ r.op = "stop" /\ ~Refused(r)
  /\ Answer(r, "ok")
  /\ monitor' = NoMonitor

ServeRead(r) ==
  /\ r.op = "read" /\ ~Refused(r)
  /\ IF Running(r) /\ ~Gap(r)
     THEN requests' = (requests \ {r}) \cup
            (IF r.heard
             THEN {[r EXCEPT !.answer = "ok", !.last = monitor.last,
                     !.first = IF r.after + 1 > Oldest THEN r.after + 1 ELSE Oldest]}
             ELSE {})
     ELSE Answer(r, "error")
  /\ UNCHANGED monitor

Refuse(r) == Refused(r) /\ Answer(r, "error") /\ UNCHANGED monitor

Serve(r) ==
  /\ r.answer = "none"
  /\ ServeStart(r) \/ ServeStop(r) \/ ServeRead(r) \/ Refuse(r)
  /\ UNCHANGED <<page, audioPast>>

\* The receiving thread appends a block, or finds the stream broken.
Receive ==
  /\ monitor.owner # NoPage /\ ~monitor.failed
  /\ \/ /\ monitor.last < MaxBlocks
        /\ monitor' = [monitor EXCEPT !.last = @ + 1]
     \/ monitor' = [monitor EXCEPT !.failed = TRUE]
  /\ UNCHANGED <<page, requests, audioPast>>

\* close_audio of a disconnected or lapsed client, and of the closing session.
Release(p) ==
  /\ monitor.owner = p
  /\ monitor' = NoMonitor
  /\ audioPast' = [audioPast EXCEPT !.released = @ \cup {p}]
  /\ UNCHANGED <<page, requests>>

CloseSession ==
  /\ ~audioPast.closed
  /\ monitor' = NoMonitor
  /\ audioPast' = [audioPast EXCEPT !.closed = TRUE]
  /\ UNCHANGED <<page, requests>>

MonitorNext ==
  \/ \E p \in Pages : Listen(p) \/ StopListening(p) \/ Release(p)
  \/ \E r \in requests : Answered(r) \/ AnswerLost(r) \/ Serve(r)
  \/ Receive \/ CloseSession

MonitorSpec == MonitorInit /\ [][MonitorNext]_monitorVars

-----------------------------------------------------------------------------
(* Properties. *)

(* A page that listens keeps the monitor it started until it stops, its     *)
(* client is released or the session closes: no delayed request of one of   *)
(* its earlier intervals, or of another page, stops or replaces it          *)
(* (audio-api.md:66-69).                                                    *)
ListeningIsNotStolen ==
  \A p \in Pages : page[p].phase = "on" =>
    \/ monitor.owner = p /\ monitor.stream = page[p].stream
    \/ p \in audioPast.released \/ audioPast.closed

(* Blocks that left the ring before they were read are an explicit error of *)
(* the server: the page never receives a block after a hole.                *)
GapsAreErrors == \A p \in Pages : ~page[p].gap

(* A page that listens hears its own stream, and all of it.                 *)
ListeningIsExact == ListeningIsNotStolen /\ GapsAreErrors
=============================================================================
