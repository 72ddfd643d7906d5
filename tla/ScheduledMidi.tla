---------------------------- MODULE ScheduledMidi ----------------------------
(***************************************************************************)
(* MIDI input from a request of the automation API to norns' MIDI parser:  *)
(* the native backend of the server (src/src/runtime/native.py: query,     *)
(* send, schedule_input, receive), the runtime's device thread and virtual *)
(* ports (patches 0009, 0012, 0013 and 0015), and the controlled clock     *)
(* (src/src/runtime/native_clock/emu_clock.c).                             *)
(*                                                                         *)
(* The server talks to the runtime over an ordered socket.  app.lock lets  *)
(* one request through at a time and it holds the lock until the answer    *)
(* came or the deadline passed; a missed deadline is sticky, so at most    *)
(* one packet is on its way to the runtime.  Reports go the other way, and *)
(* a reader thread takes them in order.                                    *)
(*                                                                         *)
(* Byte strings are told apart by what they do to a parser, the way of a   *)
(* system exclusive message: "start" opens one, "data" continues it, "end" *)
(* completes it, "whole" is a complete one, "clock" is a realtime byte,    *)
(* which framing does not concern.                                         *)
(***************************************************************************)
EXTENDS MidiSchedule, FiniteSetsExt

CONSTANTS
  Ids,       \* schedule ids that clients use
  Batches,   \* event lists that clients schedule, in time from submission
  Spans,     \* how far a client advances controlled time
  Immediate, \* what clients send at once
  MaxTime,   \* bound of the clock
  Modes,     \* clock modes a session may be started in
  NoBatch    \* input_schedule is None

Statuses == {"submitting", "accepted", "completed", "cancelled"}

(* A batch as the server keeps it. *)
Records == [id : Ids, status : Statuses, events : Seq(Timed),
            outcomes : Seq({"delivered", "dropped"})]

ASSUME MidiAssumption ==
  /\ Tokens = {"start", "data", "end", "whole", "clock"}
  /\ Ids \subseteq Nat \ {0}
  /\ Batches \subseteq Seq([after : Nat, port : Ports, bytes : Tokens])
  /\ Spans \subseteq Nat \ {0}
  /\ Immediate \subseteq Tokens
  /\ MaxTime \in Nat /\ Modes \subseteq {"real-time", "controlled"}
  /\ NoBatch \notin Records

VARIABLES
  mode,        \* clock_mode, for the whole session
  \* the runtime
  now,         \* CLOCK_MONOTONIC, or the logical clock
  queue,       \* input_schedule
  device,      \* receive_loop: "top", "poll", "timed" (with a timeout), "gone",
               \* or "exited" by _exit
  lua,         \* what the Lua thread still has to do for the last packet
  attached,    \* midi_connected
  parser,      \* emu_states, by port: "idle" or "open"
  orphan,      \* emu_discontinuity, by port
  heard,       \* what reached the parser of an attached port
  \* the sockets
  toNative, fromNative,
  \* the server
  call,        \* the request that holds app.lock
  answer,      \* acks and schedule_responses: the answer to it
  record,      \* input_schedule of the backend
  decoder,     \* midi_inputs, by port
  gap,         \* midi_parser_gaps, by port
  connections, \* midi_connections
  reader,      \* "running", or "dead" after a native_transport error
  errors,      \* errors is not empty, or a process has died
  ended        \* close() has shut the socket down for writing

wire    == <<toNative, fromNative>>
ports   == <<attached, parser, orphan>>
runtime == <<mode, now, queue, device, lua, ports, heard>>
views   == <<record, decoder, gap, connections, reader>>
session == <<errors, ended>>
vars    == <<runtime, wire, call, answer, views, session>>

Logical == mode = "controlled"

None == [kind |-> "none"]

Init ==
  /\ mode \in Modes
  /\ now = 0 /\ queue = EmptyQueue /\ device = "top" /\ lua = None
  /\ attached = Ports
  /\ parser = [p \in Ports |-> "idle"] /\ orphan = {} /\ heard = {}
  /\ toNative = <<>> /\ fromNative = <<>>
  /\ call = None /\ answer = None /\ record = NoBatch
  /\ decoder = [p \in Ports |-> "idle"] /\ gap = {}
  /\ connections = Ports /\ reader = "running" /\ errors = FALSE /\ ended = FALSE
-----------------------------------------------------------------------------
(* Byte streams *)

(* What a stream parser accepts, and what it is left with. *)
Accepts(state, bytes) ==
  bytes = "clock" \/ (bytes \in {"start", "whole"}) = (state = "idle")

After(state, bytes) ==
  CASE bytes = "start" -> "open"
    [] bytes \in {"end", "whole"} -> "idle"
    [] OTHER -> state

(* After a discontinuity the bytes of a message whose start is gone are    *)
(* thrown away.                                                            *)
Skipped(discontinuous, bytes) == discontinuous /\ bytes \in {"data", "end"}

(* Decoder.feed over the events of a batch, each on its port: the state    *)
(* before an event is what the last framing byte of its port has left.     *)
StateBefore(batch, k) ==
  LET framing == {j \in 1 .. k - 1 : /\ batch[j].port = batch[k].port
                                     /\ batch[j].bytes \in {"start", "end",
                                                           "whole"}}
  IN IF framing = {} THEN decoder[batch[k].port]
                     ELSE After("idle", batch[Max(framing)].bytes)

Feeds(batch) ==
  \A k \in DOMAIN batch : Accepts(StateBefore(batch, k), batch[k].bytes)
-----------------------------------------------------------------------------
(* The server: requests *)

Reporting == record # NoBatch /\ record.status \in {"submitting", "accepted"}

(* Without app.lock and io_lock a request would not wait for the last one. *)
SendsUnlocked(packet) ==
  /\ ~errors /\ device # "exited" /\ ~ended
  /\ toNative' = Append(toNative, packet)
  /\ answer' = None

(* check_processes: nothing is sent once an error is on record. *)
Sends(packet) ==
  /\ call = None /\ ~errors /\ device # "exited" /\ ~ended
  /\ toNative' = Append(toNative, packet)
  /\ answer' = None

RequestFrame == UNCHANGED <<runtime, fromNative, decoder, gap, connections,
                            reader, session>>

Planned(batch) ==
  [k \in DOMAIN batch |-> [at |-> now + batch[k].after,
                           port |-> batch[k].port, bytes |-> batch[k].bytes]]

(* midi_schedule: one batch at a time, whose bytes the decoders accept. *)
SubmitSchedule(id, batch) ==
  /\ ~Reporting /\ Feeds(batch)
  /\ \A k \in DOMAIN batch : now + batch[k].after <= MaxTime
  /\ Sends([kind |-> "schedule", id |-> id, events |-> Planned(batch)])
  /\ call' = [kind |-> "schedule", previous |-> record]
  /\ record' = [id |-> id, status |-> "submitting", events |-> Planned(batch),
                outcomes |-> <<>>]
  /\ RequestFrame

CancelSchedule(id) ==
  /\ Sends([kind |-> "cancel", id |-> id])
  /\ call' = [kind |-> "cancel"]
  /\ UNCHANGED record /\ RequestFrame

SubmitMidiDuringBatch(port, bytes) ==
  /\ port \in connections /\ Accepts(decoder[port], bytes)
  /\ Sends([kind |-> "midi", port |-> port, bytes |-> bytes])
  /\ call' = [kind |-> "midi", port |-> port, bytes |-> bytes]
  /\ UNCHANGED record /\ RequestFrame

SubmitMidiAnywhere(port, bytes) ==
  /\ ~Reporting /\ Accepts(decoder[port], bytes)
  /\ Sends([kind |-> "midi", port |-> port, bytes |-> bytes])
  /\ call' = [kind |-> "midi", port |-> port, bytes |-> bytes]
  /\ UNCHANGED record /\ RequestFrame

(* midi: immediate bytes, refused while a batch is active. *)
SubmitMidi(port, bytes) ==
  /\ ~Reporting /\ port \in connections /\ Accepts(decoder[port], bytes)
  /\ Sends([kind |-> "midi", port |-> port, bytes |-> bytes])
  /\ call' = [kind |-> "midi", port |-> port, bytes |-> bytes]
  /\ UNCHANGED record /\ RequestFrame

(* midi_connection: also while a batch is active. *)
ChangeConnection(port, on) ==
  /\ (port \in connections) # on
  /\ Sends([kind |-> "connection", port |-> port, on |-> on])
  /\ call' = [kind |-> "connection"]
  /\ UNCHANGED record /\ RequestFrame

Advance(span) ==
  /\ Logical /\ now + span <= MaxTime
  /\ Sends([kind |-> "advance", target |-> now + span])
  /\ call' = [kind |-> "advance"]
  /\ UNCHANGED record /\ RequestFrame

(* schedule_input, unlike send, does not look at errors once it is answered. *)
Scheduling == call.kind \in {"schedule", "cancel"}

(* The request returns.  A refused batch gives way to the one before it;   *)
(* the bytes of an acknowledged midi action have passed the decoder.       *)
Return ==
  /\ call # None /\ answer # None /\ (errors => Scheduling)
  /\ call' = None
  /\ record' = IF call.kind = "schedule" /\ answer.kind = "rejected"
               THEN call.previous ELSE record
  /\ IF call.kind = "midi"
     THEN /\ decoder' = [decoder EXCEPT ![call.port] = After(@, call.bytes)]
          /\ gap' = IF decoder'[call.port] = "open" THEN gap \ {call.port}
                                                    ELSE gap
     ELSE UNCHANGED <<decoder, gap>>
  /\ UNCHANGED <<runtime, wire, answer, connections, reader, session>>

(* The deadline passes, or an error shows up first: either is on record.   *)
TimesOut ==
  /\ call # None /\ (answer # None => errors /\ ~Scheduling)
  /\ call' = None /\ errors' = TRUE
  /\ UNCHANGED <<runtime, wire, answer, views, ended>>

(* A Lua error, a dead process, or a deadline that is exhausted before the *)
(* packet is sent.                                                         *)
SessionFails ==
  /\ ~errors /\ errors' = TRUE
  /\ UNCHANGED <<runtime, wire, call, answer, views, ended>>

(* backend.close shuts the socket down for writing. *)
EndSession ==
  /\ ~ended /\ ended' = TRUE
  /\ toNative' = Append(toNative, [kind |-> "eof"])
  /\ UNCHANGED <<runtime, fromNative, call, answer, views, errors>>
-----------------------------------------------------------------------------
(* The runtime *)

Emit(report) == fromNative' = Append(fromNative, report)

(* dev_midi_emu_receive *)
Consume(port, bytes) ==
  IF Skipped(port \in orphan, bytes) THEN UNCHANGED <<parser, orphan>>
  ELSE /\ parser' = [parser EXCEPT ![port] = After(@, bytes)]
       /\ orphan' = IF bytes \in {"start", "whole"} THEN orphan \ {port} ELSE orphan

(* scheduled_midi: the connection at this moment decides, and is reported. *)
Deliver ==
  LET e == NextTimed(queue)
      on == e.port \in attached IN
  /\ Due(queue, now)
  /\ queue' = Advanced(queue)
  /\ IF on THEN Consume(e.port, e.bytes) ELSE UNCHANGED <<parser, orphan>>
  /\ heard' = IF on THEN heard \cup {<<queue.id, queue.cursor + 1>>} ELSE heard
  /\ Emit([kind |-> IF on THEN "delivered" ELSE "dropped", id |-> queue.id,
           index |-> queue.cursor, event |-> e])
  /\ UNCHANGED <<mode, attached, call, answer, views, session>>

(* In real time the device thread looks for due input before it polls.     *)
DeviceDelivers ==
  /\ device = "top" /\ ~Logical
  /\ Deliver
  /\ UNCHANGED <<now, device, lua, toNative>>

DevicePollsUntimed ==
  /\ device = "top" /\ (Logical \/ ~Due(queue, now))
  /\ device' = "poll"
  /\ UNCHANGED <<mode, now, queue, lua, ports, heard, wire, call, answer,
                 views, session>>

(* ppoll: until the next deadline, if there is one to keep here. *)
DevicePolls ==
  /\ device = "top" /\ (Logical \/ ~Due(queue, now))
  /\ device' = IF ~Logical /\ Pending(queue) THEN "timed" ELSE "poll"
  /\ UNCHANGED <<mode, now, queue, lua, ports, heard, wire, call, answer,
                 views, session>>

(* The timeout passes.  Only this thread changes the queue in real time.   *)
DeviceWakes ==
  /\ device = "timed" /\ Due(queue, now)
  /\ device' = "top"
  /\ UNCHANGED <<mode, now, queue, lua, ports, heard, wire, call, answer,
                 views, session>>

Packet == Head(toNative)

Receives(kind) ==
  /\ device \in {"poll", "timed"} /\ toNative # <<>> /\ Packet.kind = kind
  /\ toNative' = Tail(toNative)

ReceiveFrame == UNCHANGED <<mode, now, call, answer, views, session>>

ReceiveSchedule ==
  /\ Receives("schedule")
  /\ device' = "top"
  /\ LET why == Refusals(queue, Packet.id, Packet.events, now) IN
     IF why = {}
     THEN /\ queue' = Installed(Packet.id, Packet.events)
          /\ Emit([kind |-> "accepted", id |-> Packet.id])
     ELSE /\ UNCHANGED queue
          /\ Emit([kind |-> "rejected", why |-> why])
  /\ UNCHANGED <<lua, ports, heard>> /\ ReceiveFrame

ReceiveCancel ==
  /\ Receives("cancel")
  /\ device' = "top"
  /\ IF Packet.id = queue.id
     THEN /\ queue' = Discarded(queue)
          /\ Emit([kind |-> "cancelled", id |-> Packet.id])
     ELSE /\ UNCHANGED queue
          /\ Emit([kind |-> "rejected", why |-> {"unknown"}])
  /\ UNCHANGED <<lua, ports, heard>> /\ ReceiveFrame

(* Bytes for a port that is not there end the process. *)
ReceiveMidi ==
  /\ Receives("midi")
  /\ IF Packet.port \in attached
     THEN /\ Consume(Packet.port, Packet.bytes)
          /\ lua' = [kind |-> "ack"] /\ device' = "top"
     ELSE device' = "exited" /\ UNCHANGED <<parser, orphan, lua>>
  /\ UNCHANGED <<queue, attached, heard, fromNative>> /\ ReceiveFrame

ConnectWithoutReset(port, on) ==
  /\ attached' = IF on THEN attached \cup {port} ELSE attached \ {port}
  /\ UNCHANGED <<parser, orphan>>

(* The connection changes and the parser is reset, whichever way.          *)
Connect(port, on) ==
  /\ attached' = IF on THEN attached \cup {port} ELSE attached \ {port}
  /\ parser' = [parser EXCEPT ![port] = "idle"]
  /\ orphan' = orphan \cup {port}

ReceiveConnection ==
  /\ Receives("connection")
  /\ IF (Packet.port \in attached) # Packet.on
     THEN /\ Connect(Packet.port, Packet.on)
          /\ Emit([kind |-> "connection", port |-> Packet.port,
                   on |-> Packet.on])
          /\ lua' = [kind |-> "ack"] /\ device' = "top"
     ELSE device' = "exited" /\ UNCHANGED <<ports, lua, fromNative>>
  /\ UNCHANGED <<queue, heard>> /\ ReceiveFrame

ReceiveAdvance ==
  /\ Receives("advance")
  /\ device' = "top"
  /\ lua' = [kind |-> "advance", target |-> Packet.target]
  /\ UNCHANGED <<queue, ports, heard, fromNative>> /\ ReceiveFrame

ReceiveEndKeepsQueue ==
  /\ Receives("eof")
  /\ device' = "gone"
  /\ UNCHANGED <<queue, lua, ports, heard, fromNative>> /\ ReceiveFrame

(* The end of the socket discards the batch and ends the device thread.    *)
ReceiveEnd ==
  /\ Receives("eof")
  /\ device' = "gone"
  /\ queue' = Discarded(queue)
  /\ UNCHANGED <<lua, ports, heard, fromNative>> /\ ReceiveFrame

(* The Lua thread acknowledges a packet once it gets there.                *)
Acknowledge ==
  /\ \/ lua.kind = "ack"
     \/ lua.kind = "advance" /\ now = lua.target /\ ~Due(queue, now)
  /\ device # "exited"
  /\ lua' = None
  /\ Emit([kind |-> "ack"])
  /\ UNCHANGED <<mode, now, queue, device, ports, heard, toNative, call,
                 answer, views, session>>

(* emu_clock_advance: due input first. *)
AdvanceDelivers ==
  /\ lua.kind = "advance" /\ device # "exited"
  /\ Deliver
  /\ UNCHANGED <<now, device, lua, toNative>>

AdvanceMovesPastDue ==
  /\ lua.kind = "advance" /\ device # "exited" /\ ~Due(queue, now)
  /\ \E t \in now + 1 .. lua.target : now' = t
  /\ UNCHANGED <<mode, queue, device, lua, ports, heard, wire, call, answer,
                 views, session>>

(* Then time moves to the nearest deadline, of the batch or of anything    *)
(* else in the runtime.                                                    *)
AdvanceMoves ==
  /\ lua.kind = "advance" /\ device # "exited" /\ ~Due(queue, now)
  /\ \E t \in now + 1 .. lua.target :
       /\ Pending(queue) => t <= NextTimed(queue).at
       /\ now' = t
  /\ UNCHANGED <<mode, queue, device, lua, ports, heard, wire, call, answer,
                 views, session>>

Tick ==
  /\ ~Logical /\ now < MaxTime
  /\ now' = now + 1
  /\ UNCHANGED <<mode, queue, device, lua, ports, heard, wire, call, answer,
                 views, session>>
-----------------------------------------------------------------------------
(* The server: the reader thread *)

Report == Head(fromNative)

Reads(kinds) ==
  /\ reader = "running" /\ fromNative # <<>> /\ Report.kind \in kinds
  /\ fromNative' = Tail(fromNative)
  /\ UNCHANGED <<runtime, toNative, call, ended>>

(* An error of the reader ends it. *)
ReaderFails ==
  /\ reader' = "dead" /\ errors' = TRUE
  /\ UNCHANGED <<answer, record, decoder, gap, connections>>

ReadAck ==
  /\ Reads({"ack", "rejected"})
  /\ answer' = Report
  /\ UNCHANGED <<views, errors>>

ReadStatus ==
  /\ Reads({"accepted", "cancelled"})
  /\ IF record # NoBatch /\ record.id = Report.id
     THEN /\ record' = [record EXCEPT !.status = Report.kind]
          /\ answer' = Report
          /\ UNCHANGED <<decoder, gap, connections, reader, errors>>
     ELSE ReaderFails

ReadConnectionKeepsDecoder ==
  /\ Reads({"connection"})
  /\ connections' = IF Report.on THEN connections \cup {Report.port}
                                 ELSE connections \ {Report.port}
  /\ gap' = gap \cup {Report.port}
  /\ UNCHANGED <<answer, record, decoder, reader, errors>>

ReadConnection ==
  /\ Reads({"connection"})
  /\ connections' = IF Report.on THEN connections \cup {Report.port}
                                 ELSE connections \ {Report.port}
  /\ decoder' = [decoder EXCEPT ![Report.port] = "idle"]
  /\ gap' = gap \cup {Report.port}
  /\ UNCHANGED <<answer, record, reader, errors>>

(* The report is about the next event of the batch on record, and agrees   *)
(* with what the server knows of the connection.                           *)
Expected ==
  /\ record # NoBatch /\ record.id = Report.id
  /\ Report.index = Len(record.outcomes)
  /\ Report.index < Len(record.events)
  /\ record.events[Report.index + 1] = Report.event
  /\ (Report.kind = "delivered") = (Report.event.port \in connections)

Recorded ==
  [record EXCEPT
     !.outcomes = Append(@, Report.kind),
     !.status = IF Len(record.outcomes) + 1 = Len(record.events)
                THEN "completed" ELSE @]

ReadDelivery ==
  /\ Reads({"delivered", "dropped"})
  /\ LET p == Report.event.port
         bytes == Report.event.bytes
         fed == Report.kind = "delivered" /\ ~Skipped(p \in gap, bytes) IN
     IF Expected /\ (fed => Accepts(decoder[p], bytes))
     THEN /\ record' = Recorded
          /\ decoder' = IF fed
                        THEN [decoder EXCEPT ![p] = After(@, bytes)]
                        ELSE decoder
          /\ gap' = IF fed /\ bytes \in {"start", "whole"}
                    THEN gap \ {p} ELSE gap
          /\ UNCHANGED <<answer, connections, reader, errors>>
     ELSE ReaderFails
-----------------------------------------------------------------------------
Requests ==
  \/ \E id \in Ids, batch \in Batches : SubmitSchedule(id, batch)
  \/ \E id \in Ids : CancelSchedule(id)
  \/ \E port \in Ports, bytes \in Immediate : SubmitMidi(port, bytes)
  \/ \E port \in Ports, on \in BOOLEAN : ChangeConnection(port, on)
  \/ \E span \in Spans : Advance(span)
  \/ EndSession \/ SessionFails

Receive ==
  \/ ReceiveSchedule \/ ReceiveCancel \/ ReceiveMidi \/ ReceiveConnection
  \/ ReceiveAdvance \/ ReceiveEnd

DeviceThread == DeviceDelivers \/ DevicePolls \/ DeviceWakes \/ Receive
LuaThread    == Acknowledge \/ AdvanceDelivers \/ AdvanceMoves
Reader       == ReadAck \/ ReadStatus \/ ReadConnection \/ ReadDelivery

Next == \/ Requests \/ Return \/ TimesOut
        \/ DeviceThread \/ LuaThread \/ Tick \/ Reader

Spec == Init /\ [][Next]_vars

(* Threads run, and so does the clock of a real-time session.              *)
Fairness ==
  /\ WF_vars(DeviceThread) /\ WF_vars(LuaThread) /\ WF_vars(Tick)
  /\ WF_vars(Reader) /\ WF_vars(Return)

FairSpec == Spec /\ Fairness
-----------------------------------------------------------------------------
(* Properties *)

TypeOK ==
  /\ now \in 0 .. MaxTime
  /\ queue.id \in Ids \cup {0} /\ queue.lastId = queue.id
  /\ queue.cursor \in 0 .. Len(queue.events)
  /\ device \in {"top", "poll", "timed", "gone", "exited"}
  /\ attached \subseteq Ports /\ connections \subseteq Ports
  /\ parser \in [Ports -> {"idle", "open"}] /\ orphan \subseteq Ports
  /\ decoder \in [Ports -> {"idle", "open"}] /\ gap \subseteq Ports
  /\ record = NoBatch \/ record.status \in Statuses
  /\ reader \in {"running", "dead"} /\ errors \in BOOLEAN
  /\ Len(toNative) <= 2

(* The checks of the reader never fail: reports come in the order of the   *)
(* batch on record, agree with the connections the server knows of, and    *)
(* their bytes pass its decoders (a failure ends the session's input); and *)
(* the queue is free whenever the server takes it for free: the runtime    *)
(* refuses no batch for another one that the client was told has ended.    *)
ServerKnowsTheRuntime ==
  /\ reader = "running"
  /\ ~errors /\ ~Reporting => ~Pending(queue) \/ device = "gone"

(* No request makes the runtime exit on an invalid packet: a port that the *)
(* server takes for connected is, when the packet gets there.              *)
RuntimeSurvives == device # "exited"

(* Between requests of a session that is not playing a batch, the server's *)
(* decoders and the runtime's parsers are in the same state, so that what  *)
(* the server admits next is what the runtime can parse.                   *)
DecodersAgree ==
  call = None /\ ~errors /\ ~Reporting => decoder = parser

(* A message is never put together from bytes of two attachments: a port   *)
(* that is not attached holds no part of one, and one that has just been   *)
(* attached waits for a start.                                             *)
NothingSurvivesRemoval ==
  \A p \in Ports : p \notin attached => parser[p] = "idle" /\ p \in orphan

(* In controlled time input arrives at its deadline, not after it.         *)
LogicalDeliveryIsExact ==
  [][Logical /\ heard' # heard => NextTimed(queue).at = now]_vars

(* The end of the session discards what is left of a batch, even under an  *)
(* advance that is still running.                                          *)
EndDiscardsPending ==
  [][device = "gone" => heard' = heard]_vars

(* An accepted batch ends: every deadline is met or recorded as dropped,   *)
(* unless the session fails or ends first.                                 *)
BatchEnds ==
  Reporting ~> (~Reporting \/ errors \/ device = "gone")

(* The batches that the client of MidiBatch may offer. *)
Offers == {[k \in DOMAIN b |-> [at |-> t + b[k].after, port |-> b[k].port,
                                bytes |-> b[k].bytes]] :
             b \in Batches, t \in 0 .. MaxTime}

Before == IF call.kind = "schedule" THEN call.previous ELSE NoBatch

(* The whole path keeps the promise of the API. *)
Promise == INSTANCE MidiBatch WITH
  batch <- record, before <- Before, taken <- queue.id, heard <- heard,
  Plans <- Offers

PromiseKept == Promise!Spec
=============================================================================
