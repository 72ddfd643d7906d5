------------------------- MODULE ScheduledMidiProofs --------------------------
(***************************************************************************)
(* Types of the MIDI input path, the protocol of its requests, its clock   *)
(* and its ports, for any ports, batches, ids, spans and bounds.           *)
(*                                                                         *)
(* TypeOK is not inductive: that the socket never holds more than a packet *)
(* and the end of the stream rests on the server waiting for the answer to *)
(* one request before it sends the next (OneRequest).  A request is at     *)
(* most at one place: in the socket, with the Lua thread, answered in the  *)
(* socket back, or answered.                                               *)
(***************************************************************************)
EXTENDS ScheduledMidi, SequenceTheorems, TLAPS

Eof == [kind |-> "eof"]
SchedulePackets   == [kind : {"schedule"}, id : Ids, events : Seq(Timed)]
CancelPackets     == [kind : {"cancel"}, id : Ids]
MidiPackets       == [kind : {"midi"}, port : Ports, bytes : Tokens]
ConnectionPackets == [kind : {"connection"}, port : Ports, on : BOOLEAN]
AdvancePackets    == [kind : {"advance"}, target : 0 .. MaxTime]
Packets == SchedulePackets \cup CancelPackets \cup MidiPackets
             \cup ConnectionPackets \cup AdvancePackets

Reasons == {"busy", "id", "count", "late", "horizon", "order", "unknown"}
Acks          == [kind : {"ack"}] \cup [kind : {"rejected"}, why : SUBSET Reasons]
StatusReports == [kind : {"accepted", "cancelled"}, id : Ids]
PortReports   == [kind : {"connection"}, port : Ports, on : BOOLEAN]
EventReports  == [kind : {"delivered", "dropped"}, id : Nat, index : Nat, event : Timed]
Reports == Acks \cup StatusReports \cup PortReports \cup EventReports

Queues  == [id : Ids \cup {0}, lastId : Ids \cup {0}, events : Seq(Timed), cursor : Nat]
Calls   == {None} \cup [kind : {"schedule"}, previous : Records \cup {NoBatch}]
             \cup [kind : {"cancel", "connection", "advance"}]
             \cup [kind : {"midi"}, port : Ports, bytes : Tokens]
Tasks   == {None, [kind |-> "ack"]} \cup [kind : {"advance"}, target : 0 .. MaxTime]

QueueOK == /\ queue \in Queues /\ queue.lastId = queue.id
           /\ queue.cursor \in 0 .. Len(queue.events)

RuntimeTypes ==
  /\ mode \in Modes /\ now \in 0 .. MaxTime /\ QueueOK
  /\ device \in {"top", "poll", "timed", "gone", "exited"} /\ lua \in Tasks
  /\ attached \subseteq Ports /\ parser \in [Ports -> {"idle", "open"}]
  /\ orphan \subseteq Ports /\ heard \subseteq Nat \X Nat

(* A request, and the end of the stream after it. *)
WireTypes ==
  /\ \/ toNative \in {<<>>, <<Eof>>}
     \/ \E pk \in Packets : toNative \in {<<pk>>, <<pk, Eof>>}
  /\ fromNative \in Seq(Reports)

ServerTypes ==
  /\ call \in Calls /\ answer \in Reports \cup {None}
  /\ record \in Records \cup {NoBatch}
  /\ decoder \in [Ports -> {"idle", "open"}]
  /\ gap \subseteq Ports /\ connections \subseteq Ports
  /\ reader \in {"running", "dead"} /\ errors \in BOOLEAN /\ ended \in BOOLEAN

Types == RuntimeTypes /\ WireTypes /\ ServerTypes

(* Where a request may be. *)
Sent == toNative # <<>> /\ Packet.kind # "eof"
Responds(r) == r.kind \in {"ack", "rejected", "accepted", "cancelled"}
AnsweredIn(s) == \E i \in DOMAIN s : Responds(s[i])
OneAnswer(s) == \A i, j \in DOMAIN s : Responds(s[i]) /\ Responds(s[j]) => i = j
Answered == AnsweredIn(fromNative)
Settled == \/ call = None /\ ~errors
           \/ call # None /\ answer # None

OneRequest ==
  /\ ~ended => toNative = <<>> \/ (Sent /\ Tail(toNative) = <<>>)
  /\ device = "gone" => toNative = <<>> /\ ended
  /\ Sent => lua = None
  /\ Sent \/ lua # None \/ Settled => ~Answered
  /\ Settled => ~Sent /\ lua = None
  /\ OneAnswer(fromNative)

-----------------------------------------------------------------------------
(* The members of a union of record sets are told apart by their kind. *)
LEMMA PacketKinds ==
  ASSUME NEW pk \in Packets
  PROVE  /\ pk.kind # "eof"
         /\ pk.kind = "schedule" => pk \in SchedulePackets
         /\ pk.kind = "cancel" => pk \in CancelPackets
         /\ pk.kind = "midi" => pk \in MidiPackets
         /\ pk.kind = "connection" => pk \in ConnectionPackets
         /\ pk.kind = "advance" => pk \in AdvancePackets
  BY DEF Packets, SchedulePackets, CancelPackets, MidiPackets,
     ConnectionPackets, AdvancePackets

LEMMA ReportKinds ==
  ASSUME NEW r \in Reports
  PROVE  /\ r.kind \in {"accepted", "cancelled"} => r \in StatusReports
         /\ r.kind = "connection" => r \in PortReports
         /\ r.kind \in {"delivered", "dropped"} => r \in EventReports
         /\ r.kind \in {"ack", "rejected"} => r \in Acks
         /\ Responds(r) <=> r \in Acks \cup StatusReports
         /\ r # None
  BY DEF Reports, Acks, StatusReports, PortReports, EventReports, Responds, None

LEMMA IdsAreNat == \A id \in Ids \cup {0} : id \in Nat /\ (id \in Ids => id # 0)
  <1>1. Ids \subseteq Nat \ {0}
    BY MidiAssumption
  <1>2. QED
    BY <1>1

LEMMA CallKinds ==
  ASSUME NEW c \in Calls
  PROVE  /\ c.kind = "none" <=> c = None
         /\ c.kind = "midi" => c.port \in Ports /\ c.bytes \in Tokens
         /\ c.kind = "schedule" => c.previous \in Records \cup {NoBatch}
  BY DEF Calls, None

LEMMA HeadTailOfOne ==
  \A a, b : /\ Head(<<a>>) = a /\ Tail(<<a>>) = <<>>
            /\ Head(<<a, b>>) = a /\ Tail(<<a, b>>) = <<b>>
            /\ Append(<<>>, a) = <<a>> /\ Append(<<a>>, b) = <<a, b>>
            /\ <<a>> # <<>> /\ <<a, b>> # <<>>
  <1> TAKE a, b
  <1>1. /\ Head(<<a>>) = a /\ Tail(<<a>>) = <<>>
        /\ Head(<<a, b>>) = a /\ Tail(<<a, b>>) = <<b>>
    OBVIOUS
  <1>2. Append(<<>>, a) = <<a>>
    <2>1. <<>> \in Seq({a}) /\ <<a>> \in Seq({a})
      OBVIOUS
    <2>2. QED
      BY <2>1
  <1>3. Append(<<a>>, b) = <<a, b>>
    <2> DEFINE t == Append(<<a>>, b)
    <2>1. <<a>> \in Seq({a, b}) /\ <<a, b>> \in Seq({a, b})
      OBVIOUS
    <2>2. t \in Seq({a, b}) /\ Len(t) = 2 /\ t[1] = a /\ t[2] = b
      BY <2>1, AppendProperties
    <2>3. <<a, b>>[1] = a /\ <<a, b>>[2] = b /\ Len(<<a, b>>) = 2
      OBVIOUS
    <2> HIDE DEF t
    <2>4. \A i \in 1 .. Len(t) : t[i] = <<a, b>>[i]
      BY <2>2, <2>3
    <2>5. t = <<a, b>>
      BY <2>1, <2>2, <2>3, <2>4, SeqEqual
    <2>6. QED
      BY <2>5 DEF t
  <1>4. Len(<<a>>) = 1 /\ Len(<<a, b>>) = 2 /\ Len(<<>>) = 0
    OBVIOUS
  <1>5. QED
    BY <1>1, <1>2, <1>3, <1>4

(* What is in the socket to the runtime, seen from its head. *)
LEMMA SocketShape ==
  ASSUME WireTypes, toNative # <<>>
  PROVE  /\ Packet \in Packets \cup {Eof}
         /\ Packet = Eof => Tail(toNative) = <<>>
         /\ Tail(toNative) \in {<<>>, <<Eof>>}
         /\ Sent <=> Packet \in Packets
  <1>1. CASE toNative = <<Eof>>
    <2>1. Head(<<Eof>>) = Eof /\ Tail(<<Eof>>) = <<>>
      BY HeadTailOfOne
    <2>2. QED
      BY <1>1, <2>1, PacketKinds DEF Packet, Sent, Eof
  <1>2. ASSUME NEW pk \in Packets, toNative \in {<<pk>>, <<pk, Eof>>}
        PROVE  Packet = pk /\ Tail(toNative) \in {<<>>, <<Eof>>}
    BY <1>2, HeadTailOfOne DEF Packet
  <1>3. QED
    BY <1>1, <1>2, PacketKinds DEF WireTypes, Sent, Eof
-----------------------------------------------------------------------------
(* Types: the runtime. *)
LEMMA NextIsTimed ==
  ASSUME QueueOK, Pending(queue)
  PROVE  /\ NextTimed(queue) \in Timed
         /\ queue.cursor + 1 \in 1 .. Len(queue.events)
         /\ Advanced(queue) = [id |-> queue.id, lastId |-> queue.lastId,
                               events |-> queue.events, cursor |-> queue.cursor + 1]
         /\ Advanced(queue) \in Queues
  <1>1. /\ queue.events \in Seq(Timed) /\ queue.cursor \in Nat
        /\ queue.cursor < Len(queue.events)
    BY DEF QueueOK, Queues, Pending
  <1>2. queue.cursor + 1 \in 1 .. Len(queue.events)
    BY <1>1
  <1>3. NextTimed(queue) \in Timed
    BY <1>1, <1>2, ElementOfSeq DEF NextTimed
  <1>4. Advanced(queue) = [id |-> queue.id, lastId |-> queue.lastId,
                           events |-> queue.events, cursor |-> queue.cursor + 1]
    BY DEF QueueOK, Queues, Advanced
  <1>5. QED
    BY <1>1, <1>2, <1>3, <1>4 DEF QueueOK, Queues

LEMMA DiscardedQueue ==
  ASSUME QueueOK
  PROVE  /\ Discarded(queue) = [id |-> queue.id, lastId |-> queue.lastId,
                                events |-> queue.events, cursor |-> Len(queue.events)]
         /\ Discarded(queue) \in Queues
         /\ ~Pending(Discarded(queue))
  BY DEF QueueOK, Queues, Discarded, Pending

LEMMA ConsumeTypes ==
  ASSUME RuntimeTypes, NEW p \in Ports, NEW b \in Tokens, Consume(p, b)
  PROVE  parser' \in [Ports -> {"idle", "open"}] /\ orphan' \subseteq Ports
  <1>1. After(parser[p], b) \in {"idle", "open"}
    BY DEF RuntimeTypes, After
  <1>2. QED
    BY <1>1 DEF RuntimeTypes, Consume

(* What is reported of an event, and what its delivery changes. *)
Outcome == [kind |-> IF NextTimed(queue).port \in attached
                     THEN "delivered" ELSE "dropped",
            id |-> queue.id, index |-> queue.cursor, event |-> NextTimed(queue)]

LEMMA DeliverTypes ==
  ASSUME RuntimeTypes, Deliver
  PROVE  /\ QueueOK' /\ queue' = Advanced(queue)
         /\ parser' \in [Ports -> {"idle", "open"}] /\ orphan' \subseteq Ports
         /\ heard' \subseteq Nat \X Nat
         /\ Outcome \in EventReports /\ fromNative' = Append(fromNative, Outcome)
         /\ UNCHANGED <<mode, attached, call, answer, views, session>>
  <1>1. Pending(queue) /\ queue' = Advanced(queue) /\ QueueOK
    BY DEF Deliver, Due, RuntimeTypes
  <1>2. /\ NextTimed(queue) \in Timed /\ queue.cursor + 1 \in Nat /\ queue.id \in Nat
        /\ queue.cursor \in Nat
    <2>1. queue.id \in Ids \cup {0} /\ queue.cursor \in Nat
      BY <1>1 DEF QueueOK, Queues
    <2>2. queue.id \in Nat
      BY <2>1, IdsAreNat
    <2>3. NextTimed(queue) \in Timed
      BY <1>1, NextIsTimed
    <2>4. QED
      BY <2>1, <2>2, <2>3
  <1>3. QueueOK'
    <2>1. /\ queue' \in Queues /\ queue'.lastId = queue'.id
          /\ queue'.cursor \in 1 .. Len(queue.events) /\ queue'.events = queue.events
      BY <1>1, NextIsTimed DEF QueueOK
    <2>2. QED
      BY <2>1 DEF QueueOK, Queues
  <1>4. Outcome \in EventReports
    BY <1>2 DEF Outcome, EventReports
  <1>5. fromNative' = Append(fromNative, Outcome)
    BY DEF Deliver, Emit, Outcome
  <1>6. parser' \in [Ports -> {"idle", "open"}] /\ orphan' \subseteq Ports
    <2>1. NextTimed(queue).port \in Ports /\ NextTimed(queue).bytes \in Tokens
      BY <1>2 DEF Timed
    <2>2. QED
      BY <2>1, ConsumeTypes DEF Deliver, RuntimeTypes
  <1>7. heard' \subseteq Nat \X Nat
    BY <1>2 DEF Deliver, RuntimeTypes
  <1>8. QED
    BY <1>1, <1>3, <1>4, <1>5, <1>6, <1>7 DEF Deliver

LEMMA ReceivedPacket ==
  ASSUME WireTypes, NEW kind, kind # "eof", Receives(kind)
  PROVE  Sent /\ Packet \in Packets /\ Packet.kind = kind
  BY SocketShape, PacketKinds DEF Receives, Sent

LEMMA InstalledQueue ==
  ASSUME QueueOK, NEW pk \in SchedulePackets
  PROVE  /\ Installed(pk.id, pk.events) \in Queues
         /\ Installed(pk.id, pk.events).cursor \in 0 .. Len(pk.events)
  BY DEF SchedulePackets, Installed, Queues

LEMMA ReceiveTypes ==
  ASSUME RuntimeTypes, WireTypes, Receive
  PROVE  RuntimeTypes'
  <1>1. CASE ReceiveSchedule
    <2>1. Packet \in SchedulePackets
      BY <1>1, ReceivedPacket, PacketKinds DEF ReceiveSchedule
    <2>2. QueueOK'
      <3>1. CASE UNCHANGED queue
        BY <3>1 DEF RuntimeTypes, QueueOK
      <3>2. CASE queue' = Installed(Packet.id, Packet.events)
        <4>1. /\ Packet.events \in Seq(Timed)
              /\ queue' = [id |-> Packet.id, lastId |-> Packet.id,
                           events |-> Packet.events, cursor |-> 0]
          BY <2>1, <3>2 DEF Installed, SchedulePackets
        <4>2. QED
          BY <2>1, <4>1 DEF SchedulePackets, QueueOK, Queues
      <3>3. QED
        BY <1>1, <3>1, <3>2 DEF ReceiveSchedule
    <2>3. QED
      BY <1>1, <2>2 DEF ReceiveSchedule, ReceiveFrame, RuntimeTypes, ports
  <1>2. CASE ReceiveCancel
    <2>1. QueueOK'
      BY <1>2, DiscardedQueue DEF ReceiveCancel, RuntimeTypes, QueueOK
    <2>2. QED
      BY <1>2, <2>1 DEF ReceiveCancel, ReceiveFrame, RuntimeTypes, ports
  <1>3. CASE ReceiveMidi
    <2>1. Packet \in MidiPackets
      BY <1>3, ReceivedPacket, PacketKinds DEF ReceiveMidi
    <2>2. parser' \in [Ports -> {"idle", "open"}] /\ orphan' \subseteq Ports
      BY <1>3, <2>1, ConsumeTypes DEF ReceiveMidi, MidiPackets, RuntimeTypes
    <2>3. QueueOK'
      BY <1>3 DEF ReceiveMidi, RuntimeTypes, QueueOK
    <2>4. QED
      BY <1>3, <2>2, <2>3 DEF ReceiveMidi, ReceiveFrame, RuntimeTypes, Tasks
  <1>4. CASE ReceiveConnection
    <2>1. Packet \in ConnectionPackets
      BY <1>4, ReceivedPacket, PacketKinds DEF ReceiveConnection
    <2>2. /\ attached' \subseteq Ports /\ parser' \in [Ports -> {"idle", "open"}]
          /\ orphan' \subseteq Ports
      BY <1>4, <2>1 DEF ReceiveConnection, Connect, ConnectionPackets, RuntimeTypes, ports
    <2>3. QueueOK'
      BY <1>4 DEF ReceiveConnection, RuntimeTypes, QueueOK
    <2>4. QED
      BY <1>4, <2>2, <2>3 DEF ReceiveConnection, ReceiveFrame, RuntimeTypes, Tasks, ports
  <1>5. CASE ReceiveAdvance
    <2>1. Packet \in AdvancePackets
      BY <1>5, ReceivedPacket, PacketKinds DEF ReceiveAdvance
    <2>2. QueueOK' /\ lua' \in Tasks
      BY <1>5, <2>1 DEF ReceiveAdvance, RuntimeTypes, QueueOK, AdvancePackets, Tasks
    <2>3. QED
      BY <1>5, <2>2 DEF ReceiveAdvance, ReceiveFrame, RuntimeTypes, ports
  <1>6. CASE ReceiveEnd
    <2>1. QueueOK'
      BY <1>6, DiscardedQueue DEF ReceiveEnd, RuntimeTypes, QueueOK
    <2>2. QED
      BY <1>6, <2>1 DEF ReceiveEnd, ReceiveFrame, RuntimeTypes, ports
  <1>7. QED
    BY <1>1, <1>2, <1>3, <1>4, <1>5, <1>6 DEF Receive


LEMMA RuntimeStep ==
  ASSUME Types, [Next]_vars
  PROVE  RuntimeTypes'
  <1>1. CASE UNCHANGED runtime
    BY <1>1 DEF runtime, ports, Types, RuntimeTypes, QueueOK
  <1>2. CASE DeviceDelivers \/ AdvanceDelivers
    BY <1>2, DeliverTypes DEF DeviceDelivers, AdvanceDelivers, Types, RuntimeTypes
  <1>3. CASE DevicePolls \/ DeviceWakes
    BY <1>3 DEF DevicePolls, DeviceWakes, Types, RuntimeTypes, QueueOK, ports
  <1>4. CASE Receive
    BY <1>4, ReceiveTypes DEF Types
  <1>5. CASE Acknowledge
    BY <1>5 DEF Acknowledge, Types, RuntimeTypes, QueueOK, ports, Tasks
  <1>6. CASE AdvanceMoves
    <2>1. lua \in [kind : {"advance"}, target : 0 .. MaxTime] /\ MaxTime \in Nat
      BY <1>6, MidiAssumption DEF AdvanceMoves, Types, RuntimeTypes, Tasks, None
    <2>2. now' \in 0 .. MaxTime
      BY <1>6, <2>1 DEF AdvanceMoves, Types, RuntimeTypes
    <2>3. QED
      BY <1>6, <2>2 DEF AdvanceMoves, Types, RuntimeTypes, QueueOK, ports
  <1>7. CASE Tick
    <2>1. now' \in 0 .. MaxTime
      BY <1>7, MidiAssumption DEF Tick, Types, RuntimeTypes
    <2>2. QED
      BY <1>7, <2>1 DEF Tick, Types, RuntimeTypes, QueueOK, ports
  <1>8. CASE Requests \/ Return \/ TimesOut \/ Reader \/ UNCHANGED vars
    BY <1>1, <1>8 DEF Requests, SubmitSchedule, CancelSchedule, SubmitMidi,
       ChangeConnection, Advance, RequestFrame, EndSession, SessionFails, Return,
       TimesOut, Reader, ReadAck, ReadStatus, ReadConnection, ReadDelivery, Reads, vars
  <1>9. QED
    BY <1>2, <1>3, <1>4, <1>5, <1>6, <1>7, <1>8 DEF Next, DeviceThread, LuaThread
-----------------------------------------------------------------------------
(* Types: requests. *)
LEMMA PlannedTypes ==
  ASSUME Types, NEW b \in Batches
  PROVE  Planned(b) \in Seq(Timed)
  <1>1. b \in Seq([after : Nat, port : Ports, bytes : Tokens])
    BY MidiAssumption
  <1>2. Len(b) \in Nat /\ DOMAIN b = 1 .. Len(b) /\ now \in Nat
    BY <1>1 DEF Types, RuntimeTypes
  <1>3. ASSUME NEW k \in 1 .. Len(b)
        PROVE  [at |-> now + b[k].after, port |-> b[k].port,
                bytes |-> b[k].bytes] \in Timed
    <2>1. b[k] \in [after : Nat, port : Ports, bytes : Tokens]
      BY <1>1, ElementOfSeq
    <2>2. now + b[k].after \in Nat /\ b[k].port \in Ports /\ b[k].bytes \in Tokens
      BY <1>2, <2>1
    <2>3. QED
      BY <2>2 DEF Timed
  <1>4. QED
    BY <1>2, <1>3, IsASeq DEF Planned

LEMMA SendsInto ==
  ASSUME Types, OneRequest, NEW pk \in Packets, Sends(pk)
  PROVE  /\ toNative = <<>> /\ toNative' = <<pk>> /\ answer' = None
         /\ call = None /\ ~errors /\ ~ended /\ lua = None /\ ~Answered
  <1>1. Settled /\ ~ended
    BY DEF Sends, Settled
  <1>2. toNative = <<>> /\ lua = None /\ ~Answered
    BY <1>1 DEF OneRequest
  <1>3. QED
    BY <1>2 DEF Sends

(* Every request but the end of the session sends one packet, that the     *)
(* server finds admissible.                                                *)
Admissible(pk) ==
  /\ pk.kind = "schedule" =>
       /\ ~Reporting /\ call'.previous = record
       /\ \E b \in Batches : Feeds(b) /\ pk.events = Planned(b)
       /\ record' = [id |-> pk.id, status |-> "submitting", events |-> pk.events,
                     outcomes |-> <<>>]
  /\ pk.kind # "schedule" => record' = record
  /\ pk.kind = "midi" =>
       /\ ~Reporting /\ pk.port \in connections /\ Accepts(decoder[pk.port], pk.bytes)
       /\ call'.port = pk.port /\ call'.bytes = pk.bytes
  /\ pk.kind = "connection" => (pk.port \in connections <=> ~pk.on)

Submits(pk) ==
  /\ Sends(pk) /\ call' \in Calls \ {None} /\ call'.kind = pk.kind
  /\ record' \in Records \cup {NoBatch} /\ RequestFrame
  /\ Admissible(pk)

LEMMA RequestSubmits ==
  ASSUME Types, Requests
  PROVE  EndSession \/ SessionFails \/ \E pk \in Packets : Submits(pk)
  <1>1. ASSUME NEW id \in Ids, NEW b \in Batches, SubmitSchedule(id, b)
        PROVE  \E pk \in Packets : Submits(pk)
    <2> DEFINE pk == [kind |-> "schedule", id |-> id, events |-> Planned(b)]
    <2>1. Planned(b) \in Seq(Timed)
      BY PlannedTypes
    <2>2. pk \in Packets
      BY <2>1 DEF Packets, SchedulePackets
    <2>3. call' \in Calls \ {None} /\ call'.kind = "schedule"
      BY <1>1 DEF SubmitSchedule, Types, ServerTypes, Calls, None
    <2>4. record' \in Records
      BY <1>1, <2>1 DEF SubmitSchedule, Records, Statuses
    <2>5. QED
      BY <1>1, <2>2, <2>3, <2>4 DEF SubmitSchedule, Submits, Admissible
  <1>2. ASSUME NEW id \in Ids, CancelSchedule(id)
        PROVE  \E pk \in Packets : Submits(pk)
    <2> DEFINE pk == [kind |-> "cancel", id |-> id]
    <2>1. pk \in Packets
      BY DEF Packets, CancelPackets
    <2>2. call' \in Calls \ {None} /\ call'.kind = "cancel"
      BY <1>2 DEF CancelSchedule, Calls, None
    <2>3. QED
      BY <1>2, <2>1, <2>2 DEF CancelSchedule, Submits, Admissible, Types, ServerTypes
  <1>3. ASSUME NEW p \in Ports, NEW bytes \in Immediate, SubmitMidi(p, bytes)
        PROVE  \E pk \in Packets : Submits(pk)
    <2> DEFINE pk == [kind |-> "midi", port |-> p, bytes |-> bytes]
    <2>1. bytes \in Tokens
      BY MidiAssumption
    <2>2. pk \in Packets
      BY <2>1 DEF Packets, MidiPackets
    <2>3. call' \in Calls \ {None} /\ call'.kind = "midi"
      BY <1>3, <2>1 DEF SubmitMidi, Calls, None
    <2>4. QED
      BY <1>3, <2>2, <2>3 DEF SubmitMidi, Submits, Admissible, Types, ServerTypes
  <1>4. ASSUME NEW p \in Ports, NEW on \in BOOLEAN, ChangeConnection(p, on)
        PROVE  \E pk \in Packets : Submits(pk)
    <2> DEFINE pk == [kind |-> "connection", port |-> p, on |-> on]
    <2>1. pk \in Packets
      BY DEF Packets, ConnectionPackets
    <2>2. call' \in Calls \ {None} /\ call'.kind = "connection"
      BY <1>4 DEF ChangeConnection, Calls, None
    <2>3. p \in connections <=> ~on
      <3>1. (p \in connections) # on
        BY <1>4 DEF ChangeConnection
      <3>2. QED
        BY <3>1
    <2>4. QED
      BY <1>4, <2>1, <2>2, <2>3 DEF ChangeConnection, Submits, Admissible, Types, ServerTypes
  <1>5. ASSUME NEW span \in Spans, Advance(span)
        PROVE  \E pk \in Packets : Submits(pk)
    <2> DEFINE pk == [kind |-> "advance", target |-> now + span]
    <2>1. now + span \in 0 .. MaxTime
      <3>1. span \in Nat /\ MaxTime \in Nat /\ now \in 0 .. MaxTime
        BY MidiAssumption DEF Types, RuntimeTypes
      <3>2. QED
        BY <1>5, <3>1 DEF Advance
    <2>2. pk \in Packets
      BY <2>1 DEF Packets, AdvancePackets
    <2>3. call' \in Calls \ {None} /\ call'.kind = "advance"
      BY <1>5 DEF Advance, Calls, None
    <2>4. QED
      BY <1>5, <2>2, <2>3 DEF Advance, Submits, Admissible, Types, ServerTypes
  <1>6. QED
    BY <1>1, <1>2, <1>3, <1>4, <1>5 DEF Requests
-----------------------------------------------------------------------------
(* Types: the sockets. *)
LEMMA Appending ==
  ASSUME NEW s \in Seq(Reports), NEW r \in Reports
  PROVE  /\ Append(s, r) \in Seq(Reports)
         /\ AnsweredIn(Append(s, r)) <=> AnsweredIn(s) \/ Responds(r)
         /\ OneAnswer(s) /\ ~(AnsweredIn(s) /\ Responds(r)) => OneAnswer(Append(s, r))
  <1>1. /\ Append(s, r) \in Seq(Reports) /\ DOMAIN s = 1 .. Len(s) /\ Len(s) \in Nat
        /\ DOMAIN Append(s, r) = 1 .. Len(s) + 1
        /\ \A i \in 1 .. Len(s) : Append(s, r)[i] = s[i]
        /\ Append(s, r)[Len(s) + 1] = r
    OBVIOUS
  <1>2. AnsweredIn(Append(s, r)) <=> AnsweredIn(s) \/ Responds(r)
    BY <1>1 DEF AnsweredIn
  <1>3. ASSUME OneAnswer(s), ~(AnsweredIn(s) /\ Responds(r))
        PROVE  OneAnswer(Append(s, r))
    BY <1>1, <1>3 DEF AnsweredIn, OneAnswer
  <1>4. QED
    BY <1>1, <1>2, <1>3

LEMMA Taking ==
  ASSUME NEW s \in Seq(Reports), s # <<>>
  PROVE  /\ Head(s) \in Reports /\ Tail(s) \in Seq(Reports)
         /\ AnsweredIn(Tail(s)) => AnsweredIn(s)
         /\ Responds(Head(s)) => AnsweredIn(s)
         /\ OneAnswer(s) => OneAnswer(Tail(s))
         /\ OneAnswer(s) /\ Responds(Head(s)) => ~AnsweredIn(Tail(s))
  <1>1. /\ Head(s) \in Reports /\ Tail(s) \in Seq(Reports)
        /\ DOMAIN s = 1 .. Len(s) /\ Len(s) \in Nat \ {0} /\ Head(s) = s[1]
        /\ DOMAIN Tail(s) = 1 .. Len(s) - 1
        /\ \A i \in 1 .. Len(s) - 1 : Tail(s)[i] = s[i + 1] /\ i + 1 \in 1 .. Len(s)
    OBVIOUS
  <1>2. AnsweredIn(Tail(s)) => AnsweredIn(s)
    BY <1>1 DEF AnsweredIn
  <1>3. Responds(Head(s)) => AnsweredIn(s)
    BY <1>1 DEF AnsweredIn
  <1>4. ASSUME OneAnswer(s) PROVE OneAnswer(Tail(s))
    <2>1. SUFFICES ASSUME NEW i \in 1 .. Len(s) - 1, NEW j \in 1 .. Len(s) - 1,
                          Responds(Tail(s)[i]), Responds(Tail(s)[j])
                   PROVE  i = j
      BY <1>1 DEF OneAnswer
    <2>2. i + 1 = j + 1
      BY <1>1, <1>4, <2>1 DEF OneAnswer
    <2>3. QED
      BY <2>2
  <1>5. ASSUME OneAnswer(s), Responds(Head(s)), AnsweredIn(Tail(s)) PROVE FALSE
    <2>1. PICK i \in 1 .. Len(s) - 1 : Responds(Tail(s)[i])
      BY <1>1, <1>5 DEF AnsweredIn
    <2>2. i + 1 = 1
      BY <1>1, <1>5, <2>1 DEF OneAnswer
    <2>3. QED
      BY <2>2
  <1>6. QED
    BY <1>1, <1>2, <1>3, <1>4, <1>5

(* A socket whose writer is open holds nothing or one request. *)
LEMMA OpenSocket ==
  ASSUME Types, OneRequest, ~ended
  PROVE  toNative = <<>> \/ \E pk \in Packets : toNative = <<pk>>
  <1>1. CASE toNative = <<Eof>>
    <2>1. ~Sent
      BY <1>1, HeadTailOfOne DEF Sent, Packet, Eof
    <2>2. QED
      BY <1>1, <2>1 DEF OneRequest
  <1>2. ASSUME NEW pk \in Packets, toNative = <<pk, Eof>>
        PROVE  FALSE
    <2>1. Tail(toNative) = <<Eof>> /\ <<Eof>> # <<>> /\ toNative # <<>>
      BY <1>2, HeadTailOfOne
    <2>2. QED
      BY <2>1 DEF OneRequest
  <1>3. QED
    BY <1>1, <1>2 DEF Types, WireTypes

(* What a step does to the sockets. *)
LEMMA ReceiveEmits ==
  ASSUME Types, Receive
  PROVE  /\ toNative # <<>> /\ toNative' = Tail(toNative)
         /\ \/ fromNative' = fromNative
            \/ \E r \in Reports : fromNative' = Append(fromNative, r)
                                  /\ (Responds(r) => lua' = lua)
                                  /\ (Responds(r) => Packet.kind # "eof")
         /\ lua' # lua => Packet.kind # "eof"
         /\ device' = "gone" => Packet.kind = "eof"
         /\ UNCHANGED <<call, answer, views, session>>
  <1>1. CASE ReceiveSchedule
    <2>1. Packet \in SchedulePackets
      BY <1>1, ReceivedPacket, PacketKinds DEF ReceiveSchedule, Types
    <2>2. /\ [kind |-> "accepted", id |-> Packet.id] \in Reports
          /\ \A w \in SUBSET Reasons : [kind |-> "rejected", why |-> w] \in Reports
      BY <2>1 DEF SchedulePackets, Reports, Acks, StatusReports
    <2>3. Refusals(queue, Packet.id, Packet.events, now) \in SUBSET Reasons
      BY DEF Refusals, Reasons
    <2>4. \E r \in Reports : fromNative' = Append(fromNative, r)
      BY <1>1, <2>2, <2>3 DEF ReceiveSchedule, Emit
    <2>5. QED
      BY <1>1, <2>4 DEF ReceiveSchedule, Receives, ReceiveFrame
  <1>2. CASE ReceiveCancel
    <2>1. Packet \in CancelPackets
      BY <1>2, ReceivedPacket, PacketKinds DEF ReceiveCancel, Types
    <2>2. /\ [kind |-> "cancelled", id |-> Packet.id] \in Reports
          /\ [kind |-> "rejected", why |-> {"unknown"}] \in Reports
      BY <2>1 DEF CancelPackets, Reports, Acks, StatusReports, Reasons
    <2>3. \E r \in Reports : fromNative' = Append(fromNative, r)
      BY <1>2, <2>2 DEF ReceiveCancel, Emit
    <2>4. QED
      BY <1>2, <2>3 DEF ReceiveCancel, Receives, ReceiveFrame
  <1>3. CASE ReceiveMidi
    BY <1>3 DEF ReceiveMidi, Receives, ReceiveFrame
  <1>4. CASE ReceiveConnection
    <2>1. Packet \in ConnectionPackets
      BY <1>4, ReceivedPacket, PacketKinds DEF ReceiveConnection, Types
    <2> DEFINE r == [kind |-> "connection", port |-> Packet.port, on |-> Packet.on]
    <2>2. r \in Reports /\ ~Responds(r)
      BY <2>1 DEF ConnectionPackets, Reports, PortReports, Responds
    <2>3. fromNative' = fromNative \/ fromNative' = Append(fromNative, r)
      BY <1>4 DEF ReceiveConnection, Emit
    <2>4. QED
      BY <1>4, <2>2, <2>3 DEF ReceiveConnection, Receives, ReceiveFrame
  <1>5. CASE ReceiveAdvance
    BY <1>5 DEF ReceiveAdvance, Receives, ReceiveFrame
  <1>6. CASE ReceiveEnd
    BY <1>6 DEF ReceiveEnd, Receives, ReceiveFrame
  <1>7. QED
    BY <1>1, <1>2, <1>3, <1>4, <1>5, <1>6 DEF Receive

LEMMA ReaderTakes ==
  ASSUME Types, Reader
  PROVE  /\ fromNative # <<>> /\ fromNative' = Tail(fromNative)
         /\ UNCHANGED <<runtime, toNative, call, ended>>
         /\ answer' # answer => Responds(Report) /\ answer' = Report
         /\ errors => errors'
         /\ record' \in Records \cup {NoBatch}
         /\ decoder' \in [Ports -> {"idle", "open"}] /\ gap' \subseteq Ports
         /\ connections' \subseteq Ports /\ reader' \in {"running", "dead"}
         /\ errors' \in BOOLEAN /\ answer' \in Reports \cup {None}
  <1>1. fromNative # <<>> => Report \in Reports
    BY Taking DEF Report, Types, WireTypes
  <1>2. CASE ReadAck
    BY <1>1, <1>2 DEF ReadAck, Reads, Responds, views, Types, ServerTypes
  <1>3. CASE ReadStatus
    <2>1. record # NoBatch => [record EXCEPT !.status = Report.kind] \in Records
      BY <1>3 DEF ReadStatus, Reads, Types, ServerTypes, Records, Statuses
    <2>2. QED
      BY <1>1, <1>3, <2>1 DEF ReadStatus, Reads, ReaderFails, Responds, Types, ServerTypes
  <1>4. CASE ReadConnection
    <2>1. Report.port \in Ports
      BY <1>1, <1>4, ReportKinds DEF ReadConnection, Reads, PortReports
    <2>2. QED
      BY <1>4, <2>1 DEF ReadConnection, Reads, Types, ServerTypes
  <1>5. CASE ReadDelivery
    <2>1. /\ Report.event.port \in Ports /\ Report.event.bytes \in Tokens
          /\ Report.kind \in {"delivered", "dropped"}
      BY <1>1, <1>5, ReportKinds DEF ReadDelivery, Reads, EventReports, Timed
    <2>2. \A d \in {"idle", "open"} : After(d, Report.event.bytes) \in {"idle", "open"}
      BY DEF After
    <2>3. ASSUME record # NoBatch PROVE Recorded \in Records
      <3>1. record \in Records
        BY <2>3 DEF Types, ServerTypes
      <3>2. Append(record.outcomes, Report.kind) \in Seq({"delivered", "dropped"})
        BY <2>1, <3>1, AppendProperties DEF Records
      <3>3. QED
        BY <3>1, <3>2 DEF Recorded, Records, Statuses
    <2>4. CASE ReaderFails
      BY <1>5, <2>4 DEF ReadDelivery, Reads, ReaderFails, Types, ServerTypes
    <2>5. CASE ~ReaderFails
      <3>1. /\ record # NoBatch /\ record' = Recorded
            /\ UNCHANGED <<answer, connections, reader, errors>>
        BY <1>5, <2>5 DEF ReadDelivery, Expected
      <3>2. decoder' \in [Ports -> {"idle", "open"}]
        BY <1>5, <2>1, <2>2, <2>5 DEF ReadDelivery, Types, ServerTypes
      <3>3. gap' \subseteq Ports
        BY <1>5, <2>5 DEF ReadDelivery, Types, ServerTypes
      <3>4. QED
        BY <1>5, <2>3, <3>1, <3>2, <3>3 DEF ReadDelivery, Reads, Types, ServerTypes
    <2>6. QED
      BY <2>4, <2>5
  <1>6. QED
    BY <1>2, <1>3, <1>4, <1>5 DEF Reader

(* A step of the device thread or of the Lua thread that reports an event, *)
(* or reports nothing, leaves the request where it is.                     *)
LEMMA RequestStays ==
  ASSUME Types, OneRequest,
         \/ fromNative' = fromNative
         \/ \E r \in Reports : fromNative' = Append(fromNative, r) /\ ~Responds(r),
         UNCHANGED <<toNative, lua, call, answer, ended>>,
         Settled' => Settled, device' = "gone" => device = "gone"
  PROVE  OneRequest' /\ WireTypes'
  <1>1. /\ fromNative' \in Seq(Reports) /\ (AnsweredIn(fromNative') <=> AnsweredIn(fromNative))
        /\ OneAnswer(fromNative')
    BY Appending DEF Types, WireTypes, OneRequest
  <1>2. QED
    BY <1>1 DEF OneRequest, Answered, Sent, Packet, Types, WireTypes

LEMMA RequestReceived ==
  ASSUME Types, OneRequest, Receive
  PROVE  OneRequest' /\ WireTypes'
  <1>1. /\ toNative # <<>> /\ toNative' = Tail(toNative)
        /\ Tail(toNative) \in {<<>>, <<Eof>>}
    BY ReceiveEmits, SocketShape DEF Types
  <1>2. ~Sent' /\ (toNative' # <<>> => ended)
    <2>1. Head(<<Eof>>).kind = "eof"
      BY HeadTailOfOne DEF Eof
    <2>2. ~Sent'
      BY <1>1, <2>1 DEF Sent, Packet
    <2>3. ASSUME ~ended PROVE toNative' = <<>>
      BY <1>1, <2>3 DEF OneRequest
    <2>4. QED
      BY <2>2, <2>3
  <1>3. Packet.kind # "eof" => Sent /\ lua = None /\ ~Answered /\ ~Settled
    BY <1>1 DEF Sent, OneRequest
  <1>4. Settled' => Settled
    BY ReceiveEmits DEF Settled, session
  <1>5. ended' = ended
    BY ReceiveEmits DEF session
  <1>6. device' = "gone" => toNative' = <<>> /\ ended'
    <2>1. ASSUME Packet.kind = "eof" PROVE ended /\ Tail(toNative) = <<>>
      BY <1>1, <2>1, SocketShape, PacketKinds DEF OneRequest, Sent, Types
    <2>2. QED
      BY <1>1, <1>5, <2>1, ReceiveEmits
  <1>7. CASE fromNative' = fromNative
    <2>1. lua' # None => ~Answered
      BY <1>3, <1>7, ReceiveEmits DEF OneRequest
    <2>2. Settled' => lua' = None /\ ~Answered
      BY <1>3, <1>4, ReceiveEmits DEF OneRequest
    <2>3. QED
      BY <1>1, <1>2, <1>5, <1>6, <1>7, <2>1, <2>2 DEF OneRequest, Answered, WireTypes, Types
  <1>8. ASSUME NEW r \in Reports, fromNative' = Append(fromNative, r),
               Responds(r) => lua' = lua /\ Packet.kind # "eof"
        PROVE  OneRequest' /\ WireTypes'
    <2>1. /\ Append(fromNative, r) \in Seq(Reports)
          /\ AnsweredIn(fromNative') <=> Answered \/ Responds(r)
          /\ (~(Answered /\ Responds(r)) => OneAnswer(fromNative'))
      BY <1>8, Appending DEF Types, WireTypes, OneRequest, Answered
    <2>2. OneAnswer(fromNative')
      BY <1>3, <1>8, <2>1
    <2>3. lua' # None => ~AnsweredIn(fromNative')
      BY <1>3, <1>8, <2>1, ReceiveEmits DEF OneRequest
    <2>4. Settled' => lua' = None /\ ~AnsweredIn(fromNative')
      BY <1>3, <1>4, <1>8, <2>1, ReceiveEmits DEF OneRequest
    <2>5. QED
      BY <1>1, <1>2, <1>5, <1>6, <1>8, <2>1, <2>2, <2>3, <2>4
         DEF OneRequest, Answered, WireTypes
  <1>9. QED
    BY <1>7, <1>8, ReceiveEmits

LEMMA RequestStep ==
  ASSUME Types, OneRequest, [Next]_vars
  PROVE  OneRequest' /\ WireTypes'
  <1>1. ASSUME NEW pk \in Packets, Submits(pk)
        PROVE  OneRequest' /\ WireTypes'
    <2>1. /\ toNative' = <<pk>> /\ answer' = None /\ call' # None /\ lua' = None
          /\ ~ended' /\ ~Answered /\ fromNative' = fromNative /\ device' = device
      BY <1>1, SendsInto DEF Submits, RequestFrame, runtime, session
    <2>2. Sent' /\ Tail(toNative') = <<>> /\ ~Settled'
      BY <2>1, HeadTailOfOne, PacketKinds DEF Sent, Packet, Settled
    <2>3. device # "gone"
      BY <1>1, SendsInto DEF Submits, OneRequest
    <2>4. QED
      BY <2>1, <2>2, <2>3 DEF OneRequest, Answered, WireTypes, Types
  <1>2. CASE EndSession
    <2>1. PICK w : /\ w \in {<<>>} \/ \E pk \in Packets : w = <<pk>>
                   /\ toNative = w /\ toNative' = Append(w, Eof)
      BY <1>2, OpenSocket DEF EndSession, Eof
    <2>2. /\ ended' /\ device' = device
          /\ UNCHANGED <<fromNative, call, answer, lua, errors>>
      BY <1>2 DEF EndSession, runtime
    <2>3. device # "gone"
      BY <1>2 DEF EndSession, OneRequest
    <2>4. CASE w = <<>>
      <3>1. toNative' = <<Eof>> /\ ~Sent'
        BY <2>1, <2>4, HeadTailOfOne DEF Sent, Packet, Eof
      <3>2. QED
        BY <2>1, <2>2, <2>3, <2>4, <3>1 DEF OneRequest, Answered, WireTypes, Types, Settled
    <2>5. ASSUME NEW pk \in Packets, w = <<pk>> PROVE OneRequest' /\ WireTypes'
      <3>1. toNative' = <<pk, Eof>> /\ Head(toNative') = Head(toNative) /\ toNative' # <<>>
        BY <2>1, <2>5, HeadTailOfOne
      <3>2. Sent' = Sent
        BY <2>1, <2>5, <3>1 DEF Sent, Packet
      <3>3. QED
        BY <2>2, <2>3, <2>5, <3>1, <3>2 DEF OneRequest, Answered, WireTypes, Types, Settled
    <2>6. QED
      BY <2>1, <2>4, <2>5
  <1>3. CASE SessionFails \/ Return \/ TimesOut \/ DevicePolls \/ DeviceWakes
             \/ AdvanceMoves \/ Tick \/ UNCHANGED vars
    <2>1. /\ UNCHANGED <<toNative, fromNative, lua, answer, ended>>
          /\ Settled' => Settled
          /\ device' = "gone" => device = "gone"
      BY <1>3 DEF SessionFails, Return, TimesOut, DevicePolls, DeviceWakes,
         AdvanceMoves, Tick, vars, runtime, wire, views, session, Settled
    <2>2. QED
      BY <2>1 DEF OneRequest, Answered, Sent, Packet, Types, WireTypes
  <1>4. CASE DeviceDelivers \/ AdvanceDelivers
    <2>1. Outcome \in Reports /\ ~Responds(Outcome) /\ fromNative' = Append(fromNative, Outcome)
      <3>1. Outcome \in EventReports /\ fromNative' = Append(fromNative, Outcome)
        BY <1>4, DeliverTypes DEF DeviceDelivers, AdvanceDelivers, Types
      <3>2. QED
        BY <3>1 DEF Reports, EventReports, Responds
    <2>2. UNCHANGED <<toNative, lua, call, answer, ended, errors, device>>
      BY <1>4 DEF DeviceDelivers, AdvanceDelivers, Deliver, session
    <2>3. QED
      BY <2>1, <2>2, RequestStays DEF Settled
  <1>5. CASE Receive
    BY <1>5, RequestReceived
  <1>6. CASE Acknowledge
    <2> DEFINE r == [kind |-> "ack"]
    <2>1. /\ lua # None /\ lua' = None /\ fromNative' = Append(fromNative, r)
          /\ UNCHANGED <<toNative, call, answer, ended, errors, device>>
      BY <1>6 DEF Acknowledge, Emit, None, session
    <2>2. r \in Reports
      BY DEF Reports, Acks
    <2>3. ~Sent /\ ~Answered /\ ~Settled /\ ~Sent' /\ ~Settled'
      BY <2>1 DEF OneRequest, Sent, Packet, Settled
    <2>4. OneAnswer(fromNative') /\ fromNative' \in Seq(Reports)
      BY <2>1, <2>2, <2>3, Appending DEF OneRequest, Answered, Types, WireTypes
    <2>5. QED
      BY <2>1, <2>3, <2>4 DEF OneRequest, Types, WireTypes
  <1>7. CASE Reader
    <2>1. /\ fromNative # <<>> /\ fromNative' = Tail(fromNative)
          /\ UNCHANGED <<toNative, lua, device, call, ended>>
      BY <1>7, ReaderTakes DEF runtime
    <2>2. /\ fromNative' \in Seq(Reports) /\ OneAnswer(fromNative')
          /\ AnsweredIn(fromNative') => Answered
          /\ Responds(Report) => Answered /\ ~AnsweredIn(fromNative')
      BY <2>1, Taking DEF Types, WireTypes, OneRequest, Answered, Report
    <2>3. Settled' => ~Sent' /\ lua' = None /\ ~AnsweredIn(fromNative')
      <3>1. CASE answer' = answer
        <4>1. Settled' => Settled
          BY <1>7, <2>1, <3>1, ReaderTakes DEF Settled, Types, ServerTypes
        <4>2. QED
          BY <2>1, <2>2, <4>1 DEF OneRequest, Sent, Packet
      <3>2. CASE answer' # answer
        <4>1. Answered /\ ~AnsweredIn(fromNative')
          BY <1>7, <2>2, <3>2, ReaderTakes
        <4>2. QED
          BY <2>1, <4>1 DEF OneRequest, Sent, Packet
      <3>3. QED
        BY <3>1, <3>2
    <2>4. QED
      BY <2>1, <2>2, <2>3 DEF OneRequest, Answered, Sent, Packet, Types, WireTypes
  <1>8. QED
    BY <1>1, <1>2, <1>3, <1>4, <1>5, <1>6, <1>7, RequestSubmits
       DEF Next, Requests, DeviceThread, LuaThread

LEMMA ServerStep ==
  ASSUME Types, OneRequest, [Next]_vars
  PROVE  ServerTypes'
  <1>1. ASSUME NEW pk \in Packets, Submits(pk) PROVE ServerTypes'
    BY <1>1, SendsInto DEF Submits, RequestFrame, session, Types, ServerTypes
  <1>2. CASE EndSession \/ SessionFails \/ TimesOut
    BY <1>2 DEF EndSession, SessionFails, TimesOut, views, session, Types, ServerTypes, Calls
  <1>3. CASE Return
    <2>1. record' \in Records \cup {NoBatch}
      BY <1>3, CallKinds DEF Return, Types, ServerTypes
    <2>2. decoder' \in [Ports -> {"idle", "open"}] /\ gap' \subseteq Ports
      <3>1. CASE call.kind = "midi"
        <4>1. \A d \in {"idle", "open"} : After(d, call.bytes) \in {"idle", "open"}
          BY DEF After
        <4>2. decoder' \in [Ports -> {"idle", "open"}]
          BY <1>3, <3>1, <4>1, CallKinds DEF Return, Types, ServerTypes
        <4>3. QED
          BY <1>3, <3>1, <4>2 DEF Return, Types, ServerTypes
      <3>2. QED
        BY <1>3, <3>1 DEF Return, Types, ServerTypes
    <2>3. QED
      BY <1>3, <2>1, <2>2 DEF Return, session, Types, ServerTypes, Calls
  <1>4. CASE DeviceThread \/ LuaThread \/ Tick \/ UNCHANGED vars
    <2>1. UNCHANGED <<call, answer, views, session>>
      BY <1>4, ReceiveEmits DEF DeviceThread, LuaThread, Tick, vars, DeviceDelivers,
         AdvanceDelivers, Deliver, DevicePolls, DeviceWakes, Acknowledge, AdvanceMoves
    <2>2. QED
      BY <2>1 DEF views, session, Types, ServerTypes
  <1>5. CASE Reader
    BY <1>5, ReaderTakes DEF Types, ServerTypes
  <1>6. QED
    BY <1>1, <1>2, <1>3, <1>4, <1>5, RequestSubmits DEF Next, Requests
-----------------------------------------------------------------------------
(* The clock and the ports. *)

(* In controlled time nothing of the batch is overdue, and a batch is in   *)
(* order; nothing of it is left when the device thread is gone.            *)
OnTime ==
  /\ Logical /\ Pending(queue) => now <= NextTimed(queue).at
  /\ ~Disordered(queue.events)
  /\ device = "gone" => ~Pending(queue)

(* A port that waits for a start holds no part of a message, and one that  *)
(* is not attached waits for a start.                                      *)
PortsWait ==
  \A p \in Ports : /\ p \in orphan => parser[p] = "idle"
                   /\ p \notin attached => p \in orphan

(* The steps that change the batch, the clock or a port. *)
LEMMA RuntimeMoves ==
  ASSUME Types, OnTime, [Next]_vars
  PROVE  /\ mode' = mode
         /\ \/ UNCHANGED <<queue, heard>>
            \/ Deliver /\ device # "gone" /\ UNCHANGED <<now, device>>
            \/ ReceiveSchedule \/ ReceiveCancel \/ ReceiveEnd
         /\ now' = now \/ (UNCHANGED <<queue, heard, device>> /\ (AdvanceMoves \/ ~Logical))
  <1>1. CASE UNCHANGED runtime
    BY <1>1 DEF runtime
  <1>2. CASE Requests \/ Return \/ TimesOut \/ Reader \/ UNCHANGED vars
    BY <1>1, <1>2 DEF Requests, SubmitSchedule, CancelSchedule, SubmitMidi,
       ChangeConnection, Advance, RequestFrame, EndSession, SessionFails, Return,
       TimesOut, Reader, ReadAck, ReadStatus, ReadConnection, ReadDelivery, Reads, vars
  <1>3. CASE DeviceThread
    BY <1>3 DEF DeviceThread, DeviceDelivers, Deliver, DevicePolls, DeviceWakes, Receive,
       ReceiveSchedule, ReceiveCancel, ReceiveMidi, ReceiveConnection, ReceiveAdvance,
       ReceiveEnd, ReceiveFrame
  <1>4. CASE Acknowledge \/ AdvanceMoves \/ Tick
    BY <1>4 DEF Acknowledge, AdvanceMoves, Tick
  <1>5. CASE AdvanceDelivers
    BY <1>5 DEF AdvanceDelivers, Deliver, Due, OnTime
  <1>6. QED
    BY <1>2, <1>3, <1>4, <1>5 DEF Next, LuaThread
LEMMA OnTimeStep ==
  ASSUME Types, OnTime, [Next]_vars
  PROVE  OnTime'
  <1>1. /\ queue \in Queues /\ queue.cursor \in 0 .. Len(queue.events)
        /\ queue.events \in Seq(Timed) /\ now \in Nat
    BY DEF Types, RuntimeTypes, QueueOK, Queues
  <1>2. CASE UNCHANGED <<queue, now>> /\ (device' = "gone" => device = "gone")
    BY <1>2, RuntimeMoves DEF OnTime, Logical
  <1>3. CASE Deliver /\ UNCHANGED <<now, device>> /\ device # "gone"
    <2>1. /\ Pending(queue) /\ NextTimed(queue).at <= now
          /\ queue' = [id |-> queue.id, lastId |-> queue.lastId,
                       events |-> queue.events, cursor |-> queue.cursor + 1]
      BY <1>3, NextIsTimed DEF Deliver, Due, Types, RuntimeTypes
    <2>2. ASSUME Logical, Pending(queue)' PROVE now <= NextTimed(queue').at
      <3>1. /\ queue.cursor + 1 \in 1 .. Len(queue.events)
            /\ queue.cursor + 2 \in 1 .. Len(queue.events)
        BY <1>1, <2>1, <2>2 DEF Pending
      <3>2. /\ queue.events[queue.cursor + 1].at \in Nat
            /\ queue.events[queue.cursor + 2].at \in Nat
        <4>1. /\ queue.events[queue.cursor + 1] \in Timed
              /\ queue.events[queue.cursor + 2] \in Timed
          BY <1>1, <3>1, ElementOfSeq
        <4>2. QED
          BY <4>1 DEF Timed
      <3>3. queue.events[queue.cursor + 1].at <= queue.events[queue.cursor + 2].at
        <4>1. \A k \in DOMAIN queue.events :
                k > 1 => ~(queue.events[k].at < queue.events[k - 1].at)
          BY DEF OnTime, Disordered
        <4>2. \A n \in Nat : n + 2 \in DOMAIN queue.events
                => ~(queue.events[n + 2].at < queue.events[n + 1].at)
          <5> TAKE n \in Nat
          <5>1. PICK k : k = n + 2
            OBVIOUS
          <5>2. k > 1 /\ k - 1 = n + 1
            BY <5>1
          <5>3. k \in DOMAIN queue.events
                  => ~(queue.events[k].at < queue.events[n + 1].at)
            BY <4>1, <5>2
          <5>4. QED
            BY <5>1, <5>3
        <4>3. queue.cursor + 2 \in DOMAIN queue.events /\ queue.cursor \in Nat
          BY <1>1, <3>1
        <4>4. QED
          BY <3>2, <4>2, <4>3
      <3>4. now <= queue.events[queue.cursor + 1].at
        BY <2>1, <2>2 DEF OnTime, NextTimed
      <3>5. NextTimed(queue') = queue.events[queue.cursor + 2]
        BY <1>1, <2>1 DEF NextTimed
      <3>6. QED
        BY <1>1, <3>2, <3>3, <3>4, <3>5
    <2>3. QED
      BY <1>3, <2>1, <2>2, RuntimeMoves DEF OnTime, Logical
  <1>4. CASE ReceiveSchedule
    <2>1. Packet \in SchedulePackets /\ UNCHANGED now /\ device' = "top"
      BY <1>4, ReceivedPacket, PacketKinds DEF ReceiveSchedule, ReceiveFrame, Types
    <2>2. CASE UNCHANGED queue
      BY <2>1, <2>2, RuntimeMoves DEF OnTime, Logical
    <2>3. CASE /\ queue' = Installed(Packet.id, Packet.events)
               /\ Refusals(queue, Packet.id, Packet.events, now) = {}
      <3>1. ~Late(Packet.events, now) /\ ~Disordered(Packet.events)
        BY <2>3 DEF Refusals
      <3>2. /\ queue'.events = Packet.events /\ queue'.cursor = 0
            /\ Packet.events \in Seq(Timed)
        BY <2>1, <2>3 DEF Installed, SchedulePackets
      <3>3. ASSUME Pending(queue)' PROVE now <= NextTimed(queue').at
        <4>1. 1 \in 1 .. Len(Packet.events) /\ NextTimed(queue') = Packet.events[1]
          BY <3>2, <3>3 DEF Pending, NextTimed
        <4>2. Packet.events[1] \in Timed /\ 1 \in DOMAIN Packet.events
          BY <3>2, <4>1, ElementOfSeq
        <4>3. Packet.events[1].at \in Nat
          BY <4>2 DEF Timed
        <4>4. QED
          BY <1>1, <3>1, <4>1, <4>2, <4>3 DEF Late
      <3>4. QED
        BY <2>1, <3>1, <3>2, <3>3, RuntimeMoves DEF OnTime, Logical
    <2>4. QED
      BY <1>4, <2>2, <2>3 DEF ReceiveSchedule
  <1>5. CASE ReceiveCancel
    <2>1. UNCHANGED now /\ device' = "top" /\ (queue' = queue \/ queue' = Discarded(queue))
      BY <1>5 DEF ReceiveCancel, ReceiveFrame
    <2>2. CASE queue' = Discarded(queue)
      BY <2>1, <2>2, DiscardedQueue, RuntimeMoves DEF OnTime, Logical, Types, RuntimeTypes
    <2>3. QED
      BY <2>1, <2>2, RuntimeMoves DEF OnTime, Logical
  <1>6. CASE ReceiveEnd
    BY <1>6, DiscardedQueue, RuntimeMoves
       DEF ReceiveEnd, ReceiveFrame, OnTime, Logical, Types, RuntimeTypes
  <1>7. CASE UNCHANGED <<queue, device>> /\ AdvanceMoves
    <2>1. Pending(queue) => now' <= NextTimed(queue).at
      BY <1>7 DEF AdvanceMoves
    <2>2. QED
      BY <1>7, <2>1, RuntimeMoves DEF OnTime, Logical
  <1>8. CASE UNCHANGED <<queue, device>> /\ ~Logical
    BY <1>8, RuntimeMoves DEF OnTime, Logical
  <1>9. CASE UNCHANGED <<queue, now>> /\ device' = "gone" /\ device # "gone"
    <2>1. ReceiveEnd
      BY <1>9 DEF Next, vars, runtime, Requests, SubmitSchedule, CancelSchedule, SubmitMidi,
         ChangeConnection, Advance, RequestFrame, EndSession, SessionFails, Return,
         TimesOut, Reader, ReadAck, ReadStatus, ReadConnection, ReadDelivery, Reads,
         DeviceThread, LuaThread, DeviceDelivers, DevicePolls, DeviceWakes, Receive,
         ReceiveSchedule, ReceiveCancel, ReceiveMidi, ReceiveConnection, ReceiveAdvance,
         Acknowledge, AdvanceMoves, AdvanceDelivers, Tick
    <2>2. QED
      BY <1>6, <2>1
  <1>10. QED
    BY <1>2, <1>3, <1>4, <1>5, <1>6, <1>7, <1>8, <1>9, RuntimeMoves

LEMMA ConsumeWaits ==
  ASSUME Types, PortsWait, NEW p \in attached, NEW b \in Tokens, Consume(p, b),
         attached' = attached
  PROVE  PortsWait'
  <1>1. parser \in [Ports -> {"idle", "open"}] /\ p \in Ports /\ attached \subseteq Ports
    BY DEF Types, RuntimeTypes
  <1>2. CASE UNCHANGED <<parser, orphan>>
    BY <1>2 DEF PortsWait
  <1>3. CASE ~Skipped(p \in orphan, b)
    <2>1. parser' = [parser EXCEPT ![p] = After(parser[p], b)]
          /\ orphan' = IF b \in {"start", "whole"} THEN orphan \ {p} ELSE orphan
      BY <1>3 DEF Consume
    <2>2. p \in orphan' => parser[p] = "idle" /\ After(parser[p], b) = "idle"
      BY <1>1, <1>3, <2>1, MidiAssumption DEF Skipped, After, PortsWait
    <2>3. QED
      BY <1>1, <2>1, <2>2 DEF PortsWait
  <1>4. QED
    BY <1>2, <1>3 DEF Consume

LEMMA PortsWaitStep ==
  ASSUME Types, PortsWait, [Next]_vars
  PROVE  PortsWait'
  <1>1. CASE UNCHANGED ports
    BY <1>1 DEF PortsWait, ports
  <1>2. CASE DeviceDelivers \/ AdvanceDelivers
    <2>1. Deliver /\ attached' = attached /\ Pending(queue)
      BY <1>2 DEF DeviceDelivers, AdvanceDelivers, Deliver, Due
    <2>2. NextTimed(queue).bytes \in Tokens
      BY <2>1, NextIsTimed DEF Types, RuntimeTypes, Timed
    <2>3. QED
      BY <1>1, <2>1, <2>2, ConsumeWaits DEF Deliver, ports
  <1>3. CASE ReceiveMidi
    <2>1. Packet \in MidiPackets
      BY <1>3, ReceivedPacket, PacketKinds DEF ReceiveMidi, Types
    <2>2. QED
      BY <1>1, <1>3, <2>1, ConsumeWaits DEF ReceiveMidi, MidiPackets, ports
  <1>4. CASE ReceiveConnection
    <2>1. Packet \in ConnectionPackets
      BY <1>4, ReceivedPacket, PacketKinds DEF ReceiveConnection, Types
    <2>2. CASE Connect(Packet.port, Packet.on)
      <3>1. parser \in [Ports -> {"idle", "open"}] /\ Packet.port \in Ports
        BY <2>1 DEF Types, RuntimeTypes, ConnectionPackets
      <3>2. QED
        BY <2>2, <3>1 DEF Connect, PortsWait
    <2>3. QED
      BY <1>1, <1>4, <2>2 DEF ReceiveConnection
  <1>5. CASE Requests \/ Return \/ TimesOut \/ Reader \/ UNCHANGED vars
    BY <1>1, <1>5 DEF Requests, SubmitSchedule, CancelSchedule, SubmitMidi,
       ChangeConnection, Advance, RequestFrame, EndSession, SessionFails, Return,
       TimesOut, Reader, ReadAck, ReadStatus, ReadConnection, ReadDelivery, Reads, vars,
       runtime
  <1>6. CASE \/ DevicePolls \/ DeviceWakes \/ ReceiveSchedule \/ ReceiveCancel
             \/ ReceiveAdvance \/ ReceiveEnd \/ Acknowledge \/ AdvanceMoves \/ Tick
    BY <1>1, <1>6 DEF DevicePolls, DeviceWakes, ReceiveSchedule, ReceiveCancel,
       ReceiveAdvance, ReceiveEnd, Acknowledge, AdvanceMoves, Tick
  <1>7. QED
    BY <1>2, <1>3, <1>4, <1>5, <1>6 DEF Next, DeviceThread, LuaThread, Receive
-----------------------------------------------------------------------------
Protocol == Types /\ OneRequest /\ OnTime /\ PortsWait

LEMMA InitProtocol == Init => Protocol
  <1> SUFFICES ASSUME Init PROVE Protocol
    OBVIOUS
  <1>1. RuntimeTypes
    BY MidiAssumption DEF Init, RuntimeTypes, QueueOK, Queues, EmptyQueue, Tasks
  <1>2. WireTypes /\ ServerTypes
    <2>1. fromNative \in Seq(Reports)
      BY DEF Init
    <2>2. QED
      BY <2>1 DEF Init, WireTypes, ServerTypes, Calls
  <1>3. OneRequest
    BY DEF Init, OneRequest, Sent, Answered, AnsweredIn, OneAnswer, None
  <1>4. OnTime
    BY DEF Init, OnTime, EmptyQueue, Pending, Disordered
  <1>5. PortsWait
    BY DEF Init, PortsWait
  <1>6. QED
    BY <1>1, <1>2, <1>3, <1>4, <1>5 DEF Protocol, Types

LEMMA NextProtocol ==
  ASSUME Protocol, [Next]_vars PROVE Protocol'
  BY RuntimeStep, RequestStep, ServerStep, OnTimeStep, PortsWaitStep DEF Protocol, Types

(* In every reachable state, for any ports, batches and bounds: types, one *)
(* request under way, nothing overdue in controlled time, and ports that   *)
(* wait for the start of a message after every change of connection.       *)
THEOREM ProtocolKept == Spec => []Protocol
  <1>1. Protocol /\ [Next]_vars => Protocol'
    BY NextProtocol
  <1>2. QED
    BY <1>1, InitProtocol, PTL DEF Spec

(* Every variable keeps its type; in particular the socket never holds     *)
(* more than one request and the end of the stream.                        *)
THEOREM TypeCorrect == Spec => []TypeOK
  <1>1. ASSUME Protocol PROVE TypeOK
    <2>1. Len(toNative) <= 2
      <3>1. \A a, b : Len(<<a>>) = 1 /\ Len(<<a, b>>) = 2
        OBVIOUS
      <3>2. CASE toNative = <<>>
        BY <3>2
      <3>3. ASSUME NEW a, toNative = <<a>> PROVE Len(toNative) <= 2
        <4>1. Len(toNative) = 1
          BY <3>1, <3>3
        <4>2. QED
          BY <4>1
      <3>4. ASSUME NEW a, NEW b, toNative = <<a, b>> PROVE Len(toNative) <= 2
        <4>1. Len(toNative) = 2
          BY <3>1, <3>4
        <4>2. QED
          BY <4>1
      <3>5. QED
        BY <1>1, <3>2, <3>3, <3>4 DEF Protocol, Types, WireTypes
    <2>2. QED
      BY <1>1, <2>1 DEF Protocol, Types, RuntimeTypes, QueueOK, Queues, ServerTypes,
         Records, TypeOK
  <1>2. QED
    BY <1>1, ProtocolKept, PTL

(* A message is never put together from bytes of two attachments.          *)
THEOREM RemovalIsClean == Spec => []NothingSurvivesRemoval
  <1>1. Protocol => NothingSurvivesRemoval
    BY DEF Protocol, PortsWait, NothingSurvivesRemoval
  <1>2. QED
    BY <1>1, ProtocolKept, PTL

(* In controlled time input arrives at its deadline, however time is cut   *)
(* into advances: no advance moves past a deadline, and a batch that was   *)
(* accepted had none in the past.                                          *)
THEOREM DeliveryIsExact == Spec => LogicalDeliveryIsExact
  <1>1. ASSUME Protocol, [Next]_vars
        PROVE  [Logical /\ heard' # heard => NextTimed(queue).at = now]_vars
    <2>1. SUFFICES ASSUME Logical, heard' # heard
                   PROVE  NextTimed(queue).at = now
      OBVIOUS
    <2>2. Deliver
      BY <1>1, <2>1, RuntimeMoves DEF Protocol, ReceiveSchedule, ReceiveCancel, ReceiveEnd
    <2>3. Pending(queue) /\ NextTimed(queue).at <= now /\ now <= NextTimed(queue).at
      BY <1>1, <2>1, <2>2 DEF Deliver, Due, Protocol, OnTime
    <2>4. NextTimed(queue).at \in Nat /\ now \in Nat
      BY <1>1, <2>3, NextIsTimed DEF Protocol, Types, RuntimeTypes, Timed
    <2>5. QED
      BY <2>3, <2>4
  <1>2. QED
    BY <1>1, ProtocolKept, PTL DEF Spec, LogicalDeliveryIsExact

(* Nothing of a batch reaches the application once the device thread has   *)
(* seen the end of the socket, even under an advance that still runs.      *)
THEOREM EndDiscards == Spec => EndDiscardsPending
  <1>1. ASSUME Protocol, [Next]_vars
        PROVE  [device = "gone" => heard' = heard]_vars
    BY <1>1, RuntimeMoves DEF Protocol, ReceiveSchedule, ReceiveCancel, ReceiveEnd, Receives
  <1>2. QED
    BY <1>1, ProtocolKept, PTL DEF Spec, EndDiscardsPending

-----------------------------------------------------------------------------
(***************************************************************************)
(* What the server knows of the runtime, for any ports, batches and bounds.*)
(*                                                                         *)
(* The server decides from copies that reports update, and its reader      *)
(* checks every report against them.  Neither what it decides nor the      *)
(* checks can be right by the copies of this moment alone: reports are on  *)
(* their way.  The invariant speaks of the view that the server will have  *)
(* once it has read them all (Foreseen): each report on the way is one     *)
(* that the reader takes in the view that those before it lead to, and the *)
(* last view agrees with the runtime as it is now (KnowsQueue, KnowsPorts, *)
(* Follows).  A step of the runtime adds a view, a step of the reader      *)
(* removes the first, and the server sends only what the runtime can use   *)
(* in all of them (Serviceable).                                           *)
(***************************************************************************)

Views == [rec : Records \cup {NoBatch}, dec : [Ports -> {"idle", "open"}],
          gap : SUBSET Ports, con : SUBSET Ports]

View == [rec |-> record, dec |-> decoder, gap |-> gap, con |-> connections]

Submitting(b) == b # NoBatch /\ b.status = "submitting"
Active(b) == b # NoBatch /\ b.status \in {"submitting", "accepted"}

Fed(v, r) == r.kind = "delivered" /\ ~Skipped(r.event.port \in v.gap, r.event.bytes)

(* The reader takes report r in view v, and is left with view w. *)
TakesDelivery(v, r, w) ==
  LET p == r.event.port
      bytes == r.event.bytes IN
  /\ v.rec # NoBatch /\ v.rec.status = "accepted" /\ v.rec.id = r.id
  /\ r.index = Len(v.rec.outcomes) /\ r.index < Len(v.rec.events)
  /\ v.rec.events[r.index + 1] = r.event
  /\ r.kind = "delivered" <=> p \in v.con
  /\ Fed(v, r) => Accepts(v.dec[p], bytes)
  /\ w.rec = [v.rec EXCEPT
                !.outcomes = Append(@, r.kind),
                !.status = IF Len(v.rec.outcomes) + 1 = Len(v.rec.events)
                           THEN "completed" ELSE @]
  /\ w.dec = IF Fed(v, r) THEN [v.dec EXCEPT ![p] = After(@, bytes)] ELSE v.dec
  /\ w.gap = IF Fed(v, r) /\ bytes \in {"start", "whole"} THEN v.gap \ {p} ELSE v.gap
  /\ w.con = v.con

TakesConnection(v, r, w) ==
  /\ w.rec = v.rec
  /\ w.dec = [v.dec EXCEPT ![r.port] = "idle"]
  /\ w.gap = v.gap \cup {r.port}
  /\ w.con = IF r.on THEN v.con \cup {r.port} ELSE v.con \ {r.port}

TakesStatus(v, r, w) ==
  /\ v.rec # NoBatch /\ v.rec.id = r.id
  /\ Submitting(v.rec) <=> r.kind = "accepted"
  /\ w.rec = [v.rec EXCEPT !.status = r.kind]
  /\ w.dec = v.dec /\ w.gap = v.gap /\ w.con = v.con

Takes(v, r, w) ==
  /\ r.kind \in {"ack", "rejected"} => w = v
  /\ r.kind \in {"accepted", "cancelled"} => TakesStatus(v, r, w)
  /\ r.kind = "connection" => TakesConnection(v, r, w)
  /\ r.kind \in {"delivered", "dropped"} => TakesDelivery(v, r, w)

(* Reports only take the record of a batch forward. *)
Later(v, w) ==
  /\ v.rec = NoBatch <=> w.rec = NoBatch
  /\ w.rec # NoBatch => /\ v.rec.id = w.rec.id /\ v.rec.events = w.rec.events
                        /\ Len(v.rec.outcomes) <= Len(w.rec.outcomes)
  /\ Active(w.rec) => Active(v.rec)
  /\ Submitting(w.rec) => Submitting(v.rec)

(* The views that lead through the reports s, where the ports of set a are *)
(* attached: a view that does not know it yet has a report of it to come.  *)
Path(V, s, a) ==
  /\ V \in [0 .. Len(s) -> Views]
  /\ \A i \in 1 .. Len(s) : Takes(V[i - 1], s[i], V[i])
  /\ \A i \in 0 .. Len(s) : Later(V[i], V[Len(s)])
  /\ \A i \in 0 .. Len(s) :
       V[i].con = a \/ \E j \in i + 1 .. Len(s) : s[j].kind = "connection"

Leads(u, s, a, v) == \E V : Path(V, s, a) /\ V[0] = u /\ V[Len(s)] = v

Foreseen(v) == Leads(View, fromNative, attached, v)
-----------------------------------------------------------------------------
LEMMA ViewTyped == ServerTypes => View \in Views
  BY DEF ServerTypes, View, Views

LEMMA LaterSelf == \A v : v \in Views => Later(v, v)
  <1> SUFFICES ASSUME NEW v \in Views PROVE Later(v, v)
    OBVIOUS
  <1>1. v.rec # NoBatch => Len(v.rec.outcomes) \in Nat
    BY DEF Views, Records
  <1>2. QED
    BY <1>1 DEF Later

LEMMA TakesForward ==
  ASSUME NEW v \in Views, NEW r \in Reports, NEW w \in Views, Takes(v, r, w)
  PROVE  Later(v, w) /\ (r.kind # "connection" => w.con = v.con)
  <1>0. r.kind \in {"ack", "rejected", "accepted", "cancelled", "connection",
                    "delivered", "dropped"}
    BY DEF Reports, Acks, StatusReports, PortReports, EventReports
  <1>1. CASE r.kind \in {"ack", "rejected"}
    BY <1>1, LaterSelf DEF Takes
  <1>2. CASE r.kind \in {"accepted", "cancelled"}
    <2>1. TakesStatus(v, r, w)
      BY <1>2 DEF Takes
    <2>2. v.rec \in Records
      BY <2>1 DEF TakesStatus, Views
    <2>3. /\ w.rec.id = v.rec.id /\ w.rec.events = v.rec.events
          /\ w.rec.outcomes = v.rec.outcomes /\ w.rec.status = r.kind
          /\ w.rec \in Records
      BY <1>2, <2>1, <2>2 DEF TakesStatus, Records, Statuses
    <2>4. w.rec # NoBatch /\ Len(v.rec.outcomes) \in Nat
      BY <2>2, <2>3, MidiAssumption DEF Records
    <2>5. QED
      BY <1>2, <2>1, <2>3, <2>4 DEF TakesStatus, Later, Active, Submitting
  <1>3. CASE r.kind = "connection"
    <2>1. w.rec = v.rec
      BY <1>3 DEF Takes, TakesConnection
    <2>2. QED
      BY <1>3, <2>1, LaterSelf DEF Later
  <1>4. CASE r.kind \in {"delivered", "dropped"}
    <2>1. TakesDelivery(v, r, w)
      BY <1>4 DEF Takes
    <2>2. v.rec \in Records /\ v.rec.status = "accepted" /\ v.rec # NoBatch
      BY <2>1 DEF TakesDelivery, Views
    <2>3. Append(v.rec.outcomes, r.kind) \in Seq({"delivered", "dropped"})
          /\ Len(Append(v.rec.outcomes, r.kind)) = Len(v.rec.outcomes) + 1
          /\ Len(v.rec.outcomes) \in Nat
      BY <1>4, <2>2, AppendProperties DEF Records
    <2>4. /\ w.rec.id = v.rec.id /\ w.rec.events = v.rec.events
          /\ w.rec.outcomes = Append(v.rec.outcomes, r.kind)
          /\ w.rec.status \in {"completed", "accepted"}
      BY <2>1, <2>2 DEF TakesDelivery, Records
    <2>5. w.rec \in Records
      BY <2>1, <2>2, <2>3 DEF TakesDelivery, Records, Statuses
    <2>6. w.rec # NoBatch
      BY <2>5, MidiAssumption
    <2>7. QED
      BY <2>1, <2>2, <2>3, <2>4, <2>6 DEF TakesDelivery, Later, Active, Submitting
  <1>5. QED
    BY <1>0, <1>1, <1>2, <1>3, <1>4

LEMMA LaterTransitive ==
  ASSUME NEW u \in Views, NEW v \in Views, NEW w \in Views, Later(u, v), Later(v, w)
  PROVE  Later(u, w)
  <1>1. \A x \in {u, v, w} : x.rec # NoBatch => Len(x.rec.outcomes) \in Nat
    BY DEF Views, Records
  <1>2. QED
    BY <1>1 DEF Later

(* A report at the end of a path. *)
LEMMA PathExtends ==
  ASSUME NEW s \in Seq(Reports), NEW r \in Reports, NEW a, NEW b, NEW u, NEW v,
         Leads(u, s, a, v), NEW w \in Views, Takes(v, r, w),
         IF r.kind = "connection" THEN w.con = b ELSE b = a
  PROVE  Leads(u, Append(s, r), b, w)
  <1>0. PICK V : Path(V, s, a) /\ V[0] = u /\ V[Len(s)] = v
    BY DEF Leads
  <1> DEFINE n == Len(s)
             t == Append(s, r)
             W == [i \in 0 .. n + 1 |-> IF i = n + 1 THEN w ELSE V[i]]
  <1>1. /\ n \in Nat /\ Len(t) = n + 1 /\ t[n + 1] = r
        /\ \A i \in 1 .. n : t[i] = s[i]
    BY AppendProperties
  <1>2. V \in [0 .. n -> Views] /\ V[n] \in Views /\ V[n] = v
    BY <1>0, <1>1 DEF Path
  <1>3. /\ W \in [0 .. n + 1 -> Views] /\ W[n + 1] = w
        /\ \A i \in 0 .. n : W[i] = V[i]
    BY <1>1, <1>2
  <1> HIDE DEF n, t, W
  <1>4. ASSUME NEW i \in 1 .. n + 1 PROVE Takes(W[i - 1], t[i], W[i])
    <2>1. CASE i = n + 1
      <3>1. i - 1 = n /\ n \in 0 .. n
        BY <1>1, <2>1
      <3>2. QED
        BY <1>1, <1>3, <2>1, <3>1 DEF n
    <2>2. CASE i # n + 1
      <3>1. i \in 1 .. n /\ i - 1 \in 0 .. n /\ i \in 0 .. n
        BY <1>1, <2>2
      <3>2. Takes(V[i - 1], s[i], V[i])
        BY <1>0, <3>1 DEF Path, n
      <3>3. QED
        BY <1>1, <1>3, <3>1, <3>2
    <2>3. QED
      BY <2>1, <2>2
  <1>5. ASSUME NEW i \in 0 .. n + 1 PROVE Later(W[i], W[n + 1])
    <2>1. CASE i = n + 1
      BY <1>3, <2>1, LaterSelf
    <2>2. CASE i # n + 1
      <3>1. i \in 0 .. n
        BY <1>1, <2>2
      <3>2. Later(V[i], V[n]) /\ V[i] \in Views
        BY <1>0, <1>2, <3>1 DEF Path, n
      <3>3. Later(V[n], w)
        BY <1>2, TakesForward DEF n
      <3>4. QED
        BY <1>2, <1>3, <3>1, <3>2, <3>3, LaterTransitive
    <2>3. QED
      BY <2>1, <2>2
  <1>6. ASSUME NEW i \in 0 .. n + 1
        PROVE  W[i].con = b \/ \E j \in i + 1 .. n + 1 : t[j].kind = "connection"
    <2>1. CASE r.kind = "connection"
      <3>1. CASE i = n + 1
        BY <1>3, <2>1, <3>1
      <3>2. CASE i # n + 1
        <4>1. n + 1 \in i + 1 .. n + 1
          BY <1>1, <3>2
        <4>2. QED
          BY <1>1, <2>1, <4>1
      <3>3. QED
        BY <3>1, <3>2
    <2>2. CASE r.kind # "connection"
      <3>1. V[n].con = a
        <4>1. n + 1 .. n = {} /\ n \in 0 .. n
          BY <1>1
        <4>2. QED
          BY <1>0, <4>1 DEF Path, n
      <3>2. w.con = a /\ b = a
        BY <1>2, <2>2, <3>1, TakesForward DEF n
      <3>3. CASE i = n + 1
        BY <1>3, <3>2, <3>3
      <3>4. CASE i # n + 1
        <4>1. i \in 0 .. n
          BY <1>1, <3>4
        <4>2. V[i].con = a \/ \E j \in i + 1 .. n : s[j].kind = "connection"
          BY <1>0, <4>1 DEF Path, n
        <4>3. \A j \in i + 1 .. n : j \in 1 .. n /\ j \in i + 1 .. n + 1
          BY <1>1, <4>1
        <4>4. QED
          BY <1>1, <1>3, <3>2, <4>1, <4>2, <4>3
      <3>5. QED
        BY <3>3, <3>4
    <2>3. QED
      BY <2>1, <2>2
  <1>7. Path(W, t, b)
    BY <1>1, <1>3, <1>4, <1>5, <1>6 DEF Path
  <1>8. QED
    <2>1. W[0] = u /\ W[Len(t)] = w
      BY <1>0, <1>1, <1>3
    <2>2. QED
      BY <1>7, <2>1 DEF t, Leads

(* The first report of a path. *)
LEMMA PathShifts ==
  ASSUME NEW s \in Seq(Reports), s # <<>>, NEW a, NEW u, NEW v, Leads(u, s, a, v)
  PROVE  \E w \in Views : Takes(u, Head(s), w) /\ Leads(w, Tail(s), a, v)
  <1>0. PICK V : Path(V, s, a) /\ V[0] = u /\ V[Len(s)] = v
    BY DEF Leads
  <1> DEFINE n == Len(s)
             t == Tail(s)
             W == [i \in 0 .. n - 1 |-> V[i + 1]]
  <1>1. /\ n \in Nat \ {0} /\ Len(t) = n - 1 /\ Head(s) = s[1]
        /\ \A i \in 1 .. n - 1 : t[i] = s[i + 1]
    BY HeadTailProperties
  <1>2. V \in [0 .. n -> Views]
    BY <1>0 DEF Path
  <1>3. W \in [0 .. n - 1 -> Views] /\ \A i \in 0 .. n - 1 : W[i] = V[i + 1]
    BY <1>1, <1>2
  <1> HIDE DEF n, t, W
  <1>4. ASSUME NEW i \in 1 .. n - 1 PROVE Takes(W[i - 1], t[i], W[i])
    <2>1. i + 1 \in 1 .. n /\ i - 1 \in 0 .. n - 1 /\ i \in 0 .. n - 1
          /\ i - 1 + 1 = i /\ i + 1 - 1 = i
      BY <1>1
    <2>2. Takes(V[i], s[i + 1], V[i + 1])
      BY <1>0, <2>1 DEF Path, n
    <2>3. QED
      BY <1>1, <1>3, <2>1, <2>2
  <1>5. ASSUME NEW i \in 0 .. n - 1 PROVE Later(W[i], W[n - 1])
    <2>1. i + 1 \in 0 .. n /\ n - 1 \in 0 .. n - 1 /\ n - 1 + 1 = n
      BY <1>1
    <2>2. Later(V[i + 1], V[n])
      BY <1>0, <2>1 DEF Path, n
    <2>3. QED
      BY <1>3, <2>1, <2>2
  <1>6. ASSUME NEW i \in 0 .. n - 1
        PROVE  W[i].con = a \/ \E j \in i + 1 .. n - 1 : t[j].kind = "connection"
    <2>1. i + 1 \in 0 .. n
      BY <1>1
    <2>2. V[i + 1].con = a \/ \E j \in i + 1 + 1 .. n : s[j].kind = "connection"
      BY <1>0, <2>1 DEF Path, n
    <2>3. ASSUME NEW j \in i + 1 + 1 .. n, s[j].kind = "connection"
          PROVE  \E k \in i + 1 .. n - 1 : t[k].kind = "connection"
      <3>1. j - 1 \in i + 1 .. n - 1 /\ j - 1 \in 1 .. n - 1 /\ j - 1 + 1 = j
        BY <1>1, <2>3
      <3>2. t[j - 1] = s[j]
        BY <1>1, <3>1
      <3>3. QED
        BY <2>3, <3>1, <3>2
    <2>4. QED
      BY <1>3, <2>2, <2>3
  <1>7. Path(W, t, a)
    BY <1>1, <1>3, <1>4, <1>5, <1>6 DEF Path
  <1>8. W[0] = V[1] /\ W[Len(t)] = V[n]
    <2>1. 0 \in 0 .. n - 1 /\ n - 1 \in 0 .. n - 1 /\ 0 + 1 = 1 /\ n - 1 + 1 = n
      BY <1>1
    <2>2. QED
      BY <1>1, <1>3, <2>1
  <1>9. V[0] \in Views /\ V[1] \in Views /\ Takes(V[0], Head(s), V[1])
    <2>1. 0 \in 0 .. n /\ 1 \in 0 .. n /\ 1 \in 1 .. n /\ 1 - 1 = 0
      BY <1>1
    <2>2. Takes(V[0], s[1], V[1])
      BY <1>0, <2>1 DEF Path, n
    <2>3. QED
      BY <1>1, <1>2, <2>1, <2>2
  <1>10. QED
    BY <1>0, <1>7, <1>8, <1>9 DEF n, t, Leads
-----------------------------------------------------------------------------
(* What a path says of its views. *)
LEMMA ForeseenFacts ==
  ASSUME Types, NEW v, Foreseen(v)
  PROVE  /\ v \in Views /\ View \in Views /\ v.con = attached /\ Later(View, v)
         /\ fromNative = <<>> => v = View
         /\ (\A i \in DOMAIN fromNative : fromNative[i].kind # "connection")
              => connections = attached
  <1>1. PICK V : Path(V, fromNative, attached) /\ V[0] = View /\ V[Len(fromNative)] = v
    BY DEF Foreseen, Leads
  <1>2. /\ fromNative \in Seq(Reports) /\ Len(fromNative) \in Nat
        /\ DOMAIN fromNative = 1 .. Len(fromNative)
    BY DEF Types, WireTypes
  <1>3. /\ 0 \in 0 .. Len(fromNative) /\ Len(fromNative) \in 0 .. Len(fromNative)
        /\ Len(fromNative) + 1 .. Len(fromNative) = {}
        /\ 0 + 1 .. Len(fromNative) = DOMAIN fromNative
    BY <1>2
  <1>4. v \in Views /\ View \in Views /\ Later(View, v)
    BY <1>1, <1>3 DEF Path
  <1>5. v.con = attached
    BY <1>1, <1>3 DEF Path
  <1>6. fromNative = <<>> => v = View
    BY <1>1
  <1>7. (\A i \in DOMAIN fromNative : fromNative[i].kind # "connection")
          => connections = attached
    <2>1. View.con = connections
      BY DEF View
    <2>2. QED
      BY <1>1, <1>3, <2>1 DEF Path
  <1>8. QED
    BY <1>4, <1>5, <1>6, <1>7

(* The reader takes the first report.                                      *)
LEMMA ForeseenShifts ==
  ASSUME Types, NEW v, Foreseen(v), fromNative # <<>>
  PROVE  \E u \in Views :
           /\ Takes(View, Report, u)
           /\ fromNative' = Tail(fromNative) /\ attached' = attached /\ View' = u
                => Foreseen(v)'
  <1>1. fromNative \in Seq(Reports)
    BY DEF Types, WireTypes
  <1>2. PICK u \in Views :
          Takes(View, Head(fromNative), u) /\ Leads(u, Tail(fromNative), attached, v)
    BY <1>1, PathShifts DEF Foreseen
  <1>3. QED
    BY <1>2 DEF Foreseen, Report

(* A view stays foreseen in a step that touches neither reports nor ports, *)
(* and is replaced by what a report of the step makes of it.               *)
LEMMA ForeseenSame ==
  ASSUME NEW v, Foreseen(v),
         UNCHANGED <<fromNative, attached, record, decoder, gap, connections>>
  PROVE  Foreseen(v)'
  BY DEF Foreseen, View

LEMMA ForeseenExtends ==
  ASSUME Types, NEW v, Foreseen(v), NEW r \in Reports, NEW w \in Views, Takes(v, r, w),
         fromNative' = Append(fromNative, r),
         IF r.kind = "connection" THEN w.con = attached' ELSE attached' = attached,
         UNCHANGED <<record, decoder, gap, connections>>
  PROVE  Foreseen(w)'
  <1>1. fromNative \in Seq(Reports) /\ View' = View
    BY DEF Types, WireTypes, View
  <1>2. PICK b : b = attached'
    OBVIOUS
  <1>3. Leads(View, Append(fromNative, r), b, w)
    BY <1>1, <1>2, PathExtends DEF Foreseen
  <1>4. QED
    BY <1>1, <1>2, <1>3 DEF Foreseen

LEMMA ForeseenNow ==
  ASSUME NEW v \in Views, fromNative' = <<>>, View' = v, v.con = attached'
  PROVE  Foreseen(v)'
  <1> DEFINE V == [i \in 0 .. 0 |-> v]
  <1>1. /\ V \in [0 .. 0 -> Views] /\ V[0] = v /\ Len(<<>>) = 0 /\ 1 .. 0 = {}
        /\ \A i \in 0 .. 0 : i = 0
    OBVIOUS
  <1> HIDE DEF V
  <1>2. Path(V, <<>>, attached')
    BY <1>1, LaterSelf DEF Path
  <1>3. /\ Path(V, fromNative', attached') /\ V[0] = View'
        /\ V[Len(fromNative')] = v
    BY <1>1, <1>2
  <1>4. QED
    BY <1>3 DEF Foreseen, Leads
-----------------------------------------------------------------------------
(* What is right of the last view. *)

Frames(e) == e.bytes \in {"start", "end", "whole"}

NoFrame(events, p, from, to) ==
  \A i \in from .. to : ~(Frames(events[i]) /\ events[i].port = p)

(* Decoder.feed has accepted the events of a batch: each after the framing *)
(* event before it on its port, and the first ones in what the view knows  *)
(* of the port, unless its attachment has changed since.                   *)
Chained(events) ==
  \A j, k \in DOMAIN events :
    /\ j < k /\ Frames(events[j]) /\ events[j].port = events[k].port
    /\ NoFrame(events, events[k].port, j + 1, k - 1)
    => Accepts(After("idle", events[j].bytes), events[k].bytes)

Feedable(v, events, cursor) ==
  \A k \in cursor + 1 .. Len(events) :
    NoFrame(events, events[k].port, cursor + 1, k - 1)
      => \/ events[k].port \in v.gap
         \/ Accepts(v.dec[events[k].port], events[k].bytes)

IdOf(b) == IF b = NoBatch THEN 0 ELSE b.id

KnowsQueue(v) ==
  /\ Pending(queue) =>
       /\ v.rec # NoBatch /\ v.rec.id = queue.id /\ v.rec.status = "accepted"
       /\ v.rec.events = queue.events /\ Len(v.rec.outcomes) = queue.cursor
       /\ Chained(queue.events) /\ Feedable(v, queue.events, queue.cursor)
  /\ ~Submitting(v.rec) => IdOf(v.rec) = queue.id

KnowsPorts(v) ==
  \A p \in Ports : /\ p \in v.gap => v.dec[p] = "idle"
                   /\ p \notin v.con => p \in v.gap

(* The decoders follow the parsers; immediate bytes pass the parser before *)
(* their request returns and they pass the decoder.                        *)
Asks(kind) == Sent /\ Packet.kind = kind
Passing == call.kind = "midi" /\ ~Sent

Follows(v) ==
  /\ ~errors => parser = IF Passing
                         THEN [v.dec EXCEPT ![call.port] = After(@, call.bytes)]
                         ELSE v.dec
  /\ Pending(queue) \/ Asks("schedule") => parser = v.dec

(* The request on its way is one that the runtime can serve. *)
Serviceable(v) ==
  /\ Asks("schedule") =>
       /\ ~Pending(queue) /\ fromNative = <<>>
       /\ record = [id |-> Packet.id, status |-> "submitting",
                    events |-> Packet.events, outcomes |-> <<>>]
       /\ Chained(Packet.events) /\ Feedable(v, Packet.events, 0)
  /\ Asks("cancel") => ~Submitting(v.rec)
  /\ Asks("midi") => ~Pending(queue) /\ fromNative = <<>> /\ Packet.port \in attached
  /\ Asks("connection") => ((Packet.port \in attached) <=> ~Packet.on)

Foresight ==
  \E v \in Views : /\ Foreseen(v) /\ KnowsQueue(v) /\ KnowsPorts(v) /\ Follows(v)
                   /\ Serviceable(v)

-----------------------------------------------------------------------------
(* What is right of requests and their answers. *)

Quiet(s) == \A i \in DOMAIN s : s[i].kind # "connection"
AnswersOnly(s) == \A i \in DOMAIN s : Responds(s[i])
AnswersAre(s, kinds) == \A i \in DOMAIN s : Responds(s[i]) => s[i].kind \in kinds
Refusing(s) == \E i \in DOMAIN s : s[i].kind = "rejected"
PortsFirst(s) ==
  \A i, j \in DOMAIN s : s[i].kind = "connection" /\ Responds(s[j]) => i < j

(* A change of connection is reported before it is acknowledged. *)
ConnectionReports ==
  /\ lua = None /\ ~Answered => Quiet(fromNative)
  /\ PortsFirst(fromNative)

RequestPhase ==
  /\ ~errors /\ call.kind # "schedule" => ~Submitting(record)
  /\ call # None /\ Sent => call.kind = Packet.kind

(* A batch that is refused, or may be, has left no trace. *)
Refusable == Sent \/ answer.kind = "rejected" \/ Refusing(fromNative)

SchedulePhase ==
  call.kind = "schedule" =>
    /\ ~Active(call.previous) /\ lua = None
    /\ AnswersAre(fromNative, {"accepted", "rejected"})
    /\ answer.kind \in {"none", "accepted", "rejected"}
    /\ answer.kind = "accepted" => ~Submitting(record)
    /\ Refusable => /\ Submitting(record) /\ ~Pending(queue)
                    /\ AnswersOnly(fromNative) /\ IdOf(call.previous) = queue.id

MidiPhase ==
  call.kind = "midi" =>
    /\ ~Pending(queue) /\ AnswersOnly(fromNative)
    /\ call.port \in connections /\ Accepts(decoder[call.port], call.bytes)
    /\ Sent => Packet.port = call.port /\ Packet.bytes = call.bytes

Phases == ConnectionReports /\ RequestPhase /\ SchedulePhase /\ MidiPhase

Alive == reader = "running" /\ device # "exited"

Knowledge == Protocol /\ Foresight /\ Phases /\ Alive
-----------------------------------------------------------------------------
LEMMA ReportsAppended ==
  ASSUME NEW s \in Seq(Reports), NEW r \in Reports
  PROVE  /\ Quiet(Append(s, r)) <=> Quiet(s) /\ r.kind # "connection"
         /\ AnswersOnly(Append(s, r)) <=> AnswersOnly(s) /\ Responds(r)
         /\ \A kinds : AnswersAre(Append(s, r), kinds)
              <=> AnswersAre(s, kinds) /\ (Responds(r) => r.kind \in kinds)
         /\ Refusing(Append(s, r)) <=> Refusing(s) \/ r.kind = "rejected"
         /\ PortsFirst(s) /\ (r.kind = "connection" => ~AnsweredIn(s))
              => PortsFirst(Append(s, r))
  <1>1. /\ DOMAIN s = 1 .. Len(s) /\ Len(s) \in Nat
        /\ DOMAIN Append(s, r) = 1 .. Len(s) + 1
        /\ \A i \in 1 .. Len(s) : Append(s, r)[i] = s[i]
        /\ Append(s, r)[Len(s) + 1] = r
    OBVIOUS
  <1>2. Quiet(Append(s, r)) <=> Quiet(s) /\ r.kind # "connection"
    BY <1>1 DEF Quiet
  <1>3. AnswersOnly(Append(s, r)) <=> AnswersOnly(s) /\ Responds(r)
    BY <1>1 DEF AnswersOnly
  <1>4. \A kinds : AnswersAre(Append(s, r), kinds)
          <=> AnswersAre(s, kinds) /\ (Responds(r) => r.kind \in kinds)
    BY <1>1 DEF AnswersAre
  <1>5. Refusing(Append(s, r)) <=> Refusing(s) \/ r.kind = "rejected"
    BY <1>1 DEF Refusing
  <1>6. ASSUME PortsFirst(s), r.kind = "connection" => ~AnsweredIn(s)
        PROVE  PortsFirst(Append(s, r))
    <2>1. SUFFICES ASSUME NEW i \in 1 .. Len(s) + 1, NEW j \in 1 .. Len(s) + 1,
                          Append(s, r)[i].kind = "connection", Responds(Append(s, r)[j])
                   PROVE  i < j
      BY <1>1 DEF PortsFirst
    <2>2. CASE i = Len(s) + 1
      <3>1. r.kind = "connection" /\ ~AnsweredIn(s) /\ ~Responds(r)
        BY <1>1, <1>6, <2>1, <2>2 DEF Responds
      <3>2. j \in DOMAIN s /\ Responds(s[j])
        BY <1>1, <2>1, <3>1
      <3>3. QED
        BY <3>1, <3>2 DEF AnsweredIn
    <2>3. CASE i # Len(s) + 1
      BY <1>1, <1>6, <2>1, <2>3 DEF PortsFirst
    <2>4. QED
      BY <2>2, <2>3
  <1>7. QED
    BY <1>2, <1>3, <1>4, <1>5, <1>6

LEMMA ReportsTaken ==
  ASSUME NEW s \in Seq(Reports), s # <<>>
  PROVE  /\ Quiet(s) => Quiet(Tail(s)) /\ Head(s).kind # "connection"
         /\ AnswersOnly(s) => AnswersOnly(Tail(s)) /\ Responds(Head(s))
         /\ \A kinds : AnswersAre(s, kinds) =>
              AnswersAre(Tail(s), kinds) /\ (Responds(Head(s)) => Head(s).kind \in kinds)
         /\ Refusing(s) <=> Refusing(Tail(s)) \/ Head(s).kind = "rejected"
         /\ PortsFirst(s) =>
              PortsFirst(Tail(s)) /\ (Responds(Head(s)) => Quiet(Tail(s)))
         /\ AnsweredIn(s) => AnsweredIn(Tail(s)) \/ Responds(Head(s))
         /\ Refusing(s) => AnsweredIn(s)
  <1>1. /\ DOMAIN s = 1 .. Len(s) /\ Len(s) \in Nat \ {0} /\ Head(s) = s[1]
        /\ DOMAIN Tail(s) = 1 .. Len(s) - 1
        /\ \A i \in 1 .. Len(s) - 1 : Tail(s)[i] = s[i + 1] /\ i + 1 \in 1 .. Len(s)
    OBVIOUS
  <1>2. Quiet(s) => Quiet(Tail(s)) /\ Head(s).kind # "connection"
    BY <1>1 DEF Quiet
  <1>3. AnswersOnly(s) => AnswersOnly(Tail(s)) /\ Responds(Head(s))
    BY <1>1 DEF AnswersOnly
  <1>4. \A kinds : AnswersAre(s, kinds) =>
          AnswersAre(Tail(s), kinds) /\ (Responds(Head(s)) => Head(s).kind \in kinds)
    BY <1>1 DEF AnswersAre
  <1>5. Refusing(s) <=> Refusing(Tail(s)) \/ Head(s).kind = "rejected"
    <2>1. ASSUME NEW i \in DOMAIN s, s[i].kind = "rejected", Head(s).kind # "rejected"
          PROVE  Refusing(Tail(s))
      <3>1. i # 1 /\ i \in 1 .. Len(s)
        BY <1>1, <2>1
      <3>2. i - 1 \in 1 .. Len(s) - 1 /\ i - 1 + 1 = i
        BY <1>1, <3>1
      <3>3. Tail(s)[i - 1] = s[i]
        BY <1>1, <3>2
      <3>4. QED
        BY <1>1, <2>1, <3>2, <3>3 DEF Refusing
    <2>2. Head(s).kind = "rejected" \/ Refusing(Tail(s)) => Refusing(s)
      BY <1>1 DEF Refusing
    <2>3. QED
      BY <2>1, <2>2 DEF Refusing
  <1>6. ASSUME PortsFirst(s)
        PROVE  PortsFirst(Tail(s)) /\ (Responds(Head(s)) => Quiet(Tail(s)))
    <2>1. ASSUME NEW i \in 1 .. Len(s) - 1, NEW j \in 1 .. Len(s) - 1,
                 Tail(s)[i].kind = "connection", Responds(Tail(s)[j])
          PROVE  i < j
      <3>1. i + 1 < j + 1
        BY <1>1, <1>6, <2>1 DEF PortsFirst
      <3>2. QED
        BY <3>1
    <2>2. ASSUME Responds(Head(s)), NEW i \in 1 .. Len(s) - 1,
                 Tail(s)[i].kind = "connection"
          PROVE  FALSE
      <3>1. i + 1 < 1
        BY <1>1, <1>6, <2>2 DEF PortsFirst
      <3>2. QED
        BY <3>1
    <2>3. QED
      BY <1>1, <2>1, <2>2 DEF PortsFirst, Quiet
  <1>7. ASSUME AnsweredIn(s), ~Responds(Head(s)) PROVE AnsweredIn(Tail(s))
    <2>1. PICK i \in DOMAIN s : Responds(s[i])
      BY <1>7 DEF AnsweredIn
    <2>2. i # 1 /\ i \in 1 .. Len(s)
      BY <1>1, <1>7, <2>1
    <2>3. i - 1 \in 1 .. Len(s) - 1 /\ i - 1 + 1 = i
      BY <1>1, <2>2
    <2>4. Tail(s)[i - 1] = s[i]
      BY <1>1, <2>3
    <2>5. QED
      BY <1>1, <2>1, <2>3, <2>4 DEF AnsweredIn
  <1>8. Refusing(s) => AnsweredIn(s)
    BY DEF Refusing, AnsweredIn, Responds
  <1>9. QED
    BY <1>2, <1>3, <1>4, <1>5, <1>6, <1>7, <1>8

(* When nothing is on its way but events, and no batch is active, nothing  *)
(* is on its way.                                                          *)
LEMMA NothingOnTheWay ==
  ASSUME Types, NEW v, Foreseen(v), Quiet(fromNative), ~Answered, ~Reporting
  PROVE  fromNative = <<>>
  <1>1. SUFFICES ASSUME fromNative # <<>> PROVE FALSE
    OBVIOUS
  <1>2. Report \in Reports /\ ~Responds(Report) /\ Report.kind # "connection"
    BY <1>1, ReportsTaken, Taking DEF Types, WireTypes, Answered, Report
  <1>3. Report.kind \in {"delivered", "dropped"}
    BY <1>2 DEF Reports, Acks, StatusReports, PortReports, EventReports, Responds
  <1>4. PICK u \in Views : Takes(View, Report, u)
    BY <1>1, ForeseenShifts
  <1>5. record # NoBatch /\ record.status = "accepted"
    BY <1>3, <1>4 DEF Takes, TakesDelivery, View
  <1>6. QED
    BY <1>5 DEF Reporting

LEMMA AnswersGone ==
  ASSUME Types, AnswersOnly(fromNative), ~Answered
  PROVE  fromNative = <<>>
  <1>1. SUFFICES ASSUME fromNative # <<>> PROVE FALSE
    OBVIOUS
  <1>2. Responds(Head(fromNative))
    BY <1>1, ReportsTaken DEF Types, WireTypes
  <1>3. QED
    BY <1>1, <1>2, Taking DEF Types, WireTypes, Answered
-----------------------------------------------------------------------------
(* A delivery. *)
LEMMA TokenFacts ==
  \A b \in Tokens, d \in {"idle", "open"} :
    /\ After(d, b) \in {"idle", "open"}
    /\ b \in {"start", "end", "whole"} => After(d, b) = After("idle", b)
    /\ b \notin {"start", "end", "whole"} => After(d, b) = d
    /\ Accepts("idle", b) <=> b \notin {"data", "end"}
    /\ b \in {"data", "end"} => After("idle", b) = "idle"
  BY MidiAssumption DEF After, Accepts

(* The view after the report of the delivery of the next event. *)
Reported(v) ==
  LET r == Outcome
      p == r.event.port IN
  [rec |-> [v.rec EXCEPT
              !.outcomes = Append(@, r.kind),
              !.status = IF Len(v.rec.outcomes) + 1 = Len(v.rec.events)
                         THEN "completed" ELSE @],
   dec |-> IF Fed(v, r) THEN [v.dec EXCEPT ![p] = After(@, r.event.bytes)] ELSE v.dec,
   gap |-> IF Fed(v, r) /\ r.event.bytes \in {"start", "whole"}
           THEN v.gap \ {p} ELSE v.gap,
   con |-> v.con]

LEMMA OutcomeFields ==
  ASSUME Types, Pending(queue)
  PROVE  /\ Outcome.event = NextTimed(queue) /\ Outcome.id = queue.id
         /\ Outcome.index = queue.cursor /\ Outcome.kind \in {"delivered", "dropped"}
         /\ Outcome.kind = "delivered" <=> Outcome.event.port \in attached
         /\ Outcome.event.port \in Ports /\ Outcome.event.bytes \in Tokens
         /\ queue.cursor \in Nat /\ queue.events \in Seq(Timed)
         /\ queue.cursor + 1 \in 1 .. Len(queue.events)
         /\ Outcome.event = queue.events[queue.cursor + 1]
  <1>1. NextTimed(queue) \in Timed /\ queue.cursor + 1 \in 1 .. Len(queue.events)
    BY NextIsTimed DEF Types, RuntimeTypes
  <1>2. queue.cursor \in Nat /\ queue.events \in Seq(Timed)
    BY DEF Types, RuntimeTypes, QueueOK, Queues
  <1>3. QED
    BY <1>1, <1>2 DEF Outcome, Timed, NextTimed

(* What the server feeds passes its decoder. *)
LEMMA FedPasses ==
  ASSUME Types, NEW v \in Views, KnowsQueue(v), KnowsPorts(v), Pending(queue)
  PROVE  Fed(v, Outcome) => Accepts(v.dec[Outcome.event.port], Outcome.event.bytes)
  <1> DEFINE p == Outcome.event.port
             b == Outcome.event.bytes
  <1>1. /\ p \in Ports /\ b \in Tokens /\ queue.cursor \in Nat
        /\ queue.cursor + 1 \in queue.cursor + 1 .. Len(queue.events)
        /\ queue.events[queue.cursor + 1] = Outcome.event
    BY OutcomeFields
  <1>2. SUFFICES ASSUME Fed(v, Outcome) PROVE Accepts(v.dec[p], b)
    OBVIOUS
  <1>3. CASE p \in v.gap
    <2>1. v.dec[p] = "idle" /\ b \notin {"data", "end"}
      BY <1>1, <1>2, <1>3 DEF KnowsPorts, Fed, Skipped
    <2>2. QED
      BY <1>1, <2>1, TokenFacts
  <1>4. CASE p \notin v.gap
    <2> DEFINE k == queue.cursor + 1
    <2>1. k .. k - 1 = {} /\ k \in queue.cursor + 1 .. Len(queue.events)
      BY <1>1
    <2>2. queue.events[k].port = p /\ queue.events[k].bytes = b
      BY <1>1
    <2>3. Feedable(v, queue.events, queue.cursor)
      BY DEF KnowsQueue
    <2> HIDE DEF p, b
    <2>4. NoFrame(queue.events, p, k, k - 1)
            => p \in v.gap \/ Accepts(v.dec[p], b)
      BY <2>1, <2>2, <2>3 DEF Feedable
    <2> HIDE DEF k
    <2>5. NoFrame(queue.events, p, k, k - 1)
      BY <2>1 DEF NoFrame
    <2>6. QED
      BY <1>4, <2>4, <2>5
  <1>5. QED
    BY <1>3, <1>4

LEMMA ReportedTaken ==
  ASSUME Types, NEW v \in Views, KnowsQueue(v), KnowsPorts(v), Pending(queue),
         v.con = attached
  PROVE  /\ Reported(v) \in Views /\ Takes(v, Outcome, Reported(v))
         /\ Reported(v).rec \in Records
         /\ Reported(v).rec.id = queue.id /\ Reported(v).rec.events = queue.events
         /\ Len(Reported(v).rec.outcomes) = queue.cursor + 1
         /\ Reported(v).rec.status = IF queue.cursor + 1 = Len(queue.events)
                                     THEN "completed" ELSE "accepted"
  <1>1. /\ v.rec \in Records /\ v.rec # NoBatch /\ v.rec.id = queue.id
        /\ v.rec.status = "accepted" /\ v.rec.events = queue.events
        /\ Len(v.rec.outcomes) = queue.cursor
    BY DEF KnowsQueue, Views
  <1>2. /\ Append(v.rec.outcomes, Outcome.kind) \in Seq({"delivered", "dropped"})
        /\ Len(Append(v.rec.outcomes, Outcome.kind)) = queue.cursor + 1
    BY <1>1, OutcomeFields, AppendProperties DEF Records
  <1>3. /\ Reported(v).rec \in Records
        /\ Reported(v).rec.id = queue.id /\ Reported(v).rec.events = queue.events
        /\ Reported(v).rec.outcomes = Append(v.rec.outcomes, Outcome.kind)
        /\ Reported(v).rec.status = IF queue.cursor + 1 = Len(queue.events)
                                    THEN "completed" ELSE "accepted"
    BY <1>1, <1>2 DEF Reported, Records, Statuses
  <1>4. Reported(v) \in Views
    <2>1. Reported(v).dec \in [Ports -> {"idle", "open"}]
      BY OutcomeFields, TokenFacts DEF Reported, Views
    <2>2. Reported(v).gap \in SUBSET Ports /\ Reported(v).con \in SUBSET Ports
      BY DEF Reported, Views
    <2>3. QED
      BY <1>3, <2>1, <2>2 DEF Reported, Views
  <1>5. TakesDelivery(v, Outcome, Reported(v))
    <2>1. Outcome.kind = "delivered" <=> Outcome.event.port \in v.con
      BY OutcomeFields
    <2>2. /\ Outcome.index = Len(v.rec.outcomes) /\ Outcome.index < Len(v.rec.events)
          /\ v.rec.events[Outcome.index + 1] = Outcome.event
      BY <1>1, OutcomeFields DEF Pending
    <2>3. QED
      BY <1>1, <2>1, <2>2, OutcomeFields, FedPasses DEF TakesDelivery, Reported
  <1>6. Takes(v, Outcome, Reported(v))
    BY <1>5, OutcomeFields DEF Takes
  <1>7. QED
    BY <1>2, <1>3, <1>4, <1>6

(* The parser and the decoder make the same of the event. *)
LEMMA ReportedFollows ==
  ASSUME Types, PortsWait, NEW v \in Views, KnowsQueue(v), KnowsPorts(v), v.con = attached,
         parser = v.dec, Deliver
  PROVE  parser' = Reported(v).dec
  <1> DEFINE p == Outcome.event.port
             b == Outcome.event.bytes
  <1>1. /\ Pending(queue) /\ p \in Ports /\ b \in Tokens
        /\ IF p \in attached THEN Consume(p, b) ELSE UNCHANGED parser
        /\ v.dec \in [Ports -> {"idle", "open"}]
    BY OutcomeFields DEF Deliver, Due, Outcome, Views
  <1>2. CASE p \notin attached
    BY <1>1, <1>2, OutcomeFields DEF Reported, Fed
  <1>3. CASE p \in attached
    <2>1. /\ Outcome.kind = "delivered"
          /\ Reported(v).dec = IF Skipped(p \in v.gap, b) THEN v.dec
                               ELSE [v.dec EXCEPT ![p] = After(v.dec[p], b)]
      BY <1>1, <1>3, OutcomeFields DEF Reported, Fed
    <2>2. parser' = IF Skipped(p \in orphan, b) THEN v.dec
                    ELSE [v.dec EXCEPT ![p] = After(v.dec[p], b)]
      BY <1>1, <1>3 DEF Consume
    <2>3. CASE p \in v.gap /\ b \in {"data", "end"}
      <3>1. v.dec[p] = "idle" /\ After(v.dec[p], b) = "idle"
        BY <1>1, <2>3, TokenFacts DEF KnowsPorts
      <3>2. [v.dec EXCEPT ![p] = After(v.dec[p], b)] = v.dec
        BY <1>1, <3>1
      <3>3. QED
        BY <2>1, <2>2, <3>2
    <2>4. CASE ~(p \in v.gap /\ b \in {"data", "end"})
      <3>1. ~Skipped(p \in v.gap, b)
        BY <2>4 DEF Skipped
      <3>2. Accepts(v.dec[p], b)
        BY <1>1, <2>1, <3>1, FedPasses DEF Fed
      <3>3. ~Skipped(p \in orphan, b)
        BY <1>1, <3>2, TokenFacts DEF Skipped, PortsWait
      <3>4. QED
        BY <2>1, <2>2, <3>1, <3>3
    <2>5. QED
      BY <2>3, <2>4
  <1>4. QED
    BY <1>2, <1>3
LEMMA ReportedPorts ==
  ASSUME Types, NEW v \in Views, KnowsQueue(v), KnowsPorts(v), v.con = attached,
         Pending(queue)
  PROVE  KnowsPorts(Reported(v))
  <1> DEFINE p == Outcome.event.port
             b == Outcome.event.bytes
  <1>1. /\ p \in Ports /\ b \in Tokens /\ v.dec \in [Ports -> {"idle", "open"}]
        /\ Reported(v).con = v.con
        /\ Fed(v, Outcome) => p \in v.con
    BY OutcomeFields DEF Views, Reported, Fed
  <1>2. CASE ~Fed(v, Outcome)
    BY <1>1, <1>2 DEF KnowsPorts, Reported
  <1>3. CASE Fed(v, Outcome) /\ b \in {"start", "whole"}
    <2>1. /\ Reported(v).gap = v.gap \ {p}
          /\ Reported(v).dec = [v.dec EXCEPT ![p] = After(v.dec[p], b)]
      BY <1>3 DEF Reported
    <2>2. QED
      BY <1>1, <1>3, <2>1 DEF KnowsPorts
  <1>4. CASE Fed(v, Outcome) /\ b \notin {"start", "whole"}
    <2>1. /\ Reported(v).gap = v.gap
          /\ Reported(v).dec = [v.dec EXCEPT ![p] = After(v.dec[p], b)]
      BY <1>4 DEF Reported
    <2>2. p \in v.gap => After(v.dec[p], b) = "idle"
      <3>1. p \in v.gap => b \notin {"data", "end"} /\ v.dec[p] = "idle"
        BY <1>1, <1>4 DEF Fed, Skipped, KnowsPorts
      <3>2. QED
        BY <1>1, <1>4, <3>1, TokenFacts
    <2>3. QED
      BY <1>1, <2>1, <2>2 DEF KnowsPorts
  <1>5. QED
    BY <1>2, <1>3, <1>4

(* The rest of the batch passes the decoders as the event has left them:   *)
(* an event that framed is followed by one that it was accepted before, or *)
(* its port has been away since the batch was accepted.                    *)
LEMMA ReportedFeedable ==
  ASSUME Types, NEW v \in Views, KnowsQueue(v), KnowsPorts(v), v.con = attached,
         Pending(queue)
  PROVE  Feedable(Reported(v), queue.events, queue.cursor + 1)
  <1> DEFINE p == Outcome.event.port
             b == Outcome.event.bytes
             c == queue.cursor
             es == queue.events
  <1>1. /\ p \in Ports /\ b \in Tokens /\ v.dec \in [Ports -> {"idle", "open"}]
        /\ c \in Nat /\ es \in Seq(Timed) /\ c + 1 \in 1 .. Len(es)
        /\ es[c + 1] = Outcome.event /\ Len(es) \in Nat /\ DOMAIN es = 1 .. Len(es)
        /\ Outcome.kind = "delivered" <=> p \in v.con
    BY OutcomeFields DEF Views
  <1>2. SUFFICES ASSUME NEW k \in c + 2 .. Len(es), NoFrame(es, es[k].port, c + 2, k - 1)
                 PROVE  \/ es[k].port \in Reported(v).gap
                        \/ Accepts(Reported(v).dec[es[k].port], es[k].bytes)
    <2>1. c + 1 + 1 = c + 2
      BY <1>1
    <2>2. QED
      BY <2>1 DEF Feedable
  <1>3. /\ k \in 1 .. Len(es) /\ k \in c + 1 .. Len(es) /\ c + 1 < k
        /\ es[k].port \in Ports
    <2>1. /\ k \in 1 .. Len(es) /\ k \in c + 1 .. Len(es) /\ c + 1 < k
      BY <1>1, <1>2
    <2>2. es[k] \in Timed
      BY <1>1, <2>1, ElementOfSeq
    <2>3. QED
      BY <2>1, <2>2 DEF Timed
  <1> HIDE DEF c, es
  <1>4. CASE Frames(Outcome.event) /\ p = es[k].port
    <2>1. Accepts(After("idle", b), es[k].bytes)
      <3>1. c + 1 + 1 = c + 2
        BY <1>1
      <3>2. Chained(es)
        BY DEF KnowsQueue, es
      <3>3. NoFrame(es, es[k].port, c + 1 + 1, k - 1)
        BY <1>2, <3>1
      <3>4. QED
        BY <1>1, <1>3, <1>4, <3>2, <3>3 DEF Chained
    <2>2. CASE Fed(v, Outcome)
      <3>1. Reported(v).dec[p] = After("idle", b)
        BY <1>1, <1>4, <2>2, TokenFacts DEF Reported, Frames
      <3>2. QED
        BY <1>4, <2>1, <3>1
    <2>3. CASE ~Fed(v, Outcome)
      <3>1. Reported(v).gap = v.gap
        BY <2>3 DEF Reported
      <3>2. p \in v.gap
        BY <1>1, <2>3 DEF Fed, Skipped, KnowsPorts
      <3>3. QED
        BY <1>4, <3>1, <3>2
    <2>4. QED
      BY <2>2, <2>3
  <1>5. CASE ~(Frames(Outcome.event) /\ p = es[k].port)
    <2>1. \/ es[k].port \in v.gap
          \/ Accepts(v.dec[es[k].port], es[k].bytes)
      <3>1. ASSUME NEW i \in c + 1 .. k - 1
            PROVE  ~(Frames(es[i]) /\ es[i].port = es[k].port)
        <4>1. CASE i = c + 1
          BY <1>1, <1>5, <4>1
        <4>2. CASE i # c + 1
          <5>1. i \in c + 2 .. k - 1
            BY <1>1, <1>3, <3>1, <4>2
          <5>2. QED
            BY <1>2, <5>1 DEF NoFrame
        <4>3. QED
          BY <4>1, <4>2
      <3>2. NoFrame(es, es[k].port, c + 1, k - 1)
        BY <3>1 DEF NoFrame
      <3>3. Feedable(v, es, c)
        BY DEF KnowsQueue, es, c
      <3>4. QED
        BY <1>3, <3>2, <3>3 DEF Feedable
    <2>2. CASE es[k].port # p
      <3>1. /\ Reported(v).dec[es[k].port] = v.dec[es[k].port]
            /\ es[k].port \in v.gap => es[k].port \in Reported(v).gap
        BY <1>1, <1>3, <2>2 DEF Reported
      <3>2. QED
        BY <2>1, <3>1
    <2>3. CASE es[k].port = p
      <3>1. b \notin {"start", "end", "whole"}
        BY <1>5, <2>3 DEF Frames
      <3>2. After(v.dec[p], b) = v.dec[p]
        BY <1>1, <3>1, TokenFacts
      <3>3. Reported(v).dec = v.dec /\ Reported(v).gap = v.gap
        BY <1>1, <3>1, <3>2 DEF Reported
      <3>4. QED
        BY <2>1, <3>3
    <2>4. QED
      BY <2>2, <2>3
  <1>6. QED
    BY <1>4, <1>5

LEMMA DeliverForesees ==
  ASSUME Types, PortsWait, Foresight, MidiPhase, Deliver,
         UNCHANGED toNative
  PROVE  Foresight'
  <1>1. PICK v \in Views : /\ Foreseen(v) /\ KnowsQueue(v) /\ KnowsPorts(v) /\ Follows(v)
                           /\ Serviceable(v)
    BY DEF Foresight
  <1>2. /\ Pending(queue) /\ fromNative' = Append(fromNative, Outcome)
        /\ Outcome \in Reports /\ Outcome.kind \in {"delivered", "dropped"}
        /\ queue' = [id |-> queue.id, lastId |-> queue.lastId,
                     events |-> queue.events, cursor |-> queue.cursor + 1]
        /\ UNCHANGED <<attached, call, record, decoder, gap, connections, errors>>
    <2>1. Pending(queue) /\ QueueOK
      BY DEF Deliver, Due, Types, RuntimeTypes
    <2>2. Outcome \in EventReports /\ fromNative' = Append(fromNative, Outcome)
      BY DeliverTypes DEF Types
    <2>3. QED
      BY <2>1, <2>2, OutcomeFields, NextIsTimed
         DEF Deliver, Reports, views, session
  <1>3. v.con = attached /\ parser = v.dec
    BY <1>1, <1>2, ForeseenFacts DEF Follows
  <1>4. PICK w : w = Reported(v)
    OBVIOUS
  <1>5. w \in Views /\ Takes(v, Outcome, w) /\ Foreseen(w)'
    <2>1. w \in Views /\ Takes(v, Outcome, w)
      BY <1>1, <1>2, <1>3, <1>4, ReportedTaken
    <2>2. QED
      BY <1>1, <1>2, <2>1, ForeseenExtends
  <1>6. KnowsPorts(w)'
    <2>1. KnowsPorts(w)
      BY <1>1, <1>2, <1>3, <1>4, ReportedPorts
    <2>2. QED
      BY <2>1 DEF KnowsPorts
  <1>7. /\ w.rec # NoBatch /\ w.rec.id = queue.id /\ w.rec.events = queue.events
        /\ Len(w.rec.outcomes) = queue.cursor + 1
        /\ w.rec.status = IF queue.cursor + 1 = Len(queue.events)
                          THEN "completed" ELSE "accepted"
    BY <1>1, <1>2, <1>3, <1>4, ReportedTaken, MidiAssumption
  <1>8. KnowsQueue(w)'
    <2>1. Feedable(w, queue.events, queue.cursor + 1)
      BY <1>1, <1>2, <1>3, <1>4, ReportedFeedable
    <2>2. Chained(queue.events)
      BY <1>1, <1>2 DEF KnowsQueue
    <2>3. /\ queue'.id = queue.id /\ queue'.events = queue.events
          /\ queue'.cursor = queue.cursor + 1
      BY <1>2
    <2>4. Pending(queue)' => queue.cursor + 1 # Len(queue.events)
      <3>1. queue.cursor + 1 \in Nat /\ Len(queue.events) \in Nat
        BY <1>2, OutcomeFields
      <3>2. QED
        BY <2>3, <3>1 DEF Pending
    <2>5. QED
      BY <1>7, <2>1, <2>2, <2>3, <2>4 DEF KnowsQueue, IdOf
  <1>9. Follows(w)'
    <2>1. parser' = w.dec
      BY <1>1, <1>2, <1>3, <1>4, ReportedFollows
    <2>2. ~Passing'
      BY <1>2 DEF MidiPhase, Passing
    <2>3. QED
      BY <2>1, <2>2 DEF Follows
  <1>10. Serviceable(w)'
    <2>1. ~Asks("schedule")' /\ ~Asks("midi")' /\ Packet' = Packet
          /\ (Asks("connection")' => Asks("connection"))
      BY <1>1, <1>2 DEF Serviceable, Asks, Sent, Packet
    <2>2. ~Submitting(w.rec)
      BY <1>7 DEF Submitting
    <2>3. QED
      BY <1>1, <1>2, <2>1, <2>2 DEF Serviceable
  <1>11. QED
    BY <1>5, <1>6, <1>8, <1>9, <1>10 DEF Foresight
-----------------------------------------------------------------------------
(* What the server admits. *)
LEMMA FeedsChain ==
  ASSUME Types, NEW b \in Batches, Feeds(b)
  PROVE  Chained(Planned(b)) /\ Feedable(View, Planned(b), 0)
  <1>0. b \in Seq([after : Nat, port : Ports, bytes : Tokens])
    BY MidiAssumption
  <1>1. Len(b) \in Nat /\ DOMAIN b = 1 .. Len(b)
    BY <1>0
  <1> DEFINE es == Planned(b)
  <1>2. /\ es \in Seq(Timed) /\ DOMAIN es = DOMAIN b
        /\ \A k \in DOMAIN b : es[k].port = b[k].port /\ es[k].bytes = b[k].bytes
    BY PlannedTypes DEF Planned
  <1>3. Len(es) = Len(b)
    BY <1>1, <1>2
  <1> HIDE DEF es
  <1>4. ASSUME NEW j \in DOMAIN es, NEW k \in DOMAIN es, j < k, Frames(es[j]),
               es[j].port = es[k].port, NoFrame(es, es[k].port, j + 1, k - 1)
        PROVE  Accepts(After("idle", es[j].bytes), es[k].bytes)
    <2> DEFINE framing == {i \in 1 .. k - 1 : /\ b[i].port = b[k].port
                                              /\ b[i].bytes \in {"start", "end", "whole"}}
    <2>1. /\ j \in 1 .. k - 1 /\ k \in 1 .. Len(b) /\ j \in Int /\ k \in Int
          /\ \A i \in 1 .. k - 1 : i \in DOMAIN b
      BY <1>1, <1>2, <1>4
    <2>2. j \in framing
      BY <1>2, <1>4, <2>1 DEF Frames
    <2>3. \A i \in framing : i <= j
      <3>1. SUFFICES ASSUME NEW i \in framing, ~(i <= j) PROVE FALSE
        OBVIOUS
      <3>2. i \in j + 1 .. k - 1 /\ i \in DOMAIN b
        BY <2>1, <3>1
      <3>3. Frames(es[i]) /\ es[i].port = es[k].port
        BY <1>2, <2>1, <3>1, <3>2 DEF Frames
      <3>4. QED
        BY <1>4, <3>2, <3>3 DEF NoFrame
    <2>4. Max(framing) = j
      <3>1. \A x \in framing : x \in Int /\ ((\A y \in framing : x >= y) <=> x = j)
        BY <2>1, <2>2, <2>3
      <3> HIDE DEF framing
      <3>2. QED
        BY <2>2, <3>1 DEF Max
    <2>5. StateBefore(b, k) = After("idle", b[j].bytes)
      BY <2>2, <2>4 DEF StateBefore
    <2>6. Accepts(StateBefore(b, k), b[k].bytes)
      BY <1>2 DEF Feeds
    <2>7. QED
      BY <1>2, <2>5, <2>6
  <1>5. ASSUME NEW k \in 1 .. Len(es), NoFrame(es, es[k].port, 1, k - 1)
        PROVE  Accepts(View.dec[es[k].port], es[k].bytes)
    <2> DEFINE framing == {i \in 1 .. k - 1 : /\ b[i].port = b[k].port
                                              /\ b[i].bytes \in {"start", "end", "whole"}}
    <2>1. k \in DOMAIN b /\ \A i \in 1 .. k - 1 : i \in DOMAIN b
      BY <1>1, <1>3
    <2>2. framing = {}
      BY <1>2, <1>5, <2>1 DEF NoFrame, Frames
    <2>3. StateBefore(b, k) = decoder[b[k].port]
      BY <2>2 DEF StateBefore
    <2>4. Accepts(StateBefore(b, k), b[k].bytes)
      BY <2>1 DEF Feeds
    <2>5. QED
      BY <1>2, <2>1, <2>3, <2>4 DEF View
  <1>6. Chained(es)
    BY <1>4 DEF Chained
  <1>7. Feedable(View, es, 0)
    <2>1. 0 + 1 = 1
      OBVIOUS
    <2>2. QED
      BY <1>5, <2>1 DEF Feedable
  <1>8. QED
    BY <1>6, <1>7 DEF es

(* A request that is sent finds no answer and no change of connection on   *)
(* its way, and no batch that has not been answered.                       *)
LEMMA SendsWhenSettled ==
  ASSUME Knowledge, NEW pk \in Packets, Submits(pk),
         NEW v \in Views, Foreseen(v), KnowsQueue(v), Follows(v)
  PROVE  /\ ~Sent /\ Sent' /\ Packet' = pk /\ call.kind = "none" /\ lua = None
         /\ toNative' = <<pk>> /\ ~errors /\ ~Answered
         /\ UNCHANGED <<runtime, fromNative, decoder, gap, connections, reader, session>>
         /\ connections = attached /\ parser = v.dec /\ ~Passing'
         /\ ~Submitting(record) /\ ~Submitting(v.rec)
         /\ ~Reporting => fromNative = <<>> /\ v = View /\ ~Pending(queue)
  <1>0. Types /\ OneRequest /\ Phases
    BY DEF Knowledge, Protocol
  <1>1. /\ toNative = <<>> /\ toNative' = <<pk>> /\ call = None
        /\ ~errors /\ lua = None /\ ~Answered
    BY <1>0, SendsInto DEF Submits
  <1>2. ~Sent /\ Sent' /\ Packet' = pk
    BY <1>1, HeadTailOfOne, PacketKinds DEF Sent, Packet
  <1>3. UNCHANGED <<runtime, fromNative, decoder, gap, connections, reader, session>>
    BY DEF Submits, RequestFrame
  <1>4. Quiet(fromNative) /\ call.kind = "none"
    BY <1>0, <1>1 DEF Phases, ConnectionReports, None
  <1>5. connections = attached /\ parser = v.dec
    <2>1. connections = attached
      BY <1>0, <1>4, ForeseenFacts DEF Quiet
    <2>2. ~Passing
      BY <1>4 DEF Passing
    <2>3. QED
      BY <1>1, <2>1, <2>2 DEF Follows
  <1>6. ~Submitting(record) /\ ~Submitting(v.rec)
    <2>1. ~Submitting(record)
      BY <1>0, <1>1, <1>4 DEF Phases, RequestPhase
    <2>2. QED
      BY <1>0, <2>1, ForeseenFacts DEF Later, View
  <1>7. ASSUME ~Reporting PROVE fromNative = <<>> /\ v = View /\ ~Pending(queue)
    <2>1. fromNative = <<>> /\ v = View
      BY <1>0, <1>1, <1>4, <1>7, NothingOnTheWay, ForeseenFacts
    <2>2. QED
      BY <1>7, <2>1 DEF KnowsQueue, View, Reporting
  <1>8. QED
    BY <1>1, <1>2, <1>3, <1>4, <1>5, <1>6, <1>7 DEF Passing
-----------------------------------------------------------------------------
(* Steps of the server. *)
LEMMA ScheduleForesees ==
  ASSUME Knowledge, NEW pk \in Packets, Submits(pk), pk.kind = "schedule"
  PROVE  Foresight'
  <1>1. PICK v \in Views : /\ Foreseen(v) /\ KnowsQueue(v) /\ KnowsPorts(v) /\ Follows(v)
                           /\ Serviceable(v)
    BY DEF Knowledge, Foresight
  <1>2. /\ Sent' /\ Packet' = pk /\ ~errors /\ ~Passing'
        /\ UNCHANGED <<runtime, fromNative, decoder, gap, connections, errors>>
        /\ connections = attached /\ parser = v.dec
    BY <1>1, SendsWhenSettled DEF session
  <1>3. /\ fromNative = <<>> /\ v = View /\ ~Pending(queue)
        /\ record' \in Records
        /\ record' = [id |-> pk.id, status |-> "submitting", events |-> pk.events,
                      outcomes |-> <<>>]
        /\ Chained(pk.events) /\ Feedable(View, pk.events, 0)
    <2>1. /\ ~Reporting /\ record' \in Records \cup {NoBatch}
          /\ \E b \in Batches : Feeds(b) /\ pk.events = Planned(b)
          /\ record' = [id |-> pk.id, status |-> "submitting", events |-> pk.events,
                        outcomes |-> <<>>]
      BY DEF Submits, Admissible
    <2>2. Chained(pk.events) /\ Feedable(View, pk.events, 0)
      BY <2>1, FeedsChain DEF Knowledge, Protocol
    <2>3. record' \in Records
      <3>1. pk \in SchedulePackets
        BY PacketKinds
      <3>2. QED
        BY <2>1, <3>1 DEF SchedulePackets, Records, Statuses
    <2>4. QED
      BY <1>1, <2>1, <2>2, <2>3, SendsWhenSettled
  <1>4. PICK w : w = [rec |-> record', dec |-> decoder, gap |-> gap, con |-> connections]
    OBVIOUS
  <1>5. w \in Views /\ w = View' /\ w.dec = v.dec /\ w.gap = v.gap /\ w.con = v.con
    BY <1>1, <1>2, <1>3, <1>4 DEF View, Views
  <1>6. Foreseen(w)'
    <2>1. w.con = attached'
      BY <1>2, <1>4 DEF runtime, ports
    <2>2. QED
      BY <1>2, <1>3, <1>5, <2>1, ForeseenNow
  <1>7. KnowsQueue(w)' /\ KnowsPorts(w)' /\ Follows(w)'
    <2>1. Submitting(w.rec)
      BY <1>3, <1>4, MidiAssumption DEF Submitting
    <2>2. ~Pending(queue)' /\ parser' = w.dec
      BY <1>2, <1>3, <1>5 DEF runtime, ports
    <2>3. QED
      BY <1>1, <1>2, <1>5, <2>1, <2>2 DEF KnowsQueue, KnowsPorts, Follows
  <1>8. Serviceable(w)'
    <2>1. Feedable(w, pk.events, 0)
      BY <1>3, <1>5 DEF Feedable
    <2>2. ~Pending(queue)'
      BY <1>2, <1>3 DEF runtime
    <2>3. QED
      BY <1>2, <1>3, <2>1, <2>2 DEF Serviceable, Asks
  <1>9. QED
    BY <1>5, <1>6, <1>7, <1>8 DEF Foresight

LEMMA RequestForesees ==
  ASSUME Knowledge, NEW pk \in Packets, Submits(pk), pk.kind # "schedule"
  PROVE  Foresight'
  <1>1. PICK v \in Views : /\ Foreseen(v) /\ KnowsQueue(v) /\ KnowsPorts(v) /\ Follows(v)
                           /\ Serviceable(v)
    BY DEF Knowledge, Foresight
  <1>2. /\ Sent' /\ Packet' = pk /\ ~errors /\ ~Passing'
        /\ UNCHANGED <<queue, attached, parser, fromNative, decoder, gap, connections, errors>>
        /\ connections = attached /\ parser = v.dec /\ ~Submitting(v.rec)
        /\ ~Reporting => fromNative = <<>> /\ ~Pending(queue)
    BY <1>1, SendsWhenSettled DEF session, runtime, ports
  <1>3. record' = record /\ Admissible(pk)
    BY DEF Submits, Admissible
  <1>4. Foreseen(v)'
    BY <1>1, <1>2, <1>3, ForeseenSame
  <1>5. KnowsQueue(v)' /\ KnowsPorts(v)' /\ Follows(v)'
    BY <1>1, <1>2 DEF KnowsQueue, KnowsPorts, Follows
  <1>6. Serviceable(v)'
    BY <1>2, <1>3 DEF Serviceable, Asks, Admissible
  <1>7. QED
    BY <1>4, <1>5, <1>6 DEF Foresight

LEMMA SubmitPhases ==
  ASSUME Knowledge, NEW pk \in Packets, Submits(pk)
  PROVE  Phases'
  <1>1. PICK v \in Views : Foreseen(v) /\ KnowsQueue(v) /\ Follows(v)
    BY DEF Knowledge, Foresight
  <1>2. /\ Sent' /\ Packet' = pk /\ ~errors /\ lua = None /\ ~Answered /\ call'.kind = pk.kind
        /\ UNCHANGED <<queue, lua, fromNative, decoder, connections, errors>>
        /\ ~Submitting(record) /\ call' # None /\ Admissible(pk) /\ answer' = None
        /\ ~Reporting => fromNative = <<>> /\ v = View /\ ~Pending(queue)
    <2>1. answer' = None
      BY SendsInto DEF Submits, Knowledge, Protocol
    <2>2. QED
      BY <1>1, <2>1, SendsWhenSettled DEF Submits, session, runtime
  <1>3. ConnectionReports'
    BY <1>2 DEF Knowledge, Phases, ConnectionReports, Answered
  <1>4. RequestPhase'
    BY <1>2 DEF RequestPhase, Admissible
  <1>5. CASE pk.kind = "schedule"
    <2>1. /\ ~Reporting /\ call'.previous = record /\ Submitting(record')
      <3>1. record' # NoBatch /\ record'.status = "submitting"
        <4>1. pk \in SchedulePackets
          BY <1>5, PacketKinds
        <4>2. record' \in Records
          <5>1. record' = [id |-> pk.id, status |-> "submitting", events |-> pk.events,
                           outcomes |-> <<>>]
            BY <1>2, <1>5 DEF Admissible
          <5>2. QED
            BY <4>1, <5>1 DEF SchedulePackets, Records, Statuses
        <4>3. QED
          BY <1>2, <1>5, <4>2, MidiAssumption DEF Admissible
      <3>2. QED
        BY <1>2, <1>5, <3>1 DEF Admissible, Submitting
    <2>2. IdOf(record) = queue.id
      BY <1>1, <1>2, <2>1 DEF KnowsQueue, View
    <2>3. SchedulePhase'
      BY <1>2, <2>1, <2>2
         DEF SchedulePhase, Reporting, Active, AnswersAre, AnswersOnly, None
    <2>4. QED
      BY <1>2, <1>3, <1>4, <1>5, <2>3 DEF Phases, MidiPhase
  <1>6. CASE pk.kind = "midi"
    <2>1. MidiPhase'
      BY <1>2, <1>6 DEF MidiPhase, Admissible, AnswersOnly
    <2>2. QED
      BY <1>2, <1>3, <1>4, <1>6, <2>1 DEF Phases, SchedulePhase
  <1>7. CASE pk.kind \notin {"schedule", "midi"}
    BY <1>2, <1>3, <1>4, <1>7 DEF Phases, SchedulePhase, MidiPhase
  <1>8. QED
    BY <1>5, <1>6, <1>7

(* Steps that leave views, reports and ports alone. *)
KeepsRequest == (Sent' <=> Sent) /\ (Sent => Packet' = Packet)

LEMMA QuietForesees ==
  ASSUME Foresight,
         UNCHANGED <<queue, attached, parser, fromNative, record, decoder, gap, connections>>,
         errors => errors', KeepsRequest,
         ~errors' => /\ Passing' <=> Passing
                     /\ Passing => call' = call
  PROVE  Foresight'
  <1>1. PICK v \in Views : /\ Foreseen(v) /\ KnowsQueue(v) /\ KnowsPorts(v) /\ Follows(v)
                           /\ Serviceable(v)
    BY DEF Foresight
  <1>2. Foreseen(v)'
    BY <1>1, ForeseenSame
  <1>3. KnowsQueue(v)' /\ KnowsPorts(v)'
    BY <1>1 DEF KnowsQueue, KnowsPorts
  <1>4. \A kind : Asks(kind)' <=> Asks(kind)
    BY DEF Asks, KeepsRequest
  <1>5. Asks("schedule") \/ Asks("midi") \/ Asks("connection") => Packet' = Packet
    BY DEF Asks, KeepsRequest
  <1>6. Follows(v)'
    BY <1>1, <1>4 DEF Follows
  <1>7. Serviceable(v)'
    BY <1>1, <1>4, <1>5 DEF Serviceable
  <1>8. QED
    BY <1>2, <1>3, <1>6, <1>7 DEF Foresight

LEMMA QuietPhases ==
  ASSUME Phases,
         UNCHANGED <<queue, lua, fromNative, record, decoder, connections>>,
         errors => errors', KeepsRequest,
         \/ UNCHANGED <<call, answer>>
         \/ call' = None /\ (errors' \/ call.kind # "schedule" \/ ~Submitting(record))
  PROVE  Phases'
  <1>1. ConnectionReports'
    BY DEF Phases, ConnectionReports, Answered
  <1>2. CASE UNCHANGED <<call, answer>>
    BY <1>1, <1>2 DEF Phases, RequestPhase, SchedulePhase, MidiPhase, Refusable, KeepsRequest
  <1>3. CASE call' = None /\ (errors' \/ call.kind # "schedule" \/ ~Submitting(record))
    <2>1. call'.kind = "none"
      BY <1>3 DEF None
    <2>2. RequestPhase'
      BY <1>3 DEF Phases, RequestPhase
    <2>3. QED
      BY <1>1, <2>1, <2>2 DEF Phases, SchedulePhase, MidiPhase
  <1>4. QED
    BY <1>2, <1>3

LEMMA EndKeepsRequest ==
  ASSUME Types, OneRequest, EndSession
  PROVE  KeepsRequest
  <1>1. PICK w : /\ w \in {<<>>} \/ \E pk \in Packets : w = <<pk>>
                 /\ toNative = w /\ toNative' = Append(w, Eof)
    BY OpenSocket DEF EndSession, Eof
  <1>2. CASE w = <<>>
    <2>1. toNative' = <<Eof>> /\ toNative = <<>>
      BY <1>1, <1>2, HeadTailOfOne
    <2>2. ~Sent' /\ ~Sent
      BY <2>1, HeadTailOfOne DEF Sent, Packet, Eof
    <2>3. QED
      BY <2>2 DEF KeepsRequest
  <1>3. ASSUME NEW pk \in Packets, w = <<pk>>
        PROVE  KeepsRequest
    <2>1. toNative' = <<pk, Eof>> /\ Head(toNative') = Head(toNative)
          /\ toNative' # <<>> /\ toNative # <<>>
      BY <1>1, <1>3, HeadTailOfOne
    <2>2. QED
      BY <2>1 DEF Sent, Packet, KeepsRequest
  <1>4. QED
    BY <1>1, <1>2, <1>3

LEMMA QuietSteps ==
  ASSUME Knowledge,
         \/ EndSession \/ SessionFails \/ TimesOut \/ DevicePolls \/ DeviceWakes
         \/ AdvanceMoves \/ Tick \/ UNCHANGED vars
  PROVE  Foresight' /\ Phases'
  <1>1. CASE EndSession
    <2>1. /\ UNCHANGED <<queue, attached, parser, lua, fromNative, call, answer, record,
                         decoder, gap, connections, errors>>
          /\ KeepsRequest
      BY <1>1, EndKeepsRequest DEF EndSession, runtime, ports, views, Knowledge, Protocol
    <2>2. Passing' <=> Passing
      BY <2>1 DEF Passing, KeepsRequest
    <2>3. QED
      BY <2>1, <2>2, QuietForesees, QuietPhases DEF Knowledge
  <1>2. CASE SessionFails \/ TimesOut
    <2>1. /\ UNCHANGED <<queue, attached, parser, lua, toNative, fromNative, record,
                         decoder, gap, connections>>
          /\ errors'
          /\ UNCHANGED <<call, answer>> \/ call' = None
      BY <1>2 DEF SessionFails, TimesOut, runtime, ports, views, wire
    <2>2. KeepsRequest
      BY <2>1 DEF Sent, Packet, KeepsRequest
    <2>3. QED
      BY <2>1, <2>2, QuietForesees, QuietPhases DEF Knowledge
  <1>3. CASE DevicePolls \/ DeviceWakes \/ AdvanceMoves \/ Tick \/ UNCHANGED vars
    <2>1. UNCHANGED <<queue, attached, parser, lua, toNative, fromNative, record,
                      decoder, gap, connections, call, answer, errors>>
      BY <1>3 DEF DevicePolls, DeviceWakes, AdvanceMoves, Tick, vars, runtime, ports,
         views, wire, session
    <2>2. KeepsRequest
      BY <2>1 DEF Sent, Packet, KeepsRequest
    <2>3. Passing' <=> Passing
      BY <2>1, <2>2 DEF Passing, KeepsRequest
    <2>4. QED
      BY <2>1, <2>2, <2>3, QuietForesees, QuietPhases DEF Knowledge
  <1>4. QED
    BY <1>1, <1>2, <1>3

(* The answer to a request is in the view already.  A refused batch gives  *)
(* way to the one before it, whose end the client had been told of.        *)
LEMMA ReturnForesees ==
  ASSUME Knowledge, Return
  PROVE  Foresight' /\ Phases'
  <1>0. /\ Types /\ OneRequest /\ Phases /\ Foresight
        /\ call \in Calls /\ call # None /\ answer # None
    BY DEF Knowledge, Protocol, Return, Types, ServerTypes
  <1>1. /\ ~Sent /\ lua = None /\ ~Answered /\ call' = None
        /\ UNCHANGED <<queue, attached, parser, lua, toNative, fromNative, connections,
                       answer, errors>>
    BY <1>0 DEF Return, OneRequest, Settled, runtime, ports, wire, session
  <1>2. KeepsRequest /\ ~Sent' /\ ~Passing'
    BY <1>1 DEF Sent, Packet, Passing, None, KeepsRequest
  <1>3. PICK v \in Views : /\ Foreseen(v) /\ KnowsQueue(v) /\ KnowsPorts(v) /\ Follows(v)
                           /\ Serviceable(v)
    BY <1>0 DEF Foresight
  <1>4. \A kind : ~Asks(kind) /\ ~Asks(kind)'
    BY <1>1, <1>2 DEF Asks
  <1>5. CASE call.kind = "schedule" /\ answer.kind = "rejected"
    <2>1. /\ ~Pending(queue) /\ fromNative = <<>> /\ ~Active(call.previous)
          /\ IdOf(call.previous) = queue.id
      BY <1>0, <1>1, <1>5, AnswersGone DEF Phases, SchedulePhase, Refusable
    <2>2. /\ record' = call.previous /\ UNCHANGED <<decoder, gap>>
          /\ call.previous \in Records \cup {NoBatch}
      BY <1>0, <1>5, CallKinds DEF Return
    <2>3. v = View /\ v.con = attached
      BY <1>0, <1>3, <2>1, ForeseenFacts
    <2>4. PICK w : w = View'
      OBVIOUS
    <2>5. /\ w \in Views /\ w.rec = call.previous /\ w.dec = v.dec /\ w.gap = v.gap
          /\ w.con = v.con
      BY <1>1, <1>3, <2>2, <2>3, <2>4 DEF View, Views
    <2>6. Foreseen(w)'
      BY <1>1, <2>1, <2>3, <2>4, <2>5, ForeseenNow
    <2>7. KnowsQueue(w)' /\ KnowsPorts(w)'
      BY <1>1, <1>3, <2>1, <2>5 DEF KnowsQueue, KnowsPorts
    <2>8. Follows(w)' /\ Serviceable(w)'
      <3>1. ~Passing
        BY <1>5 DEF Passing
      <3>2. QED
        BY <1>1, <1>2, <1>3, <1>4, <2>1, <2>5, <3>1 DEF Follows, Serviceable
    <2>9. Foresight'
      BY <2>5, <2>6, <2>7, <2>8 DEF Foresight
    <2>10. Phases'
      <3>1. ~Submitting(record') /\ call'.kind = "none"
        BY <1>1, <2>1, <2>2 DEF Active, Submitting, None
      <3>2. ConnectionReports'
        BY <1>0, <1>1 DEF Phases, ConnectionReports, Answered
      <3>3. QED
        BY <1>1, <3>1, <3>2 DEF Phases, RequestPhase, SchedulePhase, MidiPhase
    <2>11. QED
      BY <2>9, <2>10
  <1>6. CASE call.kind = "midi"
    <2>1. /\ ~Pending(queue) /\ fromNative = <<>> /\ call.port \in connections
          /\ ~errors
      BY <1>0, <1>1, <1>6, AnswersGone DEF Phases, MidiPhase, Return, Scheduling
    <2>2. v = View /\ v.con = attached
      BY <1>0, <1>3, <2>1, ForeseenFacts
    <2>3. /\ record' = record /\ decoder' = [decoder EXCEPT ![call.port] = After(@, call.bytes)]
          /\ gap' = IF decoder'[call.port] = "open" THEN gap \ {call.port} ELSE gap
      BY <1>6 DEF Return
    <2>4. Types'
      BY <1>0, NextProtocol DEF Knowledge, Protocol, Next
    <2>5. PICK w : w = View'
      OBVIOUS
    <2>6. /\ w \in Views /\ w.rec = v.rec /\ w.dec = decoder' /\ w.gap = gap'
          /\ w.con = v.con
      <3>1. w \in Views
        BY <2>4, <2>5 DEF Types, ServerTypes, View, Views
      <3>2. QED
        BY <1>1, <2>2, <2>3, <2>5, <3>1 DEF View
    <2>7. Foreseen(w)'
      BY <1>1, <2>1, <2>2, <2>5, <2>6, ForeseenNow
    <2>8. KnowsQueue(w)'
      BY <1>1, <1>3, <2>1, <2>6 DEF KnowsQueue
    <2>9. KnowsPorts(w)'
      <3>1. /\ decoder \in [Ports -> {"idle", "open"}]
            /\ decoder' \in [Ports -> {"idle", "open"}] /\ call.port \in Ports
        BY <1>0, <1>6, <2>4, CallKinds DEF Types, ServerTypes
      <3>2. /\ v.dec = decoder /\ v.gap = gap /\ v.con = connections
        BY <2>2 DEF View
      <3>3. QED
        BY <1>3, <2>1, <2>3, <2>6, <3>1, <3>2 DEF KnowsPorts
    <2>10. Follows(w)' /\ Serviceable(w)'
      <3>1. Passing /\ v.dec = decoder
        BY <1>1, <1>6, <2>2 DEF Passing, View
      <3>2. parser = decoder'
        BY <1>3, <2>1, <2>3, <3>1 DEF Follows
      <3>3. QED
        BY <1>1, <1>2, <1>4, <2>1, <2>6, <3>2 DEF Follows, Serviceable
    <2>11. Foresight'
      BY <2>6, <2>7, <2>8, <2>9, <2>10 DEF Foresight
    <2>12. Phases'
      <3>1. ~Submitting(record') /\ call'.kind = "none"
        BY <1>0, <1>1, <1>6, <2>1, <2>3 DEF Phases, RequestPhase, None
      <3>2. ConnectionReports'
        BY <1>0, <1>1 DEF Phases, ConnectionReports, Answered
      <3>3. QED
        BY <1>1, <3>1, <3>2 DEF Phases, RequestPhase, SchedulePhase, MidiPhase
    <2>13. QED
      BY <2>11, <2>12
  <1>7. CASE call.kind # "midi" /\ ~(call.kind = "schedule" /\ answer.kind = "rejected")
    <2>1. UNCHANGED <<record, decoder, gap>> /\ ~Passing
      BY <1>7 DEF Return, Passing
    <2>2. call.kind = "schedule" => ~Submitting(record)
      <3>1. answer.kind # "none"
        BY <1>0, ReportKinds DEF Types, ServerTypes, Reports, Acks, StatusReports,
           PortReports, EventReports
      <3>2. QED
        BY <1>0, <1>7, <3>1 DEF Phases, SchedulePhase
    <2>3. Foresight'
      BY <1>0, <1>1, <1>2, <2>1, QuietForesees
    <2>4. Phases'
      BY <1>0, <1>1, <1>2, <2>1, <2>2, QuietPhases
    <2>5. QED
      BY <2>3, <2>4
  <1>8. QED
    BY <1>5, <1>6, <1>7
-----------------------------------------------------------------------------
(* Steps of the runtime. *)
LEMMA Received ==
  ASSUME Knowledge, NEW kind, Receives(kind), kind # "eof", UNCHANGED call
  PROVE  /\ Sent /\ Packet \in Packets /\ Packet.kind = kind /\ ~Sent' /\ Asks(kind)
         /\ lua = None /\ ~Answered /\ Quiet(fromNative) /\ ~Passing
         /\ call = None => errors
         /\ call.kind \in {"none", kind} /\ (call # None => answer = None)
         /\ \A k : ~Asks(k)'
         /\ Passing' => call # None /\ kind = "midi"
  <1>0. Types /\ OneRequest /\ Phases
    BY DEF Knowledge, Protocol
  <1>1. Sent /\ Packet \in Packets /\ Packet.kind = kind
    BY <1>0, ReceivedPacket DEF Types
  <1>2. ~Sent'
    <2>1. toNative' \in {<<>>, <<Eof>>}
      BY <1>0, <1>1, SocketShape DEF Receives, Sent, Types
    <2>2. QED
      BY <2>1, HeadTailOfOne DEF Sent, Packet, Eof
  <1>3. lua = None /\ ~Answered /\ ~Settled
    BY <1>0, <1>1 DEF OneRequest
  <1>4. Quiet(fromNative)
    BY <1>0, <1>3 DEF Phases, ConnectionReports
  <1>5. call \in Calls /\ (call = None => errors) /\ (call # None => answer = None)
    BY <1>0, <1>3 DEF Settled, Types, ServerTypes
  <1>6. call.kind \in {"none", kind} /\ (call.kind = "none" => call = None)
    BY <1>0, <1>1, <1>5, CallKinds DEF Phases, RequestPhase
  <1>7. QED
    BY <1>1, <1>2, <1>3, <1>4, <1>5, <1>6 DEF Asks, Passing, None

(* A view whose request has left the socket. *)
LEMMA ViewAfter ==
  ASSUME NEW w \in Views, Foreseen(w)', KnowsQueue(w)', KnowsPorts(w)', Follows(w)',
         \A k : ~Asks(k)'
  PROVE  Foresight'
  BY DEF Foresight, Serviceable

LEMMA ScheduleReceived ==
  ASSUME Knowledge, ReceiveSchedule
  PROVE  Foresight' /\ Phases'
  <1>0. Types /\ Phases /\ Foresight /\ OneRequest
    BY DEF Knowledge, Protocol
  <1>1. /\ Receives("schedule") /\ "schedule" # "eof"
        /\ UNCHANGED <<call, answer, record, decoder, gap, connections, errors, lua,
                       attached, parser>>
    BY DEF ReceiveSchedule, ReceiveFrame, views, session, ports
  <1>2. /\ Sent /\ Packet \in SchedulePackets /\ ~Sent' /\ Asks("schedule") /\ ~Passing'
        /\ lua = None /\ ~Answered /\ call.kind \in {"none", "schedule"}
        /\ call # None => answer = None
        /\ \A k : ~Asks(k)'
    BY <1>1, Received, PacketKinds
  <1>3. PICK v \in Views : /\ Foreseen(v) /\ KnowsQueue(v) /\ KnowsPorts(v) /\ Follows(v)
                           /\ Serviceable(v)
    BY <1>0 DEF Foresight
  <1>4. /\ ~Pending(queue) /\ fromNative = <<>> /\ v = View /\ parser = v.dec
        /\ record = [id |-> Packet.id, status |-> "submitting",
                     events |-> Packet.events, outcomes |-> <<>>]
        /\ record \in Records /\ record # NoBatch
        /\ Chained(Packet.events) /\ Feedable(v, Packet.events, 0)
    <2>1. /\ ~Pending(queue) /\ fromNative = <<>> /\ parser = v.dec
          /\ record = [id |-> Packet.id, status |-> "submitting",
                       events |-> Packet.events, outcomes |-> <<>>]
          /\ Chained(Packet.events) /\ Feedable(v, Packet.events, 0)
      BY <1>2, <1>3 DEF Serviceable, Follows
    <2>2. record \in Records
      BY <1>2, <2>1 DEF SchedulePackets, Records, Statuses
    <2>3. QED
      BY <1>0, <1>3, <2>1, <2>2, ForeseenFacts, MidiAssumption
  <1>5. AnswersOnly(fromNative) /\ ~Refusing(fromNative)
    BY <1>4 DEF AnswersOnly, Refusing
  <1>6. ASSUME NEW r \in Reports, r.kind \in {"accepted", "rejected"},
               fromNative' = Append(fromNative, r),
               r.kind = "rejected" => UNCHANGED queue
        PROVE  Phases'
    <2>1. ConnectionReports'
      <3>1. Answered' /\ PortsFirst(fromNative')
        BY <1>0, <1>6, Appending, ReportsAppended
           DEF Types, WireTypes, Answered, Responds, Phases, ConnectionReports
      <3>2. QED
        BY <3>1 DEF ConnectionReports
    <2>2. RequestPhase'
      BY <1>0, <1>1, <1>2 DEF Phases, RequestPhase
    <2>3. SchedulePhase'
      <3>1. SUFFICES ASSUME call.kind = "schedule" PROVE SchedulePhase'
        BY <1>1 DEF SchedulePhase
      <3>2. /\ ~Active(call.previous) /\ Submitting(record) /\ IdOf(call.previous) = queue.id
            /\ AnswersAre(fromNative, {"accepted", "rejected"})
        BY <1>0, <1>2, <3>1 DEF Phases, SchedulePhase, Refusable
      <3>3. answer = None
        BY <1>2, <3>1 DEF None
      <3>4. /\ AnswersAre(fromNative', {"accepted", "rejected"})
            /\ AnswersOnly(fromNative') /\ (Refusing(fromNative') => r.kind = "rejected")
        BY <1>0, <1>5, <1>6, <3>2, ReportsAppended DEF Types, WireTypes, Responds
      <3>5. QED
        BY <1>1, <1>2, <1>4, <1>6, <3>2, <3>3, <3>4 DEF SchedulePhase, Refusable, None
    <2>4. MidiPhase'
      BY <1>1, <1>2 DEF MidiPhase
    <2>5. QED
      BY <2>1, <2>2, <2>3, <2>4 DEF Phases
  <1>7. CASE Refusals(queue, Packet.id, Packet.events, now) = {}
    <2> DEFINE r == [kind |-> "accepted", id |-> Packet.id]
    <2>1. /\ r \in Reports /\ fromNative' = Append(fromNative, r)
          /\ queue' = Installed(Packet.id, Packet.events)
      BY <1>2, <1>7 DEF ReceiveSchedule, Emit, SchedulePackets, Reports, StatusReports
    <2>2. PICK w : w = [rec |-> [record EXCEPT !.status = "accepted"], dec |-> v.dec,
                        gap |-> v.gap, con |-> v.con]
      OBVIOUS
    <2>3. /\ w.rec = [id |-> Packet.id, status |-> "accepted",
                      events |-> Packet.events, outcomes |-> <<>>]
          /\ w.dec = v.dec /\ w.gap = v.gap /\ w.con = v.con
          /\ w.rec \in Records /\ w.rec # NoBatch /\ w \in Views
      <3>1. w.rec = [id |-> Packet.id, status |-> "accepted",
                     events |-> Packet.events, outcomes |-> <<>>]
        BY <1>4, <2>2
      <3>2. w.rec \in Records
        BY <1>2, <3>1 DEF SchedulePackets, Records, Statuses
      <3>3. w.rec # NoBatch
        BY <3>2, MidiAssumption
      <3>4. QED
        BY <1>3, <2>2, <3>1, <3>2, <3>3 DEF Views
    <2>4. Takes(v, r, w)
      <3>1. v.rec = record
        BY <1>4 DEF View
      <3>2. TakesStatus(v, r, w)
        BY <1>4, <2>2, <3>1 DEF TakesStatus, Submitting
      <3>3. QED
        BY <3>2 DEF Takes
    <2>5. Foreseen(w)'
      BY <1>0, <1>1, <1>3, <2>1, <2>3, <2>4, ForeseenExtends
    <2>6. KnowsQueue(w)'
      <3>1. /\ queue'.id = Packet.id /\ queue'.events = Packet.events /\ queue'.cursor = 0
        BY <2>1 DEF Installed
      <3>2. Feedable(w, Packet.events, 0)
        BY <1>4, <2>3 DEF Feedable
      <3>3. w.rec.id = Packet.id /\ w.rec.status = "accepted"
            /\ w.rec.events = Packet.events /\ Len(w.rec.outcomes) = 0
        BY <2>3
      <3>4. QED
        BY <1>4, <2>3, <3>1, <3>2, <3>3 DEF KnowsQueue, IdOf
    <2>7. KnowsPorts(w)' /\ Follows(w)'
      BY <1>1, <1>2, <1>3, <1>4, <2>3 DEF KnowsPorts, Follows
    <2>8. Foresight'
      BY <1>2, <2>3, <2>5, <2>6, <2>7, ViewAfter
    <2>9. QED
      BY <1>6, <2>1, <2>8
  <1>8. CASE Refusals(queue, Packet.id, Packet.events, now) # {}
    <2>1. PICK r \in Reports : /\ r.kind = "rejected" /\ fromNative' = Append(fromNative, r)
                               /\ queue' = queue
      <3>1. Refusals(queue, Packet.id, Packet.events, now) \in SUBSET Reasons
        BY DEF Refusals, Reasons
      <3>2. QED
        BY <1>8, <3>1 DEF ReceiveSchedule, Emit, Reports, Acks
    <2>2. Takes(v, r, v)
      BY <2>1 DEF Takes
    <2>3. Foreseen(v)'
      BY <1>0, <1>1, <1>3, <2>1, <2>2, ForeseenExtends
    <2>4. KnowsQueue(v)' /\ KnowsPorts(v)' /\ Follows(v)'
      BY <1>1, <1>2, <1>3, <1>4, <2>1 DEF KnowsQueue, KnowsPorts, Follows
    <2>5. Foresight'
      BY <1>2, <2>3, <2>4, ViewAfter
    <2>6. QED
      BY <1>6, <2>1, <2>5
  <1>9. QED
    BY <1>7, <1>8

LEMMA CancelReceived ==
  ASSUME Knowledge, ReceiveCancel
  PROVE  Foresight' /\ Phases'
  <1>0. Types /\ Phases /\ Foresight /\ OneRequest
    BY DEF Knowledge, Protocol
  <1>1. /\ Receives("cancel") /\ "cancel" # "eof"
        /\ UNCHANGED <<call, answer, record, decoder, gap, connections, errors, lua,
                       attached, parser>>
    BY DEF ReceiveCancel, ReceiveFrame, views, session, ports
  <1>2. /\ Sent /\ Packet \in CancelPackets /\ ~Sent' /\ Asks("cancel") /\ ~Passing'
        /\ lua = None /\ ~Answered /\ call.kind \in {"none", "cancel"} /\ ~Passing
        /\ \A k : ~Asks(k)'
    BY <1>1, Received, PacketKinds
  <1>3. PICK v \in Views : /\ Foreseen(v) /\ KnowsQueue(v) /\ KnowsPorts(v) /\ Follows(v)
                           /\ Serviceable(v)
    BY <1>0 DEF Foresight
  <1>4. ~Submitting(v.rec) /\ IdOf(v.rec) = queue.id
    BY <1>2, <1>3 DEF Serviceable, KnowsQueue
  <1>5. ASSUME NEW r \in Reports, Responds(r), fromNative' = Append(fromNative, r)
        PROVE  Phases'
    <2>1. Answered' /\ PortsFirst(fromNative')
      BY <1>0, <1>5, Appending, ReportsAppended
         DEF Types, WireTypes, Answered, Responds, Phases, ConnectionReports
    <2>2. QED
      BY <1>0, <1>1, <1>2, <2>1
         DEF Phases, ConnectionReports, RequestPhase, SchedulePhase, MidiPhase
  <1>6. CASE Packet.id = queue.id
    <2> DEFINE r == [kind |-> "cancelled", id |-> Packet.id]
    <2>1. /\ r \in Reports /\ Responds(r) /\ fromNative' = Append(fromNative, r)
          /\ queue' = Discarded(queue)
      BY <1>2, <1>6 DEF ReceiveCancel, Emit, CancelPackets, Reports, StatusReports, Responds
    <2>2. /\ v.rec \in Records /\ v.rec # NoBatch /\ v.rec.id = queue.id
      <3>1. Packet.id \in Ids /\ queue.id # 0
        BY <1>2, <1>6, IdsAreNat DEF CancelPackets
      <3>2. QED
        BY <1>3, <1>4, <3>1 DEF IdOf, Views
    <2>3. PICK w : w = [rec |-> [v.rec EXCEPT !.status = "cancelled"], dec |-> v.dec,
                        gap |-> v.gap, con |-> v.con]
      OBVIOUS
    <2>4. /\ w.rec \in Records /\ w.rec # NoBatch /\ w.rec.id = queue.id
          /\ w.dec = v.dec /\ w.gap = v.gap /\ w.con = v.con /\ w \in Views
      <3>1. w.rec \in Records /\ w.rec.id = queue.id
        BY <2>2, <2>3 DEF Records, Statuses
      <3>2. QED
        BY <1>3, <2>3, <3>1, MidiAssumption DEF Views
    <2>5. Takes(v, r, w)
      <3>1. TakesStatus(v, r, w)
        BY <1>4, <1>6, <2>2, <2>3 DEF TakesStatus
      <3>2. QED
        BY <3>1 DEF Takes
    <2>6. Foreseen(w)'
      BY <1>0, <1>1, <1>3, <2>1, <2>4, <2>5, ForeseenExtends
    <2>7. ~Pending(queue)' /\ queue'.id = queue.id
      BY <1>0, <2>1, DiscardedQueue DEF Types, RuntimeTypes
    <2>8. KnowsQueue(w)' /\ KnowsPorts(w)' /\ Follows(w)'
      BY <1>1, <1>2, <1>3, <2>4, <2>7 DEF KnowsQueue, KnowsPorts, Follows, IdOf
    <2>9. Foresight'
      BY <1>2, <2>4, <2>6, <2>8, ViewAfter
    <2>10. QED
      BY <1>5, <2>1, <2>9
  <1>7. CASE Packet.id # queue.id
    <2> DEFINE r == [kind |-> "rejected", why |-> {"unknown"}]
    <2>1. /\ r \in Reports /\ Responds(r) /\ fromNative' = Append(fromNative, r)
          /\ queue' = queue
      BY <1>7 DEF ReceiveCancel, Emit, Reports, Acks, Reasons, Responds
    <2>2. Takes(v, r, v)
      BY DEF Takes
    <2>3. Foreseen(v)'
      BY <1>0, <1>1, <1>3, <2>1, <2>2, ForeseenExtends
    <2>4. KnowsQueue(v)' /\ KnowsPorts(v)' /\ Follows(v)'
      BY <1>1, <1>2, <1>3, <2>1 DEF KnowsQueue, KnowsPorts, Follows
    <2>5. Foresight'
      BY <1>2, <2>3, <2>4, ViewAfter
    <2>6. QED
      BY <1>5, <2>1, <2>5
  <1>8. QED
    BY <1>6, <1>7

(* Immediate bytes reach a port that is there, and pass its parser as they *)
(* passed its decoder: a port that waits for a start is idle in both.      *)
LEMMA MidiReceived ==
  ASSUME Knowledge, ReceiveMidi
  PROVE  Foresight' /\ Phases' /\ device' # "exited"
  <1>0. Types /\ Phases /\ Foresight /\ OneRequest /\ PortsWait
    BY DEF Knowledge, Protocol
  <1>1. /\ Receives("midi") /\ "midi" # "eof"
        /\ UNCHANGED <<call, answer, record, decoder, gap, connections, errors,
                       attached, queue, fromNative>>
    BY DEF ReceiveMidi, ReceiveFrame, views, session
  <1>2. /\ Sent /\ Packet \in MidiPackets /\ ~Sent' /\ Asks("midi")
        /\ lua = None /\ ~Answered /\ call.kind \in {"none", "midi"} /\ ~Passing
        /\ call = None => errors
        /\ \A k : ~Asks(k)'
    BY <1>1, Received, PacketKinds
  <1>3. PICK v \in Views : /\ Foreseen(v) /\ KnowsQueue(v) /\ KnowsPorts(v) /\ Follows(v)
                           /\ Serviceable(v)
    BY <1>0 DEF Foresight
  <1>4. ~Pending(queue) /\ fromNative = <<>> /\ Packet.port \in attached /\ v = View
    BY <1>0, <1>2, <1>3, ForeseenFacts DEF Serviceable
  <1>5. /\ Consume(Packet.port, Packet.bytes) /\ lua' = [kind |-> "ack"]
        /\ device' = "top"
    BY <1>4 DEF ReceiveMidi
  <1>6. Phases'
    <2>1. lua' # None
      BY <1>5 DEF None
    <2>2. QED
      BY <1>0, <1>1, <1>2, <2>1
         DEF Phases, ConnectionReports, RequestPhase, SchedulePhase, MidiPhase
  <1>7. Foreseen(v)' /\ KnowsQueue(v)' /\ KnowsPorts(v)'
    BY <1>1, <1>3, ForeseenSame DEF KnowsQueue, KnowsPorts
  <1>8. Follows(v)'
    <2>1. SUFFICES ASSUME ~errors
                   PROVE  Passing' /\ parser' = [v.dec EXCEPT ![call.port] =
                                                            After(@, call.bytes)]
      BY <1>1, <1>2, <1>4 DEF Follows
    <2>2. /\ call.kind = "midi" /\ parser = v.dec /\ v.dec = decoder
          /\ Packet.port = call.port /\ Packet.bytes = call.bytes
          /\ Accepts(decoder[call.port], call.bytes)
      <3>1. call.kind = "midi"
        BY <1>0, <1>2, <2>1, CallKinds DEF Types, ServerTypes
      <3>2. QED
        BY <1>0, <1>2, <1>3, <1>4, <2>1, <3>1 DEF Follows, Phases, MidiPhase, View
    <2>3. /\ Packet.port \in Ports /\ Packet.bytes \in Tokens
      BY <1>2 DEF MidiPackets
    <2>4. ~Skipped(Packet.port \in orphan, Packet.bytes)
      <3>1. Packet.port \in orphan => decoder[Packet.port] = "idle"
        BY <1>0, <2>2, <2>3 DEF PortsWait
      <3>2. QED
        BY <2>2, <2>3, <3>1, TokenFacts DEF Skipped
    <2>5. parser' = [v.dec EXCEPT ![call.port] = After(@, call.bytes)]
      BY <1>5, <2>2, <2>4 DEF Consume
    <2>6. QED
      BY <1>1, <1>2, <2>2, <2>5 DEF Passing
  <1>9. Foresight'
    BY <1>2, <1>7, <1>8, ViewAfter
  <1>10. QED
    BY <1>5, <1>6, <1>9

LEMMA ConnectionReceived ==
  ASSUME Knowledge, ReceiveConnection
  PROVE  Foresight' /\ Phases' /\ device' # "exited"
  <1>0. Types /\ Phases /\ Foresight /\ OneRequest
    BY DEF Knowledge, Protocol
  <1>1. /\ Receives("connection") /\ "connection" # "eof"
        /\ UNCHANGED <<call, answer, record, decoder, gap, connections, errors, queue>>
    BY DEF ReceiveConnection, ReceiveFrame, views, session
  <1>2. /\ Sent /\ Packet \in ConnectionPackets /\ ~Sent' /\ Asks("connection")
        /\ lua = None /\ ~Answered /\ call.kind \in {"none", "connection"}
        /\ ~Passing /\ ~Passing'
        /\ \A k : ~Asks(k)'
    BY <1>1, Received, PacketKinds
  <1>3. PICK v \in Views : /\ Foreseen(v) /\ KnowsQueue(v) /\ KnowsPorts(v) /\ Follows(v)
                           /\ Serviceable(v)
    BY <1>0 DEF Foresight
  <1>4. (Packet.port \in attached) # Packet.on
    <2>1. Packet.port \in attached <=> ~Packet.on
      BY <1>2, <1>3 DEF Serviceable
    <2>2. Packet.on \in BOOLEAN
      BY <1>2 DEF ConnectionPackets
    <2>3. QED
      BY <2>1, <2>2
  <1> DEFINE r == [kind |-> "connection", port |-> Packet.port, on |-> Packet.on]
  <1>5. /\ attached' = IF Packet.on THEN attached \cup {Packet.port}
                       ELSE attached \ {Packet.port}
        /\ parser' = [parser EXCEPT ![Packet.port] = "idle"]
        /\ fromNative' = Append(fromNative, r)
        /\ lua' = [kind |-> "ack"] /\ device' = "top"
    BY <1>4 DEF ReceiveConnection, Connect, Emit
  <1>6. /\ r \in Reports /\ r.kind = "connection" /\ r.port = Packet.port
        /\ r.on = Packet.on /\ Packet.port \in Ports
    BY <1>2 DEF ConnectionPackets, Reports, PortReports
  <1> HIDE DEF r
  <1>7. Phases'
    <2>1. lua' # None
      BY <1>5 DEF None
    <2>2. PortsFirst(fromNative')
      BY <1>0, <1>2, <1>5, <1>6, ReportsAppended
         DEF Types, WireTypes, Answered, Phases, ConnectionReports
    <2>3. QED
      BY <1>0, <1>1, <1>2, <2>1, <2>2
         DEF Phases, ConnectionReports, RequestPhase, SchedulePhase, MidiPhase
  <1>8. PICK w : w = [rec |-> v.rec, dec |-> [v.dec EXCEPT ![Packet.port] = "idle"],
                      gap |-> v.gap \cup {Packet.port}, con |-> attached']
    OBVIOUS
  <1>9. /\ w.rec = v.rec /\ w.dec = [v.dec EXCEPT ![Packet.port] = "idle"]
        /\ w.gap = v.gap \cup {Packet.port} /\ w.con = attached'
        /\ v.con = attached /\ w \in Views
    <2>1. v.con = attached
      BY <1>0, <1>3, ForeseenFacts
    <2>2. attached' \in SUBSET Ports
      BY <1>5, <1>6, <2>1 DEF Views
    <2>3. QED
      BY <1>6, <1>8, <2>1, <2>2 DEF Views
  <1>10. Foreseen(w)'
    <2>1. Takes(v, r, w)
      BY <1>5, <1>6, <1>9 DEF Takes, TakesConnection
    <2>2. QED
      BY <1>0, <1>1, <1>3, <1>5, <1>6, <1>9, <2>1, ForeseenExtends
  <1>11. KnowsPorts(w)'
    <2>1. v.dec \in [Ports -> {"idle", "open"}]
      BY DEF Views
    <2>2. QED
      BY <1>3, <1>5, <1>6, <1>9, <2>1 DEF KnowsPorts
  <1>12. KnowsQueue(w)'
    <2>1. ASSUME Pending(queue) PROVE Feedable(w, queue.events, queue.cursor)
      <3>1. Feedable(v, queue.events, queue.cursor)
        BY <1>3, <2>1 DEF KnowsQueue
      <3>2. \A p : p \in v.gap \/ p = Packet.port => p \in w.gap
        BY <1>9
      <3>3. \A p : p # Packet.port => w.dec[p] = v.dec[p]
        BY <1>9
      <3>4. QED
        BY <3>1, <3>2, <3>3 DEF Feedable
    <2>2. QED
      BY <1>1, <1>3, <1>9, <2>1 DEF KnowsQueue
  <1>13. Follows(w)'
    <2>1. ~errors \/ Pending(queue) => parser = v.dec
      BY <1>2, <1>3 DEF Follows
    <2>2. QED
      BY <1>1, <1>2, <1>5, <1>9, <2>1 DEF Follows
  <1>14. Foresight'
    BY <1>2, <1>9, <1>10, <1>11, <1>12, <1>13, ViewAfter
  <1>15. QED
    BY <1>5, <1>7, <1>14

LEMMA AdvanceReceived ==
  ASSUME Knowledge, ReceiveAdvance
  PROVE  Foresight' /\ Phases'
  <1>0. Types /\ Phases /\ Foresight /\ OneRequest
    BY DEF Knowledge, Protocol
  <1>1. /\ Receives("advance") /\ "advance" # "eof"
        /\ UNCHANGED <<call, answer, record, decoder, gap, connections, errors, queue,
                       attached, parser, fromNative>>
        /\ lua' # None
    BY DEF ReceiveAdvance, ReceiveFrame, views, session, ports, None
  <1>2. /\ ~Sent' /\ call.kind \in {"none", "advance"} /\ ~Passing /\ ~Passing'
        /\ \A k : ~Asks(k)'
    BY <1>1, Received
  <1>3. Phases'
    BY <1>0, <1>1, <1>2
       DEF Phases, ConnectionReports, RequestPhase, SchedulePhase, MidiPhase
  <1>4. PICK v \in Views : /\ Foreseen(v) /\ KnowsQueue(v) /\ KnowsPorts(v) /\ Follows(v)
                           /\ Serviceable(v)
    BY <1>0 DEF Foresight
  <1>5. Foreseen(v)' /\ KnowsQueue(v)' /\ KnowsPorts(v)' /\ Follows(v)'
    BY <1>1, <1>2, <1>4, ForeseenSame DEF KnowsQueue, KnowsPorts, Follows
  <1>6. QED
    BY <1>2, <1>3, <1>5, ViewAfter

LEMMA EndReceived ==
  ASSUME Knowledge, ReceiveEnd
  PROVE  Foresight' /\ Phases'
  <1>0. Types /\ Phases /\ Foresight /\ OneRequest
    BY DEF Knowledge, Protocol
  <1>1. /\ Receives("eof") /\ queue' = Discarded(queue)
        /\ UNCHANGED <<call, answer, record, decoder, gap, connections, errors, lua,
                       attached, parser, fromNative>>
    BY DEF ReceiveEnd, ReceiveFrame, views, session, ports
  <1>2. ~Sent /\ ~Sent' /\ (\A k : ~Asks(k)') /\ (Passing' <=> Passing)
    <2>1. ~Sent
      BY <1>1 DEF Receives, Sent
    <2>2. toNative' \in {<<>>, <<Eof>>}
      BY <1>0, <1>1, SocketShape DEF Receives, Types
    <2>3. ~Sent'
      BY <2>2, HeadTailOfOne DEF Sent, Packet, Eof
    <2>4. QED
      BY <1>1, <2>1, <2>3 DEF Asks, Passing
  <1>3. ~Pending(queue)' /\ queue'.id = queue.id
    BY <1>0, <1>1, DiscardedQueue DEF Types, RuntimeTypes
  <1>4. Phases'
    <2>1. ConnectionReports' /\ RequestPhase'
      BY <1>0, <1>1, <1>2 DEF Phases, ConnectionReports, RequestPhase, Answered
    <2>2. SchedulePhase'
      BY <1>0, <1>1, <1>2, <1>3 DEF Phases, SchedulePhase, Refusable
    <2>3. MidiPhase'
      BY <1>0, <1>1, <1>2, <1>3 DEF Phases, MidiPhase
    <2>4. QED
      BY <2>1, <2>2, <2>3 DEF Phases
  <1>5. PICK v \in Views : /\ Foreseen(v) /\ KnowsQueue(v) /\ KnowsPorts(v) /\ Follows(v)
                           /\ Serviceable(v)
    BY <1>0 DEF Foresight
  <1>6. Foreseen(v)' /\ KnowsQueue(v)' /\ KnowsPorts(v)' /\ Follows(v)'
    BY <1>1, <1>2, <1>3, <1>5, ForeseenSame DEF KnowsQueue, KnowsPorts, Follows
  <1>7. QED
    BY <1>2, <1>4, <1>6, ViewAfter

LEMMA AcknowledgeForesees ==
  ASSUME Knowledge, Acknowledge
  PROVE  Foresight' /\ Phases'
  <1>0. Types /\ Phases /\ Foresight /\ OneRequest
    BY DEF Knowledge, Protocol
  <1> DEFINE r == [kind |-> "ack"]
  <1>1. /\ lua # None /\ fromNative' = Append(fromNative, r)
        /\ UNCHANGED <<call, answer, record, decoder, gap, connections, errors, queue,
                       attached, parser, toNative>>
    BY DEF Acknowledge, Emit, None, views, session, ports
  <1>2. r \in Reports /\ Responds(r) /\ r.kind = "ack"
    BY DEF Reports, Acks, Responds
  <1>3. ~Sent /\ ~Sent' /\ (\A k : ~Asks(k)') /\ (Passing' <=> Passing)
    BY <1>0, <1>1 DEF OneRequest, Sent, Packet, Asks, Passing
  <1>4. Phases'
    <2>1. Answered' /\ PortsFirst(fromNative') /\ (AnswersOnly(fromNative) => AnswersOnly(fromNative'))
      BY <1>0, <1>1, <1>2, Appending, ReportsAppended
         DEF Types, WireTypes, Answered, Phases, ConnectionReports
    <2>2. ConnectionReports' /\ RequestPhase'
      BY <1>0, <1>1, <1>3, <2>1 DEF Phases, ConnectionReports, RequestPhase
    <2>3. SchedulePhase'
      BY <1>0, <1>1 DEF Phases, SchedulePhase
    <2>4. MidiPhase'
      BY <1>0, <1>1, <1>3, <2>1 DEF Phases, MidiPhase
    <2>5. QED
      BY <2>2, <2>3, <2>4 DEF Phases
  <1>5. PICK v \in Views : /\ Foreseen(v) /\ KnowsQueue(v) /\ KnowsPorts(v) /\ Follows(v)
                           /\ Serviceable(v)
    BY <1>0 DEF Foresight
  <1>6. Foreseen(v)'
    <2>1. Takes(v, r, v)
      BY DEF Takes
    <2>2. QED
      BY <1>0, <1>1, <1>2, <1>5, <2>1, ForeseenExtends
  <1>7. KnowsQueue(v)' /\ KnowsPorts(v)' /\ Follows(v)'
    BY <1>1, <1>3, <1>5 DEF KnowsQueue, KnowsPorts, Follows
  <1>8. QED
    BY <1>3, <1>4, <1>6, <1>7, ViewAfter

LEMMA DeliverPhases ==
  ASSUME Knowledge, Deliver, UNCHANGED <<toNative, lua>>
  PROVE  Phases'
  <1>0. Types /\ Phases /\ Pending(queue)
    BY DEF Knowledge, Protocol, Deliver, Due
  <1>1. /\ Outcome \in Reports /\ ~Responds(Outcome) /\ Outcome.kind # "connection"
        /\ Outcome.kind # "rejected" /\ fromNative' = Append(fromNative, Outcome)
        /\ UNCHANGED <<call, answer, record, decoder, connections, errors>>
    <2>1. /\ Outcome \in EventReports /\ fromNative' = Append(fromNative, Outcome)
          /\ UNCHANGED <<mode, attached, call, answer, views, session>>
      BY <1>0, DeliverTypes DEF Types
    <2>2. Outcome.kind \in {"delivered", "dropped"} /\ Outcome \in Reports
      BY <2>1 DEF EventReports, Reports
    <2>3. QED
      BY <2>1, <2>2 DEF Responds, views, session
  <1>2. Sent' <=> Sent
    BY DEF Sent, Packet
  <1>3. ConnectionReports'
    BY <1>0, <1>1, Appending, ReportsAppended
       DEF Types, WireTypes, Answered, Phases, ConnectionReports
  <1>4. RequestPhase'
    BY <1>0, <1>1, <1>2 DEF Phases, RequestPhase, Packet
  <1>5. SchedulePhase'
    <2>1. SUFFICES ASSUME call.kind = "schedule" PROVE SchedulePhase'
      BY <1>1 DEF SchedulePhase
    <2>2. ~Refusable /\ AnswersAre(fromNative, {"accepted", "rejected"})
      BY <1>0, <2>1 DEF Phases, SchedulePhase
    <2>3. AnswersAre(fromNative', {"accepted", "rejected"}) /\ ~Refusing(fromNative')
      BY <1>0, <1>1, <2>2, ReportsAppended DEF Types, WireTypes, Refusable
    <2>4. QED
      BY <1>0, <1>1, <1>2, <2>1, <2>2, <2>3 DEF Phases, SchedulePhase, Refusable
  <1>6. MidiPhase'
    BY <1>0, <1>1 DEF Phases, MidiPhase
  <1>7. QED
    BY <1>3, <1>4, <1>5, <1>6 DEF Phases
-----------------------------------------------------------------------------
(* Steps of the reader. *)

(* Its checks never fail, and its views are the ones foreseen. *)
LEMMA ReaderSees ==
  ASSUME Types, Reader, NEW u \in Views, Takes(View, Report, u)
  PROVE  /\ View' = u /\ UNCHANGED <<reader, errors>>
         /\ answer' = IF Responds(Report) THEN Report ELSE answer
  <1>0. u = [rec |-> u.rec, dec |-> u.dec, gap |-> u.gap, con |-> u.con]
    BY DEF Views
  <1>1. Report \in Reports
    BY ReaderTakes, Taking DEF Types, WireTypes, Report
  <1>2. CASE ReadAck
    BY <1>2 DEF ReadAck, Reads, Takes, views, View, Responds
  <1>3. CASE ReadStatus
    <2>1. TakesStatus(View, Report, u)
      BY <1>3 DEF ReadStatus, Reads, Takes
    <2>2. record # NoBatch /\ record.id = Report.id
      BY <2>1 DEF TakesStatus, View
    <2>3. /\ record' = [record EXCEPT !.status = Report.kind] /\ answer' = Report
          /\ UNCHANGED <<decoder, gap, connections, reader, errors>>
      BY <1>3, <2>2 DEF ReadStatus
    <2>4. QED
      BY <1>0, <1>3, <2>1, <2>3 DEF TakesStatus, View, ReadStatus, Reads, Responds
  <1>4. CASE ReadConnection
    <2>1. TakesConnection(View, Report, u)
      BY <1>4 DEF ReadConnection, Reads, Takes
    <2>2. QED
      BY <1>0, <1>4, <2>1 DEF TakesConnection, View, ReadConnection, Reads, Responds
  <1>5. CASE ReadDelivery
    <2> DEFINE p == Report.event.port
               bytes == Report.event.bytes
               fed == Report.kind = "delivered" /\ ~Skipped(p \in gap, bytes)
    <2>1. TakesDelivery(View, Report, u) /\ Report.kind \in {"delivered", "dropped"}
      BY <1>5 DEF ReadDelivery, Reads, Takes
    <2>2. fed <=> Fed(View, Report)
      BY DEF Fed, View
    <2>3. Expected /\ (fed => Accepts(decoder[p], bytes))
      BY <2>1, <2>2 DEF TakesDelivery, View, Expected
    <2>4. /\ record' = Recorded
          /\ decoder' = IF fed THEN [decoder EXCEPT ![p] = After(@, bytes)] ELSE decoder
          /\ gap' = IF fed /\ bytes \in {"start", "whole"} THEN gap \ {p} ELSE gap
          /\ UNCHANGED <<answer, connections, reader, errors>>
      BY <1>5, <2>3 DEF ReadDelivery
    <2>5. u.rec = Recorded
      BY <2>1 DEF TakesDelivery, View, Recorded
    <2>6. u.dec = decoder' /\ u.gap = gap' /\ u.con = connections
      BY <2>1, <2>2, <2>4 DEF TakesDelivery, View
    <2>7. QED
      BY <1>0, <2>1, <2>4, <2>5, <2>6 DEF View, Responds
  <1>6. QED
    BY <1>2, <1>3, <1>4, <1>5 DEF Reader

LEMMA ReaderForesees ==
  ASSUME Knowledge, Reader
  PROVE  Foresight' /\ Phases' /\ UNCHANGED reader
  <1>0. Types /\ Phases /\ Foresight /\ OneRequest
    BY DEF Knowledge, Protocol
  <1>1. /\ fromNative # <<>> /\ fromNative' = Tail(fromNative)
        /\ UNCHANGED <<queue, attached, parser, lua, toNative, call>>
        /\ Report \in Reports /\ Report = Head(fromNative) /\ fromNative \in Seq(Reports)
    BY <1>0, ReaderTakes, Taking DEF runtime, ports, Types, WireTypes, Report
  <1>2. PICK v \in Views : /\ Foreseen(v) /\ KnowsQueue(v) /\ KnowsPorts(v) /\ Follows(v)
                           /\ Serviceable(v)
    BY <1>0 DEF Foresight
  <1>3. PICK u \in Views : /\ Takes(View, Report, u)
                           /\ fromNative' = Tail(fromNative) /\ attached' = attached
                                /\ View' = u => Foreseen(v)'
    BY <1>0, <1>1, <1>2, ForeseenShifts
  <1>4. /\ View' = u /\ UNCHANGED <<reader, errors>>
        /\ answer' = IF Responds(Report) THEN Report ELSE answer
    BY <1>0, <1>3, ReaderSees
  <1>5. Foreseen(v)'
    BY <1>1, <1>3, <1>4
  <1>6. (Sent' <=> Sent) /\ Packet' = Packet /\ (Passing' <=> Passing)
        /\ (\A k : Asks(k)' <=> Asks(k))
    BY <1>1 DEF Sent, Packet, Passing, Asks
  <1>7. KnowsQueue(v)' /\ KnowsPorts(v)' /\ Follows(v)' /\ Serviceable(v)'
    <2>1. ~Asks("schedule") /\ ~Asks("midi")
      BY <1>1, <1>2 DEF Serviceable
    <2>2. KnowsQueue(v)' /\ KnowsPorts(v)'
      BY <1>1, <1>2 DEF KnowsQueue, KnowsPorts
    <2>3. Follows(v)'
      BY <1>1, <1>2, <1>4, <1>6 DEF Follows
    <2>4. Serviceable(v)'
      BY <1>1, <1>2, <1>6, <2>1 DEF Serviceable
    <2>5. QED
      BY <2>2, <2>3, <2>4
  <1>8. /\ record' = u.rec /\ decoder' = u.dec /\ connections' = u.con
        /\ Submitting(record') => Submitting(record)
    <2>1. View \in Views
      BY <1>0, ViewTyped DEF Types
    <2>2. Later(View, u)
      BY <1>1, <1>3, <2>1, TakesForward
    <2>3. QED
      BY <1>4, <2>2 DEF View, Later
  <1>9. ConnectionReports'
    <2>1. PortsFirst(fromNative')
      BY <1>0, <1>1, ReportsTaken DEF Phases, ConnectionReports
    <2>2. ASSUME lua = None, ~Answered' PROVE Quiet(fromNative')
      <3>1. CASE Answered
        BY <1>0, <1>1, <2>2, <3>1, ReportsTaken DEF Answered, Phases, ConnectionReports
      <3>2. CASE ~Answered
        BY <1>0, <1>1, <2>2, <3>2, ReportsTaken DEF Phases, ConnectionReports
      <3>3. QED
        BY <3>1, <3>2
    <2>3. QED
      BY <1>1, <2>1, <2>2 DEF ConnectionReports
  <1>10. RequestPhase'
    BY <1>0, <1>1, <1>4, <1>6, <1>8 DEF Phases, RequestPhase
  <1>11. SchedulePhase'
    <2>1. SUFFICES ASSUME call.kind = "schedule" PROVE SchedulePhase'
      BY <1>1 DEF SchedulePhase
    <2>2. /\ AnswersAre(fromNative', {"accepted", "rejected"})
          /\ Responds(Report) => Report.kind \in {"accepted", "rejected"}
      BY <1>0, <1>1, <2>1, ReportsTaken DEF Phases, SchedulePhase
    <2>3. ASSUME answer'.kind = "accepted" PROVE ~Submitting(record')
      <3>1. CASE Responds(Report)
        <4>1. TakesStatus(View, Report, u) /\ Report.kind = "accepted"
          BY <1>3, <1>4, <2>3, <3>1 DEF Takes
        <4>2. record \in Records
          BY <1>0, <4>1 DEF TakesStatus, View, Types, ServerTypes
        <4>3. u.rec.status = "accepted"
          BY <4>1, <4>2 DEF TakesStatus, View, Records
        <4>4. QED
          BY <1>8, <4>3 DEF Submitting
      <3>2. CASE ~Responds(Report)
        BY <1>0, <1>4, <1>8, <2>1, <2>3, <3>2 DEF Phases, SchedulePhase
      <3>3. QED
        BY <3>1, <3>2
    <2>4. ASSUME Refusable'
          PROVE  Submitting(record') /\ Refusable /\ AnswersOnly(fromNative')
      <3>1. Refusable
        BY <1>1, <1>4, <1>6, <2>4, ReportsTaken DEF Refusable
      <3>2. Responds(Report) /\ AnswersOnly(fromNative') /\ Submitting(record)
        BY <1>0, <1>1, <2>1, <3>1, ReportsTaken DEF Phases, SchedulePhase
      <3>3. Report.kind # "accepted"
        <4>1. ~Sent /\ ~AnsweredIn(fromNative')
          BY <1>0, <1>1, <3>2, Taking DEF OneRequest, Answered
        <4>2. ~Refusing(fromNative')
          <5>1. Refusing(fromNative') => AnsweredIn(fromNative')
            BY DEF Refusing, AnsweredIn, Responds
          <5>2. QED
            BY <4>1, <5>1
        <4>3. answer'.kind = "rejected"
          BY <1>6, <2>4, <4>1, <4>2 DEF Refusable
        <4>4. QED
          BY <1>4, <3>2, <4>3
      <3>4. u = View
        BY <1>3, <2>2, <3>2, <3>3 DEF Takes
      <3>5. record' = record
        BY <1>8, <3>4 DEF View
      <3>6. QED
        BY <3>1, <3>2, <3>5
    <2>5. answer'.kind \in {"none", "accepted", "rejected"}
      BY <1>0, <1>4, <2>1, <2>2 DEF Phases, SchedulePhase
    <2>6. QED
      BY <1>0, <1>1, <2>1, <2>2, <2>3, <2>4, <2>5 DEF Phases, SchedulePhase
  <1>12. MidiPhase'
    <2>1. SUFFICES ASSUME call.kind = "midi" PROVE MidiPhase'
      BY <1>1 DEF MidiPhase
    <2>2. Responds(Report) /\ AnswersOnly(fromNative')
      BY <1>0, <1>1, <2>1, ReportsTaken DEF Phases, MidiPhase
    <2>3. decoder' = decoder /\ connections' = connections
      BY <1>3, <1>8, <2>2 DEF Responds, Takes, TakesStatus, View
    <2>4. QED
      BY <1>0, <1>1, <1>6, <2>1, <2>2, <2>3 DEF Phases, MidiPhase
  <1>13. QED
    BY <1>2, <1>4, <1>5, <1>7, <1>9, <1>10, <1>11, <1>12 DEF Foresight, Phases
-----------------------------------------------------------------------------
LEMMA InitKnowledge == Init => Knowledge
  <1> SUFFICES ASSUME Init PROVE Knowledge
    OBVIOUS
  <1>1. Protocol /\ Types
    BY InitProtocol DEF Protocol
  <1>2. PICK v : v = View
    OBVIOUS
  <1>3. /\ v \in Views /\ v.rec = NoBatch /\ v.dec = [p \in Ports |-> "idle"]
        /\ v.gap = {} /\ v.con = Ports
    BY <1>1, <1>2, ViewTyped DEF Types, Init, View
  <1>4. Foreseen(v)
    <2> DEFINE V == [i \in 0 .. 0 |-> v]
    <2>1. /\ V \in [0 .. 0 -> Views] /\ V[0] = v /\ Len(<<>>) = 0 /\ 1 .. 0 = {}
          /\ \A i \in 0 .. 0 : i = 0
      BY <1>3
    <2> HIDE DEF V
    <2>2. Path(V, <<>>, Ports)
      BY <1>3, <2>1, LaterSelf DEF Path
    <2>3. fromNative = <<>> /\ attached = Ports
      BY DEF Init
    <2>4. Path(V, fromNative, attached) /\ V[0] = View /\ V[Len(fromNative)] = v
      BY <1>2, <2>1, <2>2, <2>3
    <2>5. QED
      BY <2>4 DEF Foreseen, Leads
  <1>5. ~Pending(queue) /\ queue.id = 0 /\ ~Sent /\ ~errors /\ ~Passing
        /\ parser = v.dec
    BY <1>3 DEF Init, EmptyQueue, Pending, Sent, Passing, None
  <1>6. KnowsQueue(v) /\ KnowsPorts(v) /\ Follows(v) /\ Serviceable(v)
    BY <1>3, <1>5 DEF KnowsQueue, KnowsPorts, Follows, Serviceable, IdOf, Asks
  <1>7. Phases
    BY <1>5 DEF Init, Phases, ConnectionReports, RequestPhase, SchedulePhase, MidiPhase,
       Quiet, PortsFirst, Submitting, None
  <1>8. QED
    BY <1>1, <1>3, <1>4, <1>6, <1>7 DEF Knowledge, Foresight, Alive, Init

LEMMA NextKnowledge ==
  ASSUME Knowledge, [Next]_vars
  PROVE  Knowledge'
  <1>0. Types /\ OneRequest /\ PortsWait /\ Foresight /\ Phases /\ Alive /\ Protocol'
    BY NextProtocol DEF Knowledge, Protocol
  <1> SUFFICES Foresight' /\ Phases' /\ Alive'
    BY <1>0 DEF Knowledge
  <1>1. ASSUME NEW pk \in Packets, Submits(pk)
        PROVE  Foresight' /\ Phases' /\ Alive'
    <2>1. Foresight' /\ Phases'
      BY <1>1, ScheduleForesees, RequestForesees, SubmitPhases
    <2>2. Alive'
      BY <1>0, <1>1 DEF Submits, RequestFrame, runtime, Alive
    <2>3. QED
      BY <2>1, <2>2
  <1>2. CASE \/ EndSession \/ SessionFails \/ TimesOut \/ DevicePolls \/ DeviceWakes
             \/ AdvanceMoves \/ Tick \/ UNCHANGED vars
    <2>1. Alive'
      BY <1>0, <1>2 DEF EndSession, SessionFails, TimesOut, DevicePolls, DeviceWakes,
         AdvanceMoves, Tick, vars, runtime, views, Alive
    <2>2. QED
      BY <1>2, <2>1, QuietSteps
  <1>3. CASE Return
    BY <1>0, <1>3, ReturnForesees DEF Return, runtime, Alive
  <1>4. CASE DeviceDelivers \/ AdvanceDelivers
    <2>1. Deliver /\ UNCHANGED <<toNative, lua, device, reader>>
      BY <1>4 DEF DeviceDelivers, AdvanceDelivers, Deliver, views
    <2>2. QED
      BY <1>0, <2>1, DeliverForesees, DeliverPhases DEF Phases, Alive
  <1>5. CASE ReceiveSchedule \/ ReceiveCancel \/ ReceiveAdvance \/ ReceiveEnd
    <2>1. Alive'
      BY <1>0, <1>5 DEF ReceiveSchedule, ReceiveCancel, ReceiveAdvance, ReceiveEnd,
         ReceiveFrame, views, Alive
    <2>2. QED
      BY <1>5, <2>1, ScheduleReceived, CancelReceived, AdvanceReceived, EndReceived
  <1>6. CASE ReceiveMidi \/ ReceiveConnection
    <2>1. Foresight' /\ Phases' /\ device' # "exited"
      BY <1>6, MidiReceived, ConnectionReceived
    <2>2. reader' = reader
      BY <1>6 DEF ReceiveMidi, ReceiveConnection, ReceiveFrame, views
    <2>3. QED
      BY <1>0, <2>1, <2>2 DEF Alive
  <1>7. CASE Acknowledge
    BY <1>0, <1>7, AcknowledgeForesees DEF Acknowledge, views, Alive
  <1>8. CASE Reader
    <2>1. device' = device
      BY <1>0, <1>8, ReaderTakes DEF runtime
    <2>2. QED
      BY <1>0, <1>8, <2>1, ReaderForesees DEF Alive
  <1>9. QED
    BY <1>0, <1>1, <1>2, <1>3, <1>4, <1>5, <1>6, <1>7, <1>8, RequestSubmits
       DEF Next, Requests, DeviceThread, LuaThread, Receive

(* In every reachable state the reports on their way lead, one after the   *)
(* other, from what the server knows to the state of the runtime.          *)
THEOREM KnowledgeKept == Spec => []Knowledge
  <1>1. Knowledge /\ [Next]_vars => Knowledge'
    BY NextKnowledge
  <1>2. QED
    BY <1>1, InitKnowledge, PTL DEF Spec

(* The checks of the reader never fail, and the runtime refuses no batch   *)
(* for another one that the client was told has ended.                     *)
THEOREM ServerKnows == Spec => []ServerKnowsTheRuntime
  <1>1. ASSUME Knowledge PROVE ServerKnowsTheRuntime
    <2>1. PICK v \in Views : Foreseen(v) /\ KnowsQueue(v)
      BY <1>1 DEF Knowledge, Foresight
    <2>2. Later(View, v)
      BY <1>1, <2>1, ForeseenFacts DEF Knowledge, Protocol
    <2>3. Pending(queue) => Reporting
      BY <2>1, <2>2 DEF KnowsQueue, Later, View, Active, Reporting
    <2>4. QED
      BY <1>1, <2>3 DEF Knowledge, Alive, ServerKnowsTheRuntime
  <1>2. QED
    BY <1>1, KnowledgeKept, PTL

(* No request makes the runtime exit on an invalid packet: what the server *)
(* decides on an old view of the ports still holds when the packet comes.  *)
THEOREM RuntimeNeverExits == Spec => []RuntimeSurvives
  <1>1. Knowledge => RuntimeSurvives
    BY DEF Knowledge, Alive, RuntimeSurvives
  <1>2. QED
    BY <1>1, KnowledgeKept, PTL

(* Between requests of a session that plays no batch, the decoders and the *)
(* parsers are in the same state.                                          *)
THEOREM DecodersFollow == Spec => []DecodersAgree
  <1>1. ASSUME Knowledge PROVE DecodersAgree
    <2>1. SUFFICES ASSUME call = None, ~errors, ~Reporting PROVE decoder = parser
      BY DEF DecodersAgree
    <2>2. PICK v \in Views : Foreseen(v) /\ Follows(v)
      BY <1>1 DEF Knowledge, Foresight
    <2>3. Types /\ OneRequest /\ Phases
      BY <1>1 DEF Knowledge, Protocol
    <2>4. lua = None /\ ~Answered
      BY <2>1, <2>3 DEF OneRequest, Settled
    <2>5. fromNative = <<>>
      BY <2>1, <2>2, <2>3, <2>4, NothingOnTheWay DEF Phases, ConnectionReports
    <2>6. v = View
      BY <2>2, <2>3, <2>5, ForeseenFacts
    <2>7. ~Passing
      BY <2>1 DEF Passing, None
    <2>8. QED
      BY <2>1, <2>2, <2>6, <2>7 DEF Follows, View
  <1>2. QED
    BY <1>1, KnowledgeKept, PTL

-----------------------------------------------------------------------------
(***************************************************************************)
(* The input path keeps the promise of MidiBatch, for any ports, batches,  *)
(* ids, spans and bounds: every step of requests, packets, reports and     *)
(* threads is one that the client may be shown, or shows it nothing.       *)
(*                                                                         *)
(* The record of the client comes from reports, so that a report must tell *)
(* what happened when the runtime sent it.  Beside what the server knows   *)
(* (Knowledge), the steps need that of the runtime itself: it hears each   *)
(* event of a batch before its cursor has passed it or never, and what is  *)
(* on its way about an event is true of that event (Truth).                *)
(***************************************************************************)

HeardPassed ==
  \A h \in heard : h[1] <= queue.id /\ (h[1] = queue.id => h[2] <= queue.cursor)

Honest(r, q, h) ==
  r.kind \in {"delivered", "dropped"} =>
    /\ r.id = q.id /\ r.index < q.cursor
    /\ (r.kind = "delivered") <=> (<<r.id, r.index + 1>> \in h)

ReportsHonest == \A i \in DOMAIN fromNative : Honest(fromNative[i], queue, heard)

Truth == HeardPassed /\ ReportsHonest

-----------------------------------------------------------------------------
LEMMA QueueNumbers ==
  ASSUME Types
  PROVE  /\ queue.id \in Nat /\ queue.cursor \in Nat /\ Len(queue.events) \in Nat
         /\ queue.cursor <= Len(queue.events) /\ queue.lastId = queue.id
         /\ heard \subseteq Nat \X Nat
  <1>1. queue.id \in Ids \cup {0}
    BY DEF Types, RuntimeTypes, QueueOK, Queues
  <1>2. queue.id \in Nat
    BY <1>1, IdsAreNat
  <1>3. QED
    BY <1>2 DEF Types, RuntimeTypes, QueueOK, Queues

(* A report stays true, and a new one is. *)
LEMMA HonestyKept ==
  ASSUME Types, ReportsHonest,
         \A r \in Reports : Honest(r, queue, heard) => Honest(r, queue', heard'),
         \/ fromNative' = fromNative
         \/ fromNative # <<>> /\ fromNative' = Tail(fromNative)
         \/ \E r \in Reports : /\ fromNative' = Append(fromNative, r)
                               /\ Honest(r, queue', heard')
  PROVE  ReportsHonest'
  <1>1. fromNative \in Seq(Reports)
    BY DEF Types, WireTypes
  <1>2. \A i \in DOMAIN fromNative :
          fromNative[i] \in Reports /\ Honest(fromNative[i], queue', heard')
    BY <1>1 DEF ReportsHonest
  <1>3. CASE fromNative' = fromNative
    BY <1>2, <1>3 DEF ReportsHonest
  <1>4. CASE fromNative # <<>> /\ fromNative' = Tail(fromNative)
    <2>1. /\ DOMAIN fromNative = 1 .. Len(fromNative) /\ Len(fromNative) \in Nat \ {0}
          /\ DOMAIN Tail(fromNative) = 1 .. Len(fromNative) - 1
          /\ \A i \in 1 .. Len(fromNative) - 1 :
               Tail(fromNative)[i] = fromNative[i + 1] /\ i + 1 \in DOMAIN fromNative
      BY <1>1, <1>4
    <2>2. QED
      BY <1>2, <1>4, <2>1 DEF ReportsHonest
  <1>5. ASSUME NEW r \in Reports, fromNative' = Append(fromNative, r),
               Honest(r, queue', heard')
        PROVE  ReportsHonest'
    <2>1. /\ DOMAIN fromNative = 1 .. Len(fromNative) /\ Len(fromNative) \in Nat
          /\ DOMAIN Append(fromNative, r) = 1 .. Len(fromNative) + 1
          /\ \A i \in 1 .. Len(fromNative) : Append(fromNative, r)[i] = fromNative[i]
          /\ Append(fromNative, r)[Len(fromNative) + 1] = r
      BY <1>1
    <2>2. ASSUME NEW i \in DOMAIN fromNative' PROVE Honest(fromNative'[i], queue', heard')
      <3>1. CASE i = Len(fromNative) + 1
        BY <1>5, <2>1, <3>1
      <3>2. CASE i # Len(fromNative) + 1
        <4>1. i \in 1 .. Len(fromNative) + 1
          BY <1>5, <2>1, <2>2
        <4>2. i \in DOMAIN fromNative
          BY <2>1, <3>2, <4>1
        <4>3. fromNative'[i] = fromNative[i]
          BY <1>5, <2>1, <4>2
        <4>4. QED
          BY <1>2, <4>2, <4>3
      <3>3. QED
        BY <3>1, <3>2
    <2>3. QED
      BY <2>2 DEF ReportsHonest
  <1>6. QED
    BY <1>3, <1>4, <1>5

(* Steps that hear nothing and leave the batch where it is, or discard it. *)
LEMMA QuietTruth ==
  ASSUME Types, Truth, heard' = heard, queue'.id = queue.id,
         queue'.cursor \in Nat, queue.cursor <= queue'.cursor,
         \/ fromNative' = fromNative
         \/ fromNative # <<>> /\ fromNative' = Tail(fromNative)
         \/ \E r \in Reports : /\ fromNative' = Append(fromNative, r)
                               /\ r.kind \notin {"delivered", "dropped"}
  PROVE  Truth'
  <1>1. HeardPassed'
    BY QueueNumbers DEF Truth, HeardPassed
  <1>2. \A r \in Reports : Honest(r, queue, heard) => Honest(r, queue', heard')
    <2>1. \A r \in Reports : r.kind \in {"delivered", "dropped"} => r.index \in Nat
      BY ReportKinds DEF EventReports
    <2>2. QED
      BY <2>1, QueueNumbers DEF Honest
  <1>3. ReportsHonest'
    <2>1. \A r : r.kind \notin {"delivered", "dropped"} => Honest(r, queue', heard')
      BY DEF Honest
    <2>2. QED
      BY <1>2, <2>1, HonestyKept DEF Truth
  <1>4. QED
    BY <1>1, <1>3 DEF Truth

(* An event is heard once, when the cursor passes it, or never.            *)
LEMMA DeliverTruth ==
  ASSUME Types, Truth, Deliver
  PROVE  Truth'
  <1>1. /\ Pending(queue) /\ fromNative' = Append(fromNative, Outcome)
        /\ Outcome \in Reports
        /\ queue'.id = queue.id /\ queue'.cursor = queue.cursor + 1
        /\ heard' = IF NextTimed(queue).port \in attached
                    THEN heard \cup {<<queue.id, queue.cursor + 1>>} ELSE heard
    <2>1. Pending(queue) /\ QueueOK
      BY DEF Deliver, Due, Types, RuntimeTypes
    <2>2. Outcome \in EventReports /\ fromNative' = Append(fromNative, Outcome)
          /\ queue' = Advanced(queue)
      BY DeliverTypes DEF Types
    <2>3. QED
      BY <2>1, <2>2, NextIsTimed DEF Deliver, Reports
  <1>2. queue.id \in Nat /\ queue.cursor \in Nat /\ heard \subseteq Nat \X Nat
    BY QueueNumbers
  <1>3. ~(<<queue.id, queue.cursor + 1>> \in heard)
    BY <1>2 DEF Truth, HeardPassed
  <1>4. HeardPassed'
    BY <1>1, <1>2 DEF Truth, HeardPassed
  <1>5. Honest(Outcome, queue', heard')
    <2>1. PICK r : r = Outcome
      OBVIOUS
    <2>2. /\ r.id = queue.id /\ r.index = queue.cursor
          /\ (r.kind = "delivered") <=> (NextTimed(queue).port \in attached)
      BY <1>1, <2>1, OutcomeFields
    <2>3. (r.kind = "delivered") <=> (<<r.id, r.index + 1>> \in heard')
      BY <1>1, <1>3, <2>2
    <2>4. Honest(r, queue', heard')
      BY <1>1, <1>2, <2>2, <2>3 DEF Honest
    <2>5. QED
      BY <2>1, <2>4
  <1>6. ASSUME NEW r \in Reports, Honest(r, queue, heard) PROVE Honest(r, queue', heard')
    <2>1. SUFFICES ASSUME r.kind \in {"delivered", "dropped"} PROVE Honest(r, queue', heard')
      BY DEF Honest
    <2>2. r.index \in Nat
      BY <2>1, ReportKinds DEF EventReports
    <2>3. r.index + 1 # queue.cursor + 1 /\ r.index < queue.cursor + 1
      BY <1>2, <1>6, <2>1, <2>2 DEF Honest
    <2>4. (<<r.id, r.index + 1>> \in heard') <=> (<<r.id, r.index + 1>> \in heard)
      BY <1>1, <2>3
    <2>5. QED
      BY <1>1, <1>6, <2>1, <2>3, <2>4 DEF Honest
  <1>7. QED
    BY <1>1, <1>4, <1>5, <1>6, HonestyKept DEF Truth

(* A batch that is taken is the first the runtime hears of its id, which   *)
(* is larger than any it has heard of.                                     *)
LEMMA InstallTruth ==
  ASSUME Types, Truth, fromNative = <<>>, heard' = heard,
         queue'.id \in Nat, queue.id < queue'.id,
         NEW id, fromNative' = Append(fromNative, [kind |-> "accepted", id |-> id])
  PROVE  Truth'
  <1>1. HeardPassed'
    <2>1. heard \subseteq Nat \X Nat /\ queue.id \in Nat
      BY QueueNumbers
    <2>2. ASSUME NEW h \in heard PROVE h[1] < queue'.id
      <3>1. h[1] \in Nat /\ h[1] <= queue.id
        BY <2>1, <2>2 DEF Truth, HeardPassed
      <3>2. QED
        BY <2>1, <3>1
    <2>3. \A h \in heard : h[1] \in Nat
      BY <2>1
    <2>4. QED
      BY <2>2, <2>3 DEF HeardPassed
  <1>2. fromNative' = <<[kind |-> "accepted", id |-> id]>>
    BY HeadTailOfOne
  <1>3. \A i \in DOMAIN fromNative' : fromNative'[i].kind = "accepted"
    BY <1>2
  <1>4. QED
    BY <1>1, <1>3 DEF Truth, ReportsHonest, Honest

LEMMA ReceiveTruth ==
  ASSUME Knowledge, Truth, Receive
  PROVE  Truth'
  <1>0. Types /\ OneRequest /\ Foresight
    BY DEF Knowledge, Protocol
  <1>1. queue.cursor \in Nat /\ queue.cursor <= Len(queue.events)
        /\ Len(queue.events) \in Nat /\ queue.id \in Nat
    BY <1>0, QueueNumbers
  <1>2. CASE ReceiveSchedule
    <2>1. Packet \in SchedulePackets /\ Asks("schedule")
      BY <1>2, Received, PacketKinds DEF ReceiveSchedule, ReceiveFrame
    <2>2. fromNative = <<>>
      BY <1>0, <2>1 DEF Foresight, Serviceable
    <2>3. CASE Refusals(queue, Packet.id, Packet.events, now) = {}
      <3>1. "id" \notin Refusals(queue, Packet.id, Packet.events, now)
        BY <2>3
      <3>2. ~(Packet.id <= queue.lastId) /\ queue.lastId = queue.id
        BY <1>0, <3>1, QueueNumbers DEF Refusals
      <3>3. Packet.id \in Nat
        BY <2>1, IdsAreNat DEF SchedulePackets
      <3>4. queue'.id = Packet.id /\ queue.id < queue'.id
        BY <1>1, <1>2, <2>3, <3>2, <3>3 DEF ReceiveSchedule, Installed
      <3>5. /\ fromNative' = Append(fromNative, [kind |-> "accepted", id |-> Packet.id])
            /\ heard' = heard
        BY <1>2, <2>3 DEF ReceiveSchedule, Emit
      <3>6. QED
        BY <1>0, <2>2, <3>3, <3>4, <3>5, InstallTruth
    <2>4. CASE Refusals(queue, Packet.id, Packet.events, now) # {}
      <3>1. Refusals(queue, Packet.id, Packet.events, now) \in SUBSET Reasons
        BY DEF Refusals, Reasons
      <3>2. \E r \in Reports : /\ fromNative' = Append(fromNative, r)
                               /\ r.kind \notin {"delivered", "dropped"}
        BY <1>2, <2>4, <3>1 DEF ReceiveSchedule, Emit, Reports, Acks
      <3>3. queue' = queue /\ heard' = heard
        BY <1>2, <2>4 DEF ReceiveSchedule
      <3>4. QED
        BY <1>0, <1>1, <3>2, <3>3, QuietTruth
    <2>5. QED
      BY <2>3, <2>4
  <1>3. CASE ReceiveCancel
    <2>1. Packet \in CancelPackets
      BY <1>3, Received, PacketKinds DEF ReceiveCancel, ReceiveFrame
    <2>2. /\ [kind |-> "cancelled", id |-> Packet.id] \in Reports
          /\ [kind |-> "rejected", why |-> {"unknown"}] \in Reports
      BY <2>1 DEF CancelPackets, Reports, Acks, StatusReports, Reasons
    <2>3. \E r \in Reports : /\ fromNative' = Append(fromNative, r)
                             /\ r.kind \notin {"delivered", "dropped"}
      BY <1>3, <2>2 DEF ReceiveCancel, Emit
    <2>4. queue' \in {queue, Discarded(queue)} /\ heard' = heard
      BY <1>3 DEF ReceiveCancel
    <2>5. queue'.id = queue.id /\ queue'.cursor \in {queue.cursor, Len(queue.events)}
      BY <1>0, <2>4, DiscardedQueue DEF Types, RuntimeTypes
    <2>6. QED
      BY <1>0, <1>1, <2>3, <2>4, <2>5, QuietTruth
  <1>4. CASE ReceiveEnd
    <2>1. queue' = Discarded(queue) /\ heard' = heard /\ fromNative' = fromNative
      BY <1>4 DEF ReceiveEnd
    <2>2. queue'.id = queue.id /\ queue'.cursor = Len(queue.events)
      BY <1>0, <2>1, DiscardedQueue DEF Types, RuntimeTypes
    <2>3. QED
      BY <1>0, <1>1, <2>1, <2>2, QuietTruth
  <1>5. CASE ReceiveConnection
    <2>1. Packet \in ConnectionPackets
      BY <1>5, Received, PacketKinds DEF ReceiveConnection, ReceiveFrame
    <2>2. [kind |-> "connection", port |-> Packet.port, on |-> Packet.on] \in Reports
      BY <2>1 DEF ConnectionPackets, Reports, PortReports
    <2>3. \/ fromNative' = fromNative
          \/ \E r \in Reports : /\ fromNative' = Append(fromNative, r)
                                /\ r.kind \notin {"delivered", "dropped"}
      BY <1>5, <2>2 DEF ReceiveConnection, Emit
    <2>4. queue' = queue /\ heard' = heard
      BY <1>5 DEF ReceiveConnection
    <2>5. QED
      BY <1>0, <1>1, <2>3, <2>4, QuietTruth
  <1>6. CASE ReceiveMidi \/ ReceiveAdvance
    <2>1. UNCHANGED <<queue, heard, fromNative>>
      BY <1>6 DEF ReceiveMidi, ReceiveAdvance
    <2>2. QED
      BY <1>0, <1>1, <2>1, QuietTruth
  <1>7. QED
    BY <1>2, <1>3, <1>4, <1>5, <1>6 DEF Receive

LEMMA NextTruth ==
  ASSUME Knowledge, Truth, [Next]_vars
  PROVE  Truth'
  <1>0. Types
    BY DEF Knowledge, Protocol
  <1>1. queue.cursor \in Nat /\ queue.cursor <= queue.cursor
    BY <1>0, QueueNumbers
  <1>2. CASE UNCHANGED <<queue, heard, fromNative>>
    BY <1>0, <1>1, <1>2, QuietTruth
  <1>3. CASE Requests \/ Return \/ TimesOut \/ DevicePolls \/ DeviceWakes
             \/ AdvanceMoves \/ Tick \/ UNCHANGED vars
    <2>1. Requests => UNCHANGED <<queue, heard, fromNative>>
      <3>1. ASSUME NEW pk \in Packets, Submits(pk) PROVE UNCHANGED <<queue, heard, fromNative>>
        BY <3>1 DEF Submits, RequestFrame, runtime
      <3>2. EndSession \/ SessionFails => UNCHANGED <<queue, heard, fromNative>>
        BY DEF EndSession, SessionFails, runtime, wire
      <3>3. QED
        BY <1>0, <3>1, <3>2, RequestSubmits
    <2>2. QED
      BY <1>2, <1>3, <2>1 DEF Return, TimesOut, DevicePolls, DeviceWakes, AdvanceMoves,
         Tick, vars, runtime, wire
  <1>4. CASE DeviceDelivers \/ AdvanceDelivers
    BY <1>0, <1>4, DeliverTruth DEF DeviceDelivers, AdvanceDelivers
  <1>5. CASE Receive
    BY <1>5, ReceiveTruth
  <1>6. CASE Acknowledge
    <2>1. [kind |-> "ack"] \in Reports
      BY DEF Reports, Acks
    <2>2. /\ fromNative' = Append(fromNative, [kind |-> "ack"])
          /\ queue' = queue /\ heard' = heard
      BY <1>6 DEF Acknowledge, Emit
    <2>3. QED
      BY <1>0, <1>1, <2>1, <2>2, QuietTruth
  <1>7. CASE Reader
    <2>1. /\ fromNative # <<>> /\ fromNative' = Tail(fromNative)
          /\ queue' = queue /\ heard' = heard
      BY <1>0, <1>7, ReaderTakes DEF runtime
    <2>2. QED
      BY <1>0, <1>1, <2>1, QuietTruth
  <1>8. QED
    BY <1>3, <1>4, <1>5, <1>6, <1>7 DEF Next, DeviceThread, LuaThread
-----------------------------------------------------------------------------
(* What a step shows the client. *)

Kept == [Promise!Next]_Promise!vars

LEMMA ShowsNothing ==
  ASSUME UNCHANGED <<record, heard>>, queue'.id = queue.id, Before' = Before
  PROVE  Kept
  BY DEF Kept, Promise!vars

(* Only a schedule that is returned or gives up settles something. *)
LEMMA Settles ==
  ASSUME UNCHANGED <<record, heard, queue>>, call' = None
  PROVE  Kept
  <1>1. Before' = NoBatch
    BY DEF Before, None
  <1>2. Promise!Settle
    BY <1>1 DEF Promise!Settle
  <1>3. QED
    BY <1>2 DEF Kept, Promise!Next

LEMMA RequestKept ==
  ASSUME Knowledge, NEW pk \in Packets, Submits(pk)
  PROVE  Kept
  <1>0. Types /\ call = None /\ UNCHANGED <<queue, heard>>
    BY DEF Knowledge, Protocol, Submits, Sends, RequestFrame, runtime
  <1>1. Before = NoBatch
    BY <1>0 DEF Before, None
  <1>2. CASE pk.kind = "schedule"
    <2>1. PICK b \in Batches : pk.events = Planned(b)
      BY <1>2 DEF Submits, Admissible
    <2>2. now \in 0 .. MaxTime
      BY <1>0 DEF Types, RuntimeTypes
    <2>3. pk.events \in Offers
      BY <2>1, <2>2 DEF Offers, Planned
    <2>4. pk.id \in Ids
      BY <1>2, PacketKinds DEF SchedulePackets
    <2>5. /\ ~Promise!Active /\ Before' = record
          /\ record' = [id |-> pk.id, status |-> "submitting", events |-> pk.events,
                        outcomes |-> <<>>]
      BY <1>2 DEF Submits, Admissible, Reporting, Promise!Active, Before
    <2>6. Promise!Offer(pk.id, pk.events)
      BY <1>0, <2>5 DEF Promise!Offer
    <2>7. QED
      BY <2>3, <2>4, <2>6 DEF Kept, Promise!Next
  <1>3. CASE pk.kind # "schedule"
    <2>1. Before' = NoBatch /\ record' = record
      BY <1>3 DEF Submits, Admissible, Before
    <2>2. QED
      BY <1>0, <1>1, <2>1, ShowsNothing
  <1>4. QED
    BY <1>2, <1>3

(* A batch is only given up for one of whose end the client knows. *)
LEMMA ReturnKept ==
  ASSUME Knowledge, Return
  PROVE  Kept
  <1>1. call' = None /\ UNCHANGED <<queue, heard>>
    BY DEF Return, runtime
  <1>2. CASE call.kind = "schedule" /\ answer.kind = "rejected"
    <2>1. Submitting(record)
      BY <1>2 DEF Knowledge, Phases, SchedulePhase, Refusable
    <2>2. /\ record' = Before /\ Before' = NoBatch
      BY <1>1, <1>2 DEF Return, Before, None
    <2>3. Promise!Refuse
      BY <1>1, <2>1, <2>2 DEF Promise!Refuse, Promise!Active, Submitting
    <2>4. QED
      BY <2>3 DEF Kept, Promise!Next
  <1>3. CASE ~(call.kind = "schedule" /\ answer.kind = "rejected")
    <2>1. record' = record
      BY <1>3 DEF Return
    <2>2. QED
      BY <1>1, <2>1, Settles
  <1>4. QED
    BY <1>2, <1>3

LEMMA ReceiveKept ==
  ASSUME Knowledge, Receive
  PROVE  Kept
  <1>0. Types /\ Foresight
    BY DEF Knowledge, Protocol
  <1>1. UNCHANGED <<record, heard, call>> /\ Before' = Before
    <2>1. UNCHANGED <<record, call>>
      BY <1>0, ReceiveEmits DEF views
    <2>2. heard' = heard
      BY DEF Receive, ReceiveSchedule, ReceiveCancel, ReceiveMidi, ReceiveConnection,
         ReceiveAdvance, ReceiveEnd
    <2>3. QED
      BY <2>1, <2>2 DEF Before
  <1>2. CASE queue'.id = queue.id
    BY <1>1, <1>2, ShowsNothing
  <1>3. CASE queue'.id # queue.id
    <2>1. ReceiveSchedule
      <3>1. ReceiveCancel \/ ReceiveEnd => queue' \in {queue, Discarded(queue)}
        BY DEF ReceiveCancel, ReceiveEnd
      <3>2. ReceiveMidi \/ ReceiveConnection \/ ReceiveAdvance => queue' = queue
        BY DEF ReceiveMidi, ReceiveConnection, ReceiveAdvance
      <3>3. QED
        BY <1>0, <1>3, <3>1, <3>2, DiscardedQueue DEF Receive, Types, RuntimeTypes
    <2>2. Packet \in SchedulePackets /\ Asks("schedule")
      BY <2>1, Received, PacketKinds DEF ReceiveSchedule, ReceiveFrame
    <2>3. record = [id |-> Packet.id, status |-> "submitting",
                    events |-> Packet.events, outcomes |-> <<>>]
      BY <1>0, <2>2 DEF Foresight, Serviceable
    <2>4. record \in Records /\ record # NoBatch
      <3>1. record \in Records
        BY <2>2, <2>3 DEF SchedulePackets, Records, Statuses
      <3>2. QED
        BY <3>1, MidiAssumption
    <2>5. /\ Refusals(queue, Packet.id, Packet.events, now) = {}
          /\ queue'.id = Packet.id
      BY <1>3, <2>1 DEF ReceiveSchedule, Installed
    <2>6. queue.id < Packet.id
      <3>1. "id" \notin Refusals(queue, Packet.id, Packet.events, now)
        BY <2>5
      <3>2. ~(Packet.id <= queue.lastId) /\ queue.lastId = queue.id /\ queue.id \in Nat
        BY <1>0, <3>1, QueueNumbers DEF Refusals
      <3>3. Packet.id \in Nat
        BY <2>2, IdsAreNat DEF SchedulePackets
      <3>4. QED
        BY <3>2, <3>3
    <2>7. Promise!Take
      BY <1>1, <2>3, <2>4, <2>5, <2>6 DEF Promise!Take, Promise!Active
    <2>8. QED
      BY <2>7 DEF Kept, Promise!Next
  <1>4. QED
    BY <1>2, <1>3

(* What the application hears is an event of the batch that the client     *)
(* takes for active, and one that it has no report of yet.                 *)
LEMMA DeliverKept ==
  ASSUME Knowledge, Truth, Deliver
  PROVE  Kept
  <1>0. Types /\ Foresight
    BY DEF Knowledge, Protocol
  <1>1. /\ UNCHANGED <<record, call>> /\ Before' = Before /\ queue'.id = queue.id
        /\ Pending(queue)
    <2>1. UNCHANGED <<record, call>>
      BY DEF Deliver, views
    <2>2. Pending(queue) /\ queue' = Advanced(queue)
      BY DEF Deliver, Due
    <2>3. queue'.id = queue.id
      BY <1>0, <2>2, NextIsTimed DEF Types, RuntimeTypes
    <2>4. QED
      BY <2>1, <2>2, <2>3 DEF Before
  <1>2. CASE NextTimed(queue).port \notin attached
    <2>1. heard' = heard
      BY <1>2 DEF Deliver
    <2>2. QED
      BY <1>1, <2>1, ShowsNothing
  <1>3. CASE NextTimed(queue).port \in attached
    <2> DEFINE k == queue.cursor + 1
    <2>1. heard' = heard \cup {<<queue.id, k>>}
      BY <1>3 DEF Deliver
    <2>2. PICK v \in Views : Foreseen(v) /\ KnowsQueue(v)
      BY <1>0 DEF Foresight
    <2>3. /\ v.rec # NoBatch /\ v.rec.id = queue.id /\ v.rec.status = "accepted"
          /\ v.rec.events = queue.events /\ Len(v.rec.outcomes) = queue.cursor
      BY <1>1, <2>2 DEF KnowsQueue
    <2>4. /\ Active(record) /\ record.id = queue.id /\ record.events = queue.events
          /\ Len(record.outcomes) <= queue.cursor
      <3>1. Later(View, v)
        BY <1>0, <2>2, ForeseenFacts
      <3>2. Active(v.rec)
        BY <2>3 DEF Active
      <3>3. QED
        BY <2>3, <3>1, <3>2 DEF Later, View
    <2>5. queue.cursor \in Nat /\ Len(record.outcomes) \in Nat
      <3>1. record \in Records
        BY <1>0, <2>4 DEF Active, Types, ServerTypes
      <3>2. QED
        BY <1>0, <3>1, QueueNumbers DEF Records
    <2>6. k > Len(record.outcomes) /\ k \in DOMAIN record.events
      BY <1>0, <1>1, <2>4, <2>5, NextIsTimed DEF Types, RuntimeTypes, QueueOK, Queues
    <2>7. \A h \in heard : h[1] = record.id => h[2] < k
      <3>1. heard \subseteq Nat \X Nat
        BY <1>0, QueueNumbers
      <3>2. QED
        BY <2>4, <2>5, <3>1 DEF Truth, HeardPassed
    <2>8. Promise!Hear(k)
      BY <1>1, <2>1, <2>4, <2>6, <2>7 DEF Promise!Hear, Promise!Active, Active
    <2>9. QED
      BY <2>4, <2>6, <2>8 DEF Kept, Promise!Next, Promise!Active, Active
  <1>4. QED
    BY <1>2, <1>3

-----------------------------------------------------------------------------
(* The reader's next view, and the one that all reports lead to. *)
LEMMA LeadsLater ==
  ASSUME NEW s \in Seq(Reports), NEW a, NEW u, NEW v, Leads(u, s, a, v)
  PROVE  Later(u, v)
  <1>1. PICK V : Path(V, s, a) /\ V[0] = u /\ V[Len(s)] = v
    BY DEF Leads
  <1>2. 0 \in 0 .. Len(s)
    OBVIOUS
  <1>3. QED
    BY <1>1, <1>2 DEF Path

LEMMA ReaderTakesNext ==
  ASSUME Knowledge, Reader
  PROVE  \E u, v \in Views :
           /\ Takes(View, Report, u) /\ View' = u /\ Later(u, v) /\ KnowsQueue(v)
  <1>0. Types /\ Foresight
    BY DEF Knowledge, Protocol
  <1>1. PICK v \in Views : Foreseen(v) /\ KnowsQueue(v)
    BY <1>0 DEF Foresight
  <1>2. fromNative \in Seq(Reports) /\ fromNative # <<>>
    BY <1>0, ReaderTakes DEF Types, WireTypes
  <1>3. PICK u \in Views : Takes(View, Head(fromNative), u)
                           /\ Leads(u, Tail(fromNative), attached, v)
    BY <1>1, <1>2, PathShifts DEF Foreseen
  <1>4. Later(u, v)
    <2>1. Tail(fromNative) \in Seq(Reports)
      BY <1>2, Taking
    <2>2. QED
      BY <1>3, <2>1, LeadsLater
  <1>5. View' = u
    BY <1>0, <1>3, ReaderSees DEF Report
  <1>6. QED
    BY <1>1, <1>3, <1>4, <1>5 DEF Report

(* What is accepted or cancelled is the batch the runtime has taken last.  *)
LEMMA StatusKept ==
  ASSUME Knowledge, ReadStatus
  PROVE  Kept
  <1>0. Types /\ Reader
    BY DEF Knowledge, Protocol, Reader
  <1>1. PICK u, v \in Views :
          /\ Takes(View, Report, u) /\ View' = u /\ Later(u, v) /\ KnowsQueue(v)
    BY <1>0, ReaderTakesNext
  <1>2. Report.kind \in {"accepted", "cancelled"}
    BY DEF ReadStatus, Reads
  <1>3. /\ record # NoBatch
        /\ Submitting(record) <=> Report.kind = "accepted"
        /\ record' = [record EXCEPT !.status = Report.kind]
    <2>1. TakesStatus(View, Report, u)
      BY <1>1, <1>2 DEF Takes
    <2>2. record' = u.rec
      BY <1>1 DEF View
    <2>3. QED
      BY <2>1, <2>2 DEF TakesStatus, View
  <1>4. /\ record \in Records /\ record' \in Records
        /\ record'.id = record.id /\ record'.status = Report.kind
    <2>1. record \in Records
      BY <1>0, <1>3 DEF Types, ServerTypes
    <2>2. QED
      BY <1>2, <1>3, <2>1 DEF Records, Statuses
  <1>5. queue.id = record.id
    <2>1. u.rec = record' /\ u.rec # NoBatch /\ ~Submitting(u.rec)
      BY <1>1, <1>2, <1>4, MidiAssumption DEF View, Submitting
    <2>2. v.rec # NoBatch /\ v.rec.id = record.id /\ ~Submitting(v.rec)
      BY <1>1, <1>4, <2>1 DEF Later
    <2>3. QED
      BY <1>1, <2>2 DEF KnowsQueue, IdOf
  <1>6. UNCHANGED <<heard, queue, call>> /\ Before' = Before
    BY <1>0, ReaderTakes DEF runtime, Before
  <1>7. CASE Report.kind = "accepted"
    <2>1. Promise!Acknowledge
      BY <1>3, <1>5, <1>6, <1>7 DEF Promise!Acknowledge, Promise!Active, Submitting
    <2>2. QED
      BY <2>1 DEF Kept, Promise!Next
  <1>8. CASE Report.kind = "cancelled"
    <2>1. Promise!Cancel
      BY <1>3, <1>5, <1>6, <1>8 DEF Promise!Cancel, Submitting
    <2>2. QED
      BY <2>1 DEF Kept, Promise!Next
  <1>9. QED
    BY <1>2, <1>7, <1>8

(* The record says delivered of what was heard and dropped of the rest.    *)
LEMMA DeliveryKept ==
  ASSUME Knowledge, Truth, ReadDelivery
  PROVE  Kept
  <1>0. Types /\ Reader
    BY DEF Knowledge, Protocol, Reader
  <1>1. PICK u \in Views : Takes(View, Report, u) /\ View' = u
    BY <1>0, ReaderTakesNext
  <1>2. Report.kind \in {"delivered", "dropped"}
    BY DEF ReadDelivery, Reads
  <1>3. /\ record # NoBatch /\ record.status = "accepted" /\ record.id = Report.id
        /\ Report.index = Len(record.outcomes) /\ Report.index < Len(record.events)
        /\ record' = [record EXCEPT
                        !.outcomes = Append(@, Report.kind),
                        !.status = IF Len(record.outcomes) + 1 = Len(record.events)
                                   THEN "completed" ELSE @]
    <2>1. TakesDelivery(View, Report, u)
      BY <1>1, <1>2 DEF Takes
    <2>2. record' = u.rec
      BY <1>1 DEF View
    <2>3. QED
      BY <2>1, <2>2 DEF TakesDelivery, View
  <1>4. (Report.kind = "delivered") <=> (<<Report.id, Report.index + 1>> \in heard)
    <2>1. fromNative \in Seq(Reports) /\ fromNative # <<>>
      BY <1>0, ReaderTakes DEF Types, WireTypes
    <2>2. 1 \in DOMAIN fromNative /\ Report = fromNative[1]
      BY <2>1 DEF Report
    <2>3. QED
      BY <1>2, <2>2 DEF Truth, ReportsHonest, Honest
  <1>5. record.events \in Seq(Timed) /\ Len(record.outcomes) \in Nat
    <2>1. record \in Records
      BY <1>0, <1>3 DEF Types, ServerTypes
    <2>2. QED
      BY <2>1 DEF Records
  <1>6. UNCHANGED <<heard, queue, call>> /\ Before' = Before
    BY <1>0, ReaderTakes DEF runtime, Before
  <1>7. PICK k : k = Len(record.outcomes) + 1
    OBVIOUS
  <1>8. k \in DOMAIN record.events
    BY <1>3, <1>5, <1>7
  <1>9. Report.kind = IF <<record.id, k>> \in heard THEN "delivered" ELSE "dropped"
    BY <1>2, <1>3, <1>4, <1>7
  <1>10. record' = [record EXCEPT
                      !.outcomes = Append(@, IF <<record.id, k>> \in heard
                                             THEN "delivered" ELSE "dropped"),
                      !.status = IF k = Len(record.events) THEN "completed" ELSE @]
    BY <1>3, <1>7, <1>9
  <1>11. Promise!Report
    BY <1>3, <1>6, <1>7, <1>8, <1>10 DEF Promise!Report, Promise!Active
  <1>12. QED
    BY <1>11 DEF Kept, Promise!Next

LEMMA NextKept ==
  ASSUME Knowledge, Truth, [Next]_vars
  PROVE  Kept
  <1>0. Types
    BY DEF Knowledge, Protocol
  <1>1. CASE Requests
    <2>1. EndSession \/ SessionFails =>
            UNCHANGED <<record, heard, queue>> /\ Before' = Before
      BY DEF EndSession, SessionFails, runtime, views, Before
    <2>2. EndSession \/ SessionFails => Kept
      BY <2>1, ShowsNothing
    <2>3. QED
      BY <1>0, <1>1, <2>2, RequestSubmits, RequestKept
  <1>2. CASE Return
    BY <1>2, ReturnKept
  <1>3. CASE TimesOut
    <2>1. call' = None /\ UNCHANGED <<record, heard, queue>>
      BY <1>3 DEF TimesOut, runtime, views
    <2>2. QED
      BY <2>1, Settles
  <1>4. CASE DevicePolls \/ DeviceWakes \/ AdvanceMoves \/ Tick \/ Acknowledge
             \/ UNCHANGED vars
    <2>1. UNCHANGED <<record, heard, queue, call>>
      BY <1>4 DEF DevicePolls, DeviceWakes, AdvanceMoves, Tick, Acknowledge, vars,
         runtime, views
    <2>2. QED
      BY <2>1, ShowsNothing DEF Before
  <1>5. CASE DeviceDelivers \/ AdvanceDelivers
    BY <1>5, DeliverKept DEF DeviceDelivers, AdvanceDelivers
  <1>6. CASE Receive
    BY <1>6, ReceiveKept
  <1>7. CASE ReadAck \/ ReadConnection
    <2>1. UNCHANGED <<heard, queue, call>>
      BY <1>0, <1>7, ReaderTakes DEF Reader, runtime
    <2>2. record' = record
      BY <1>7 DEF ReadAck, ReadConnection, views
    <2>3. QED
      BY <2>1, <2>2, ShowsNothing DEF Before
  <1>8. CASE ReadStatus \/ ReadDelivery
    BY <1>8, StatusKept, DeliveryKept
  <1>9. QED
    BY <1>1, <1>2, <1>3, <1>4, <1>5, <1>6, <1>7, <1>8
       DEF Next, DeviceThread, LuaThread, Reader

(* What is on its way about an event is true of it, and the runtime hears  *)
(* an event when its cursor passes it or never.                            *)
THEOREM TruthIsKept == Spec => []Truth
  <1>1. Init => Truth
    BY DEF Init, Truth, HeardPassed, ReportsHonest
  <1>2. Knowledge /\ Truth /\ [Next]_vars => Truth'
    BY NextTruth
  <1>3. QED
    BY <1>1, <1>2, KnowledgeKept, PTL DEF Spec

(* The input path implements what the API promises of a batch: one at a    *)
(* time, taken whole or not at all, in order and at most once, nothing of  *)
(* it after its end, and reports that are true.                            *)
THEOREM KeepsPromise == Spec => PromiseKept
  <1>1. Init => Promise!Init
    BY DEF Init, Promise!Init, Before, None, EmptyQueue
  <1>2. Knowledge /\ Truth /\ [Next]_vars => [Promise!Next]_Promise!vars
    BY NextKept DEF Kept
  <1>3. QED
    BY <1>1, <1>2, KnowledgeKept, TruthIsKept, PTL DEF Spec, PromiseKept, Promise!Spec
==============================================================================
