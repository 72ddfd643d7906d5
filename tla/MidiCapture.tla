---------------------------- MODULE MidiCapture ----------------------------
(***************************************************************************)
(* What the server records of the MIDI that a script emits                 *)
(* (devices/midi, Decoder and Capture): a stream decoder per port, one     *)
(* record per write or, when a write holds several messages, one record    *)
(* per message, under a limit that ends the session when it is reached.    *)
(* A message is its own bytes, the status included under running status.   *)
(* A port may go and come back (NativeBackend.receive, patch 0013): it     *)
(* emits nothing while it is away, and its decoder starts anew each time.  *)
(***************************************************************************)
EXTENDS Integers, Sequences, SequencesExt, Bags

CONSTANTS MidiPorts,      \* the configured ports
          Writes,         \* the byte sequences a script may emit at once
          CaptureLimit, MaxEmissions, MaxConnectionChanges

ASSUME MidiCaptureAssumption ==
  /\ CaptureLimit \in Nat /\ MaxEmissions \in Nat /\ MaxConnectionChanges \in Nat
  /\ Writes \subseteq Seq(0..255)

VARIABLES capture,   \* Capture.count, .emissions, .notes and the decoders, midi_connections;
                     \* whether the capture failed
          midiLog,   \* every record of the complete log
          emitted    \* history: port -> the bytes it emitted, with a Cut at each change
                     \* of its connection

midiVars == <<capture, midiLog, emitted>>

-----------------------------------------------------------------------------
(* Decoder.feed_messages, byte by byte.  A decoder also collects what it    *)
(* decoded and whether it raised.                                           *)

NewDecoder == [status |-> 0, pending |-> <<>>, sysex |-> <<>>,
               messages |-> <<>>, raised |-> FALSE]

Raise(d) == [d EXCEPT !.raised = TRUE]
Decoded(d, message) == [d EXCEPT !.messages = Append(@, message)]

\* Program change, channel pressure, time code and song select have one data byte.
Needed(status) == IF status \in 192..223 \cup {241, 243} THEN 1 ELSE 2

RealTime(d, byte) == IF byte \in {249, 253} THEN Raise(d) ELSE Decoded(d, <<byte>>)

InSysex(d, byte) ==
  IF byte = 247 THEN Decoded([d EXCEPT !.sysex = <<>>], Append(d.sysex, byte))
  ELSE IF byte >= 128 THEN Raise(d)
  ELSE [d EXCEPT !.sysex = Append(@, byte)]

NewStatus(d, byte) ==
  IF d.pending # <<>> \/ byte \in {244, 245, 247} THEN Raise(d)
  ELSE IF byte = 240 THEN [d EXCEPT !.status = 0, !.sysex = <<byte>>]
  ELSE IF byte = 246 THEN Decoded([d EXCEPT !.status = 0], <<byte>>)
  ELSE [d EXCEPT !.status = byte]

\* A system common status does not run on; a channel status does.
DataByte(d, byte) ==
  LET pending == Append(d.pending, byte) IN
  IF d.status = 0 THEN Raise(d)
  ELSE IF Len(pending) < Needed(d.status) THEN [d EXCEPT !.pending = pending]
  ELSE Decoded([d EXCEPT !.pending = <<>>, !.status = IF @ < 240 THEN @ ELSE 0],
               <<d.status>> \o pending)

Feed(d, byte) ==
  IF d.raised THEN d
  ELSE IF byte >= 248 THEN RealTime(d, byte)
  ELSE IF d.sysex # <<>> THEN InSysex(d, byte)
  ELSE IF byte >= 128 THEN NewStatus(d, byte)
  ELSE DataByte(d, byte)

FeedMessages(d, data) == FoldLeft(Feed, [d EXCEPT !.messages = <<>>], data)

-----------------------------------------------------------------------------
(* Capture.notes: the notes that a port was sent and not released, a bag.   *)

IsNoteOn(m)  == m[1] \in 144..159 /\ m[3] > 0
IsNoteOff(m) == m[1] \in 128..143 \/ (m[1] \in 144..159 /\ m[3] = 0)
Note(m) == <<m[1] % 16, m[2]>>

\* A reset ends every note, all sound off and all notes off those of a channel.
Silences(m, note) ==
  m = <<255>> \/ (m[1] \in 176..191 /\ m[2] \in {120, 123} /\ m[1] % 16 = note[1])

NotesAfter(notes, m) ==
  IF IsNoteOn(m) THEN notes (+) SetToBag({Note(m)})
  ELSE IF IsNoteOff(m) THEN notes (-) SetToBag({Note(m)})
  ELSE [n \in {k \in DOMAIN notes : ~Silences(m, k)} |-> notes[n]]

-----------------------------------------------------------------------------
(* Capture.accept, and the events that NativeBackend.receive logs.          *)

MidiCaptureInit ==
  /\ capture = [count |-> 0, emissions |-> 0, changes |-> 0, failed |-> FALSE,
                connected |-> MidiPorts,
                notes |-> [p \in MidiPorts |-> EmptyBag],
                decoders |-> [p \in MidiPorts |-> NewDecoder]]
  /\ midiLog = <<>>
  /\ emitted = [p \in MidiPorts |-> <<>>]

Fits(parsed) ==
  /\ capture.count < CaptureLimit
  /\ Len(parsed) > 1 => capture.count + Len(parsed) <= CaptureLimit

Records(port, data, parsed) ==
  IF Len(parsed) <= 1
  THEN <<[index |-> capture.count + 1, port |-> port, bytes |-> data, decoded |-> parsed]>>
  ELSE [i \in DOMAIN parsed |->
          [index |-> capture.count + i, port |-> port, bytes |-> parsed[i],
           decoded |-> <<parsed[i]>>]]

\* An emission that is refused is kept raw and ends the session's capture.  The
\* runtime drops what a script sends to a port that has gone (emu_midi_send).
Accept(port, data) ==
  /\ ~capture.failed /\ capture.emissions < MaxEmissions /\ port \in capture.connected
  /\ LET d == FeedMessages(capture.decoders[port], data)
         records == Records(port, data, d.messages)
     IN IF d.raised \/ ~Fits(d.messages)
        THEN /\ capture' = [capture EXCEPT !.failed = TRUE]
             /\ UNCHANGED <<midiLog, emitted>>
        ELSE /\ capture' = [capture EXCEPT !.count = @ + Len(records), !.emissions = @ + 1,
                                           !.decoders[port] = d,
                                           !.notes[port] = FoldLeft(NotesAfter, @, d.messages)]
             /\ midiLog' = midiLog \o records
             /\ emitted' = [emitted EXCEPT ![port] = @ \o data]

Cut == 256

Toggled(port) ==
  IF port \in capture.connected THEN capture.connected \ {port} ELSE capture.connected \cup {port}

\* A report with a sequence: a request changed the port's connection.  The notes
\* stay as they are, the decoder of the port does not.  The reports at startup
\* have no sequence and change nothing.
ConnectionReported(port, decoder) ==
  /\ capture.changes < MaxConnectionChanges
  /\ capture' = [capture EXCEPT !.changes = @ + 1, !.connected = Toggled(port),
                                !.decoders[port] = decoder]
  /\ emitted' = [emitted EXCEPT ![port] = Append(@, Cut)]
  /\ UNCHANGED midiLog

ConnectionChangesOnly(port) == ConnectionReported(port, capture.decoders[port])
ConnectionChanges(port)     == ConnectionReported(port, NewDecoder)

MidiCaptureNext ==
  \E port \in MidiPorts : ConnectionChanges(port) \/ \E data \in Writes : Accept(port, data)

MidiCaptureSpec == MidiCaptureInit /\ [][MidiCaptureNext]_midiVars

-----------------------------------------------------------------------------
(* Properties. *)

\* What the records of a port say together.
OfPort(port, messages, r) == IF r.port = port THEN messages \o r.decoded ELSE messages
Logged(port) == FoldLeft(LAMBDA messages, r : OfPort(port, messages, r), <<>>, midiLog)

\* The ons of a note over its offs, from where it is highest since its last
\* silence: an off without an on before it takes nothing away.
Outstanding(messages, note) ==
  LET count == [k \in DOMAIN messages |->
                  IF IsNoteOn(messages[k]) /\ Note(messages[k]) = note THEN 1
                  ELSE IF IsNoteOff(messages[k]) /\ Note(messages[k]) = note THEN -1
                  ELSE 0]
      silence == Max({0} \cup {k \in DOMAIN messages : Silences(messages[k], note)})
  IN Max({0} \cup {SumFunctionOnSet(count, j..Len(messages)) :
                     j \in (silence + 1)..Len(messages)})

\* What a reader of the port gets who forgets what is incomplete at each Cut.
Overhear(d, item) ==
  IF item = Cut THEN [d EXCEPT !.status = 0, !.pending = <<>>, !.sysex = <<>>]
  ELSE Feed(d, item)
Heard(stream) == FoldLeft(Overhear, NewDecoder, stream)

(* However a script splits its messages over writes and ports, and whenever *)
(* a port goes and comes back, the log has every message of every port once *)
(* and in order, and no message is put together of bytes from two           *)
(* attachments; its records are numbered contiguously below the limit, and  *)
(* each record of a write that was split can be read by itself; and the     *)
(* outstanding notes of a port, by which evidence is refused, are its ons   *)
(* that no off of it, no reset and no all notes off followed, also over a   *)
(* time away (Capture.accept, logged_event, state, NativeBackend.receive).  *)
CaptureIsExact ==
  /\ capture.count = Len(midiLog) /\ capture.count <= CaptureLimit
  /\ \A i \in DOMAIN midiLog : midiLog[i].index = i
  /\ \A port \in MidiPorts : Logged(port) = Heard(emitted[port]).messages
  /\ \A port \in MidiPorts :
       LET messages == Heard(emitted[port]).messages
           notes == {Note(messages[k]) : k \in {i \in DOMAIN messages :
                       IsNoteOn(messages[i]) \/ IsNoteOff(messages[i])}}
           sounding == {note \in notes : Outstanding(messages, note) > 0}
       IN capture.notes[port] = [note \in sounding |-> Outstanding(messages, note)]
  /\ \A i \in DOMAIN midiLog :
       midiLog[i].decoded = <<midiLog[i].bytes>> =>
         FeedMessages(NewDecoder, midiLog[i].bytes).messages = midiLog[i].decoded

(* What docs/architecture/midi-contract.md says of output records: they     *)
(* include unchanged raw bytes, and the original bytes remain available.    *)
(* The code keeps them only of a write that holds at most one message: a    *)
(* record of a write that was split has its message's bytes instead, with   *)
(* the status that was left out and without what is incomplete              *)
(* (Capture.accept, NativeBackend.receive).                                 *)
RawBytesAreKept ==
  \A port \in MidiPorts :
    FoldLeft(LAMBDA bytes, r : IF r.port = port THEN bytes \o r.bytes ELSE bytes, <<>>, midiLog)
      = SelectSeq(emitted[port], LAMBDA item : item # Cut)
=============================================================================
