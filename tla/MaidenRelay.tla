----------------------------- MODULE MaidenRelay -----------------------------
(***************************************************************************)
(* The editor's relay to the interpreters of a session (maiden.py,         *)
(* Maiden.connection): connections write commands to the pipe of one       *)
(* interpreter, in pieces as the pipe takes them, under the lock of that   *)
(* interpreter.  A command is CommandSize pieces; the pipe holds Capacity. *)
(***************************************************************************)
EXTENDS Naturals, Sequences, SequencesExt

CONSTANTS Editors, CommandSize, Capacity, MaxCommands

ASSUME RelayAssumption == {CommandSize, Capacity, MaxCommands} \subseteq Nat \ {0}

VARIABLES relay,        \* the holders of the input lock, and each connection
          interpreter   \* what it has read, what is in its pipe, whether it runs

relayVars == <<relay, interpreter>>

RelayInit ==
  /\ relay = [holders |-> {}, sent |-> 0, open |-> Editors,
              left |-> [e \in Editors |-> 0], command |-> [e \in Editors |-> 0]]
  /\ interpreter = [read |-> <<>>, pipe |-> <<>>, running |-> TRUE]

\* A command arrives on a connection that has written its last one.
SendCommand(e) ==
  /\ e \in relay.open /\ relay.left[e] = 0 /\ relay.sent < MaxCommands
  /\ relay' = [relay EXCEPT !.sent = @ + 1, !.command[e] = relay.sent + 1,
                            !.left[e] = CommandSize]
  /\ UNCHANGED interpreter

FreeForAll(e) == TRUE
Free(e)       == relay.holders = {}

Acquire(e) ==
  /\ e \in relay.open /\ relay.left[e] = CommandSize /\ e \notin relay.holders /\ Free(e)
  /\ relay' = [relay EXCEPT !.holders = @ \cup {e}]
  /\ UNCHANGED interpreter

Released(r, e, left) ==
  [r EXCEPT !.left[e] = left, !.holders = IF left = 0 THEN @ \ {e} ELSE @]

\* os.write takes what fits.
Write(e, n) ==
  /\ e \in relay.holders /\ interpreter.running
  /\ n \in 1..relay.left[e] /\ Len(interpreter.pipe) + n <= Capacity
  /\ interpreter' = [interpreter EXCEPT !.pipe = @ \o [k \in 1..n |-> relay.command[e]]]
  /\ relay' = Released(relay, e, relay.left[e] - n)

\* Two seconds without room, or no interpreter: the connection closes.
GivesUp(e) ==
  /\ e \in relay.holders
  /\ Len(interpreter.pipe) = Capacity \/ ~interpreter.running
  /\ relay' = [Released(relay, e, 0) EXCEPT !.open = @ \ {e}]
  /\ UNCHANGED interpreter

Interprets ==
  /\ interpreter.running /\ interpreter.pipe # <<>>
  /\ interpreter' = [interpreter EXCEPT !.read = Append(@, Head(interpreter.pipe)),
                                        !.pipe = Tail(@)]
  /\ UNCHANGED relay

InterpreterExits ==
  /\ interpreter.running
  /\ interpreter' = [interpreter EXCEPT !.running = FALSE]
  /\ UNCHANGED relay

RelayNext ==
  \/ \E e \in Editors : SendCommand(e) \/ Acquire(e) \/ GivesUp(e)
                        \/ \E n \in 1..CommandSize : Write(e, n)
  \/ Interprets \/ InterpreterExits

RelaySpec == RelayInit /\ [][RelayNext]_relayVars

-----------------------------------------------------------------------------
(* Two editors that send commands at once never have them mixed: the pieces *)
(* of a command follow one another, and one that is followed by another     *)
(* command is whole unless its connection has given up and is closed        *)
(* (Maiden.connection).                                                     *)
CommandsAreWhole ==
  LET stream == interpreter.read \o interpreter.pipe
      pieces(c) == {k \in DOMAIN stream : stream[k] = c}
  IN \A c \in ToSet(stream) :
       /\ \A j, k \in pieces(c) : \A i \in j..k : i \in pieces(c)
       /\ \/ Cardinality(pieces(c)) = CommandSize
          \/ c = Last(stream)
          \/ \E e \in Editors \ relay.open : relay.command[e] = c
=============================================================================
