---------------------------- MODULE MidiSchedule ----------------------------
(***************************************************************************)
(* The one-batch queue of scheduled MIDI input in the runtime:             *)
(* src/src/runtime/native_clock/emu_midi_schedule.c.  Callers serialise.   *)
(***************************************************************************)
EXTENDS Naturals, Sequences

CONSTANTS
  Ports,      \* configured virtual MIDI ports
  Tokens,     \* kinds of byte string an event may carry
  MaxEvents,  \* EMU_MIDI_SCHEDULE_EVENTS
  Horizon     \* EMU_MIDI_SCHEDULE_HORIZON_NS, in units of the clock

ASSUME QueueAssumption ==
  MaxEvents \in Nat \ {0} /\ Horizon \in Nat

Timed == [at : Nat, port : Ports, bytes : Tokens]

EmptyQueue == [id |-> 0, lastId |-> 0, events |-> <<>>, cursor |-> 0]

Pending(q) == q.cursor < Len(q.events)
NextTimed(q) == q.events[q.cursor + 1]
Due(q, now) == Pending(q) /\ NextTimed(q).at <= now

(* emu_midi_schedule_accept: what a batch is refused for. *)
Late(events, now) == \E k \in DOMAIN events : events[k].at <= now
BeyondHorizon(events, now) ==
  \E k \in DOMAIN events : events[k].at > now + Horizon
Disordered(events) ==
  \E k \in DOMAIN events : k > 1 /\ events[k].at < events[k - 1].at

Refusals(q, id, events, now) ==
  {e \in {"busy", "id", "count", "late", "horizon", "order"} :
     \/ e = "busy" /\ Pending(q)
     \/ e = "id" /\ id <= q.lastId
     \/ e = "count" /\ Len(events) \notin 1 .. MaxEvents
     \/ e = "late" /\ Late(events, now)
     \/ e = "horizon" /\ BeyondHorizon(events, now)
     \/ e = "order" /\ Disordered(events)}

Installed(id, events) ==
  [id |-> id, lastId |-> id, events |-> events, cursor |-> 0]

Advanced(q) == [q EXCEPT !.cursor = @ + 1]

DiscardsNothing(q) == q

(* emu_midi_schedule_cancel, and the end of the input socket. *)
Discarded(q) == [q EXCEPT !.cursor = Len(q.events)]
=============================================================================
