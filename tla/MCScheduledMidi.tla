--------------------------- MODULE MCScheduledMidi ---------------------------
(* Small instances of ScheduledMidi for TLC. *)
EXTENDS ScheduledMidi

CONSTANTS p1, p2

Timely(delay, port, bytes) == [after |-> delay, port |-> port, bytes |-> bytes]

(* A message in two parts with a realtime byte of the other port between   *)
(* them, and the rest of a message that an earlier batch has begun.        *)
Interleaved == <<Timely(1, p1, "start"), Timely(1, p2, "clock"),
                 Timely(2, p1, "end")>>
Remainder   == <<Timely(1, p1, "end")>>
Swapped     == <<Timely(2, p1, "clock"), Timely(1, p1, "clock")>>

Message     == <<Timely(1, p1, "start"), Timely(2, p1, "end")>>

MCTokens  == {"start", "data", "end", "whole", "clock"}
MCBatches == {Interleaved, Remainder, Swapped}
OneBatch  == {Message}
=============================================================================
