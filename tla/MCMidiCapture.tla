---------------------------- MODULE MCMidiCapture ----------------------------
(***************************************************************************)
(* The writes with which TLC checks MidiCapture.                           *)
(***************************************************************************)
EXTENDS MidiCapture

\* Note on and off, running status, two messages at once, one split over two
\* writes, program changes, a reset, all notes off, real time inside a message, system
\* exclusive.
MCWrites ==
  {<<144, 60>>, <<0>>, <<144, 60, 64>>, <<61, 64, 60, 0>>, <<144, 60, 64, 144>>, <<61, 64>>,
   <<192, 5, 6>>, <<255>>, <<176, 123, 0>>, <<240, 1, 248>>, <<2, 247>>, <<144, 248, 60>>,
   <<246, 242, 1, 2>>, <<249>>}
==============================================================================
