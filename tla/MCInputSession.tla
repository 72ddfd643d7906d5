--------------------------- MODULE MCInputSession ---------------------------
(* Small instances of InputSession for TLC. *)
EXTENDS InputSession, TLC

CONSTANTS k1, g1, c1, c2

Press(i)   == [input |-> i, on |-> TRUE]
Release(i) == [input |-> i, on |-> FALSE]

(* A tap of a key around a press of a pad. *)
Phrase == {<<Press(k1), Press(g1), Release(k1)>>}

(* A press; and a release, to be admitted only where the key is down and   *)
(* nobody owns it.                                                         *)
OneKey == {<<Press(k1)>>, <<Release(k1)>>}

AnyKind == AllKinds \ {"enc"}
HoldsAndSchedules == {"transition", "release_all", "native_input_schedule"}
WithArc == HoldsAndSchedules \cup {"arc_connection"}

ClientSymmetry == Permutations(Clients)
=============================================================================
