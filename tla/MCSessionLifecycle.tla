------------------------- MODULE MCSessionLifecycle -------------------------
(* Instances of SessionLifecycle for TLC. *)
EXTENDS SessionLifecycle

TwoServices == <<"jack", "matron">>

\* The second session has a dataset of its own or that of the first.
TwoDatasets == <<{1}, {1, 2}>>
OneDataset == <<{1}, {1}>>
=============================================================================
