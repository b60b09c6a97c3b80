-------------------------- MODULE MCAdapterRunner ---------------------------
(* Instances of AdapterRunner for TLC.                                     *)
EXTENDS AdapterRunner, TLC

CONSTANTS m1, n1

OneMessage == {m1}
OneNotice == {n1}
AllFaults == {"crash", "drop", "fetch", "prepare", "send", "refuse", "ack"}
=============================================================================
