--------------------------- MODULE MCSendOperation --------------------------
(* Instances of SendOperation for TLC: one caller chooses its operation ID,*)
(* the other takes the one the SDK makes.                                  *)
EXTENDS SendOperation

CONSTANTS o1, o2

TwoOperations == {o1, o2}
OneSupplied == {o1}
=============================================================================
