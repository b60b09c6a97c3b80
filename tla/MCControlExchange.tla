------------------------- MODULE MCControlExchange --------------------------
(* Instances of ControlExchange for TLC.                                   *)
EXTENDS ControlExchange

CONSTANT p1

PythonOnly == {"python"}
OneProfile == {p1}

(* The adapter configuration has the large frame.                          *)
LargeOnes == {Command("savePythonAdapterConfiguration")}
=============================================================================
