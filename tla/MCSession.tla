------------------------------ MODULE MCSession -----------------------------
(* Instances of Session and its tools for TLC. *)
EXTENDS CaptureTools, TLC

CONSTANTS logic, a1, a2

LogicAndAnalog == {logic, a1}
ThreeSources   == {logic, a1, a2}
=============================================================================
