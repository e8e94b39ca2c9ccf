------------------------- MODULE MCSerialConnection -------------------------
(***************************************************************************)
(* Instances of SerialConnection for TLC.                                  *)
(***************************************************************************)
EXTENDS SerialConnection, TLC

CONSTANTS com1, c1, c2

OnePort == {com1}
NoPort == {}
TwoConnections == {c1, c2}
=============================================================================
