--------------------------- MODULE MCPortManager ---------------------------
(***************************************************************************)
(* An instance of PortManager for TLC: one port with which anything may    *)
(* happen, and one that is plugged in and that the hub cannot open.        *)
(***************************************************************************)
EXTENDS PortManager, TLC

CONSTANTS com1, com2, c1, c2

TwoPorts == {com1, com2}
FirstPort == {com1}
SecondPort == {com2}
TwoConnections == {c1, c2}

AllPreferences == BOOLEAN \X BOOLEAN
=============================================================================
