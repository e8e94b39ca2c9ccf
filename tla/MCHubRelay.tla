----------------------------- MODULE MCHubRelay -----------------------------
(***************************************************************************)
(* Instances of HubRelay for TLC.                                          *)
(***************************************************************************)
EXTENDS HubRelay, TLC

CONSTANTS s1, s2

OneSession == {s1}
TwoSessions == {s1, s2}
=============================================================================
