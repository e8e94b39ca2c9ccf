---------------------------- MODULE MCHubSessions ----------------------------
(***************************************************************************)
(* Instances of HubSessions for TLC.                                       *)
(***************************************************************************)
EXTENDS HubSessions

CONSTANTS s1, s2, t1

TwoSessions == {s1, s2}
OneSender == {t1}
=============================================================================
