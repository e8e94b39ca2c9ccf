----------------------------- MODULE MCDcsSetup -----------------------------
(***************************************************************************)
(* Instances of DcsSetup for TLC.                                          *)
(***************************************************************************)
EXTENDS DcsSetup, TLC

CONSTANTS r1, r2

TwoRequests == {r1, r2}
OneLine == {"user"}
Symmetry == Permutations(TwoRequests)
=============================================================================
