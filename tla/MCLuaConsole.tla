---------------------------- MODULE MCLuaConsole ----------------------------
(***************************************************************************)
(* Instances of LuaConsole for TLC.                                        *)
(***************************************************************************)
EXTENDS LuaConsole

CONSTANTS r1, r2, c1, c2, c3

TwoRequests == {r1, r2}
ThreeConns == {c1, c2, c3}
=============================================================================
