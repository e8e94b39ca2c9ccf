---------------------------- MODULE MCMemoryMap ----------------------------
(***************************************************************************)
(* An instance of MemoryMap for TLC: words of four bits, two bits to a     *)
(* character.                                                              *)
(***************************************************************************)
EXTENDS MemoryMap, TLC

MCTexts == {<<>>, <<1, 2>>, <<2, 1, 0, 1>>}
=============================================================================
