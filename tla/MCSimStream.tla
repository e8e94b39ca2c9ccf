---------------------------- MODULE MCSimStream ----------------------------
(***************************************************************************)
(* Instances of SimStream for TLC: two words of MetadataStart's aircraft   *)
(* name, a module of three words and the counters at 0xFFFE.               *)
(***************************************************************************)
EXTENDS SimStream, TLC

MCStart == {0}
MCAircraft == {"NONE", "A"}
MCName == [acft \in MCAircraft |-> [a \in MCStart |-> IF acft = "NONE" THEN 20046 ELSE 65]]

\* A module of three words.  The second and the third take the value 0x5555,
\* but no clean 0x5555 can come to lie between two bytes 0x55.
MCModule == {4096, 4098, 4100}
MCValues == (4096 :> {1} @@ 4098 :> {2, SyncWord} @@ 4100 :> {3, SyncWord})

MCMissing == {4100}
NoneMissing == {}

\* The same aircraft all the time, and a module of two words.
OneAircraft == {"A"}
SmallModule == {4096, 4098}
SmallValues == (4096 :> {1} @@ 4098 :> {2, 258})
=============================================================================
