--------------------------- MODULE MCPanelUpdate ---------------------------
(***************************************************************************)
(* An instance of PanelUpdate for TLC: one word of sim data with a field   *)
(* that scripts set as well, one word only scripts set, and 0xFFFE.        *)
(***************************************************************************)
EXTENDS PanelUpdate, TLC

MCSimValues == 4096 :> {0, 1} @@ EndOfUpdate :> {0}

MCOutputs == {[Address |-> 4096, ShiftBy |-> 15, MaxValue |-> 1],
              [Address |-> 4100, ShiftBy |-> 0, MaxValue |-> WordMax]}

\* -1 is refused; 65537 is taken for 1.
MCScriptValues == [o \in MCOutputs |-> IF o.Address = 4096 THEN {-1, 65537} ELSE {1, SyncWord}]
=============================================================================
