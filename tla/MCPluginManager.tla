--------------------------- MODULE MCPluginManager ---------------------------
(***************************************************************************)
(* Instances of PluginManager for TLC.                                     *)
(***************************************************************************)
EXTENDS PluginManager, TLC

CONSTANTS a, b, u, m1, o1, o2

TwoNames == {a, b}
OneURL == {u}
Base == u :> a
OneModule == {m1}
TwoOps == {o1, o2}
MCManifests == u :> {m1, NoModule} @@ a :> {} @@ b :> {m1, NoModule}

\* A bound: after a restart of the hub one operation at a time.
OneAfterRestart == restarts > 0 => Cardinality(Running) <= 1
=============================================================================
