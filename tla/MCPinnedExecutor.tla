-------------------------- MODULE MCPinnedExecutor --------------------------
(* Instances of PinnedExecutor for TLC. *)
EXTENDS PinnedExecutor, TLC

\* Plugin ids are only compared for equality.
PluginSymmetry == Permutations(Plugins)
=============================================================================
