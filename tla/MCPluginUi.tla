------------------------------ MODULE MCPluginUi ------------------------------
(* Symmetry for PluginUi. *)
EXTENDS PluginUi, TLC

Alike == Permutations(Attempts)
=============================================================================
