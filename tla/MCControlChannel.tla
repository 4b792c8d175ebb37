--------------------------- MODULE MCControlChannel ---------------------------
(* Interchangeable processes and calls, no temporal property. *)
EXTENDS ControlChannel, TLC

Interchangeable == Permutations(Companions) \cup Permutations(Calls)
=============================================================================
