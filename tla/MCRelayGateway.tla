---------------------------- MODULE MCRelayGateway ----------------------------
(* Symmetry for RelayGateway. *)
EXTENDS RelayGateway, TLC

Alike == Permutations(Sockets) \cup Permutations(Devices) \cup Permutations(LinkCodes)
=============================================================================
