---------------------------- MODULE MCOAuthGrants ----------------------------
(* The constants of OAuthGrants that a configuration file cannot write. *)
EXTENDS OAuthGrants, TLC

CONSTANTS d1, d2, d3, a1, a2, r1, r2, r3, ip1, ip2

\* Two devices of one account, and one of another.
TwoAccounts == [d \in Devices |-> IF d = d3 THEN a2 ELSE a1]

\* Two requests from the same address and one from another.
TwoAddresses == [r \in Requests |-> IF r = r2 THEN ip2 ELSE ip1]

\* The two devices of one account, the two requests of one address and the
\* clients are alike.
Alike == Permutations(Devices \cap {d1, d2}) \cup Permutations(Requests \cap {r1, r3}) \cup Permutations(Clients)
=============================================================================
