------------------------------ MODULE MCMcpHttp ------------------------------
(* The constants of McpHttp that a configuration file cannot write. *)
EXTENDS McpHttp, TLC

CONSTANTS p1, p2, p3, p4

\* An account with two grants, and another with one.
ThreeGrants == [p \in Posts |-> CASE p \in {p1, p2} -> "g1" [] p = p3 -> "g2" [] p = p4 -> "g3"]
TwoAccounts == [g \in Grants |-> IF g = "g3" THEN "a2" ELSE "a1"]
Once == [k \in Grants \cup Accounts |-> 1]
Alike == Permutations(Tokens) \cup Permutations({p1, p2})
=============================================================================
