----------------------------- MODULE RateLimiter -----------------------------
(***************************************************************************)
(* relay/src/rate-limit.mjs: createRateLimiter(), one table of fixed       *)
(* windows for the whole relay. allow(key) is two questions about a table  *)
(* w at a moment t: what it becomes, and whether the event may go on.      *)
(* Every key has the limit and the length of window its one caller passes. *)
(***************************************************************************)
EXTENDS Naturals, FiniteSets, Functions

CONSTANTS
  LimitOf,   \* events a window admits, by key
  Window,    \* windowMs
  MaxKeys    \* MAX_KEYS

Live(w, t) == {k \in DOMAIN w : w[k].resetAt > t}

Full(w) == Cardinality(DOMAIN w) >= MaxKeys

\* Mutant: a full table is emptied for the new key, live windows and all.
Room_Evicts(w, t, k) == IF k \notin DOMAIN w /\ Full(w) THEN <<>> ELSE w

\* prune() runs only when a key that is not in the table finds it full.
Room(w, t, k) == IF k \notin DOMAIN w /\ Full(w) THEN Restrict(w, Live(w, t)) ELSE w

\* A new key that finds no room is refused, and leaves no window behind.
TurnedAway(w, t, k) == k \notin DOMAIN Room(w, t, k) /\ Full(Room(w, t, k))

Counted(w, t, k) ==
  IF TurnedAway(w, t, k) THEN Room(w, t, k)
  ELSE IF k \in Live(w, t) THEN [w EXCEPT ![k].count = @ + 1]
  ELSE [x \in DOMAIN Room(w, t, k) \cup {k} |->
          IF x = k THEN [count |-> 1, resetAt |-> t + Window] ELSE w[x]]

Allowed(w, t, k) ==
  /\ ~TurnedAway(w, t, k)
  /\ Counted(w, t, k)[k].count <= LimitOf[k]
=============================================================================
