---------------------------- MODULE RpcContract ----------------------------
(***************************************************************************)
(* What the hub promises to a caller of request() and nothing about how:   *)
(* a call is handed to at most one plugin connection, that connection is   *)
(* the only one that can answer it, losing the connection fails the call   *)
(* at once, a settled call never changes again, and the number of calls in *)
(* the hands of plugins is bounded.                                        *)
(***************************************************************************)
EXTENDS Naturals, FiniteSets

CONSTANTS
  Requests,     \* the calls, each made once
  Sockets,      \* the plugin connections, each opened once
  MaxPending,   \* how many calls plugins may hold at a time
  NoSocket      \* "not handed to a connection"

VARIABLES
  call,         \* what the caller sees of each call
  plugin,       \* the connection each call was handed to
  gone          \* the connections that no longer exist

vars == <<call, plugin, gone>>

CallStates == {"idle", "open", "sent", "answered", "failed"}

Outstanding == {r \in Requests : call[r] = "sent"}

Init ==
  /\ call = [r \in Requests |-> "idle"]
  /\ plugin = [r \in Requests |-> NoSocket]
  /\ gone = {}

\* The call starts, and no plugin is there to take it yet.
Open(r) ==
  /\ call[r] = "idle"
  /\ call' = [call EXCEPT ![r] = "open"]
  /\ UNCHANGED <<plugin, gone>>

HandOver(r, s) ==
  /\ call[r] \in {"idle", "open"}
  /\ s \notin gone
  /\ Cardinality(Outstanding) < MaxPending
  /\ call' = [call EXCEPT ![r] = "sent"]
  /\ plugin' = [plugin EXCEPT ![r] = s]
  /\ UNCHANGED gone

Answer(r) ==
  /\ call[r] = "sent"
  /\ plugin[r] \notin gone
  /\ call' = [call EXCEPT ![r] = "answered"]
  /\ UNCHANGED <<plugin, gone>>

Fail(r) ==
  /\ call[r] \in {"idle", "open", "sent"}
  /\ call' = [call EXCEPT ![r] = "failed"]
  /\ UNCHANGED <<plugin, gone>>

\* A connection goes, and takes every call it holds with it in the same step.
Lose(s) ==
  /\ gone' = gone \cup {s}
  /\ call' = [r \in Requests |->
                IF call[r] = "sent" /\ plugin[r] = s THEN "failed" ELSE call[r]]
  /\ UNCHANGED plugin

Next ==
  \/ \E r \in Requests : Open(r) \/ Answer(r) \/ Fail(r)
  \/ \E r \in Requests, s \in Sockets : HandOver(r, s)
  \/ \E s \in Sockets : Lose(s)

Spec == Init /\ [][Next]_vars
=============================================================================
