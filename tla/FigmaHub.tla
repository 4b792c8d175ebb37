------------------------------ MODULE FigmaHub ------------------------------
(***************************************************************************)
(* companion/src/hub.mjs: the registry of authenticated Figma plugin       *)
(* connections and the RPC exchange with them, with the two callers that   *)
(* drive it: the WebSocket connections (server.mjs, plugin-gateway.mjs)    *)
(* and the callers of request() (the MCP tools).                           *)
(*                                                                         *)
(* JavaScript runs one handler at a time, so a handler is one action; the  *)
(* only await, in request(), splits it in two (Request and Resume).        *)
(***************************************************************************)
EXTENDS Naturals, Sequences, FiniteSets, SequencesExt

CONSTANTS
  Clients,      \* plugin client ids, one per open Figma file
  Sockets,      \* WebSocket objects, each the life of one connection
  Requests,     \* calls of request(), each with a fresh rpc id
  Pages,        \* what a plugin reports about its file (client info)
  MaxPending,   \* maxPending: 64 in the companion, 16 per account in the relay
  NoClient,     \* activeClientId = null; no clientId argument
  NoSocket      \* no entry in the clients map

ASSUME HubAssumption ==
  /\ MaxPending \in Nat
  /\ NoClient \notin Clients
  /\ NoSocket \notin Sockets
  /\ Pages # {}
  /\ IsFiniteSet(Requests)

VARIABLES
  readyState,     \* per socket: "open", "closing", or "closed" (close event emitted)
  authenticated,  \* per socket: the clientId its connection registered, or NoClient
  reported,       \* per socket: the info the plugin last reported on it
  clients,        \* keys of the clients map, in insertion order
  websocketOf,    \* clients.get(id).websocket
  infoOf,         \* clients.get(id).info
  activeClientId,
  pending,        \* keys of the pending map
  entry,          \* what the pending map holds (kept after deletion, as history)
  promise,        \* the promise request() returned: how far each call is
  answeredOn,     \* history: the socket whose response settled the call
  joined          \* history: the sockets in the order they registered

hubVars == <<clients, websocketOf, infoOf, activeClientId>>
socketVars == <<readyState, authenticated, reported, joined>>
rpcVars == <<pending, entry, promise, answeredOn>>
vars == <<hubVars, socketVars, rpcVars>>

Registered == {c \in Clients : websocketOf[c] # NoSocket}

Promises == {"idle", "waiting", "woken", "sent", "resolved", "rejected"}

Entries == [clientId : Clients \cup {NoClient}, websocket : Sockets \cup {NoSocket}]

\* What an absent client's info is in the model: no code reads it.
AnyPage == CHOOSE page \in Pages : TRUE

NoEntry == [clientId |-> NoClient, websocket |-> NoSocket]

Init ==
  /\ readyState = [s \in Sockets |-> "open"]
  /\ authenticated = [s \in Sockets |-> NoClient]
  /\ reported \in [Sockets -> Pages]
  /\ clients = <<>>
  /\ websocketOf = [c \in Clients |-> NoSocket]
  /\ infoOf = [c \in Clients |-> AnyPage]
  /\ activeClientId = NoClient
  /\ pending = {}
  /\ entry = [r \in Requests |-> NoEntry]
  /\ promise = [r \in Requests |-> "idle"]
  /\ answeredOn = [r \in Requests |-> NoSocket]
  /\ joined = <<>>

-----------------------------------------------------------------------------
(* Connections *)

\* A Map keeps the position of a key that is set again.
SetKey(keys, c) == IF websocketOf[c] = NoSocket THEN Append(keys, c) ELSE keys

DeleteKey(keys, c) == RemoveAt(keys, CHOOSE i \in DOMAIN keys : keys[i] = c)

\* Mutant: one waiter is woken, not all.
Woken_One(c) ==
  LET waiters == {r \in Requests : promise[r] = "waiting"} IN
  IF waiters = {} THEN promise ELSE [promise EXCEPT ![CHOOSE r \in waiters : TRUE] = "woken"]

\* The waiters, woken by register().
Woken(c) == [r \in Requests |-> IF promise[r] = "waiting" THEN "woken" ELSE promise[r]]

\* register(): the connection proved it holds the credential. A socket the
\* server already started to close still delivers the messages the peer sent
\* before it, so only the close event rules registration out. Every caller
\* that waits for a client is woken, and runs on later (Resume).
Register(s, c) ==
  /\ readyState[s] # "closed"
  /\ authenticated[s] = NoClient
  /\ authenticated' = [authenticated EXCEPT ![s] = c]
  /\ clients' = SetKey(clients, c)
  /\ websocketOf' = [websocketOf EXCEPT ![c] = s]
  /\ infoOf' = [infoOf EXCEPT ![c] = reported[s]]
  /\ activeClientId' = c
  /\ promise' = Woken(c)
  /\ joined' = Append(joined, s)
  /\ UNCHANGED <<readyState, reported, pending, entry, answeredOn>>

\* handleMessage(), client.update: a connection that was replaced by a newer
\* one of the same client no longer speaks for it.
ClientUpdate(s, page) ==
  /\ readyState[s] # "closed"
  /\ authenticated[s] # NoClient
  /\ reported' = [reported EXCEPT ![s] = page]
  /\ infoOf' = IF websocketOf[authenticated[s]] = s
               THEN [infoOf EXCEPT ![authenticated[s]] = page]
               ELSE infoOf
  /\ UNCHANGED <<clients, websocketOf, activeClientId, readyState, authenticated, joined, rpcVars>>

\* The response answers the call the pending map holds under this id, for this
\* client, on this connection.
Matches(s, r) ==
  /\ r \in pending
  /\ entry[r].clientId = authenticated[s]
  /\ entry[r].websocket = s

\* handleMessage(), rpc.response: any id that was ever issued may arrive on any
\* authenticated connection, late or twice, with ok or an error. What does not
\* match is dropped.
RpcResponse(s, r, ok) ==
  /\ readyState[s] # "closed"
  /\ authenticated[s] # NoClient
  /\ entry[r] # NoEntry
  /\ IF Matches(s, r)
     THEN /\ pending' = pending \ {r}
          /\ promise' = [promise EXCEPT ![r] = IF ok THEN "resolved" ELSE "rejected"]
          /\ answeredOn' = [answeredOn EXCEPT ![r] = s]
          /\ UNCHANGED <<hubVars, socketVars, entry>>
     ELSE UNCHANGED vars

\* Either end starts to close: the server refuses or revokes the connection, or
\* the peer's close frame arrived. Nothing is delivered to it any more.
BeginClose(s) ==
  /\ readyState[s] = "open"
  /\ readyState' = [readyState EXCEPT ![s] = "closing"]
  /\ UNCHANGED <<hubVars, authenticated, reported, joined, rpcVars>>

\* closeAll(), from shutdown: every registered connection is told to close.
CloseAll ==
  LET open == {s \in Sockets : readyState[s] = "open" /\ \E c \in Clients : websocketOf[c] = s} IN
  /\ open # {}
  /\ readyState' = [s \in Sockets |-> IF s \in open THEN "closing" ELSE readyState[s]]
  /\ UNCHANGED <<hubVars, authenticated, reported, joined, rpcVars>>

\* unregister(): the calls the hub sent on this connection.
HeldBy(s) == {r \in pending : entry[r].websocket = s}

\* Mutant: the calls of the client are rejected, whichever connection holds them.
Unregister_ByClient(s) ==
  LET c == authenticated[s] IN
  /\ clients' = IF websocketOf[c] # NoSocket THEN DeleteKey(clients, c) ELSE clients
  /\ websocketOf' = [websocketOf EXCEPT ![c] = NoSocket]
  /\ infoOf' = [infoOf EXCEPT ![c] = AnyPage]
  /\ activeClientId' = IF activeClientId # c THEN activeClientId
                       ELSE IF clients' = <<>> THEN NoClient ELSE Last(clients')
  /\ pending' = pending \ HeldBy(s)
  /\ promise' = [r \in Requests |-> IF r \in HeldBy(s) THEN "rejected" ELSE promise[r]]

Unregister(s) ==
  LET c == authenticated[s]
      current == websocketOf[c] = s
  IN
  /\ clients' = IF current THEN DeleteKey(clients, c) ELSE clients
  /\ websocketOf' = IF current THEN [websocketOf EXCEPT ![c] = NoSocket] ELSE websocketOf
  /\ infoOf' = IF current THEN [infoOf EXCEPT ![c] = AnyPage] ELSE infoOf
  /\ activeClientId' = IF activeClientId = c /\ websocketOf'[c] = NoSocket
                       THEN IF clients' = <<>> THEN NoClient ELSE Last(clients')
                       ELSE activeClientId
  /\ pending' = pending \ HeldBy(s)
  /\ promise' = [r \in Requests |-> IF r \in HeldBy(s) THEN "rejected" ELSE promise[r]]

\* The close event, emitted once, which unregisters an authenticated connection.
Close(s) ==
  /\ readyState[s] # "closed"
  /\ readyState' = [readyState EXCEPT ![s] = "closed"]
  /\ IF authenticated[s] = NoClient
     THEN UNCHANGED <<hubVars, pending, promise>>
     ELSE Unregister(s)
  /\ UNCHANGED <<authenticated, reported, joined, entry, answeredOn>>

-----------------------------------------------------------------------------
(* Callers *)

Target(clientId) == IF clientId # NoClient THEN clientId ELSE activeClientId

\* What request() throws before it touches the pending map; congested stands
\* for bufferedAmount > maxBufferedBytes.
Refused(clientId, congested) ==
  \/ Target(clientId) = NoClient
  \/ websocketOf[Target(clientId)] = NoSocket
  \/ readyState[websocketOf[Target(clientId)]] # "open"
  \/ Cardinality(pending) >= MaxPending
  \/ congested

\* request() after its await: all of it runs in one go.
Dispatch(r, clientId) ==
  \E congested \in BOOLEAN :
    /\ IF Refused(clientId, congested)
       THEN /\ promise' = [promise EXCEPT ![r] = "rejected"]
            /\ UNCHANGED <<pending, entry>>
       ELSE /\ pending' = pending \cup {r}
            /\ entry' = [entry EXCEPT ![r] = [clientId |-> Target(clientId),
                                              websocket |-> websocketOf[Target(clientId)]]]
            /\ promise' = [promise EXCEPT ![r] = "sent"]
    /\ UNCHANGED <<hubVars, socketVars, answeredOn>>

\* request() up to its await: without a clientId and without any client it
\* waits, if the caller allows it.
Request(r, clientId, wait) ==
  /\ promise[r] = "idle"
  /\ IF clientId = NoClient /\ clients = <<>> /\ wait
     THEN /\ promise' = [promise EXCEPT ![r] = "waiting"]
          /\ UNCHANGED <<hubVars, socketVars, pending, entry, answeredOn>>
     ELSE Dispatch(r, clientId)

\* The continuation of the await. Other events may fall between the wake-up
\* and it, so what it reads may have changed.
Resume(r) ==
  /\ promise[r] = "woken"
  /\ Dispatch(r, NoClient)

\* waitForClient(): nobody came within waitForClientMs.
WaitTimeout(r) ==
  /\ promise[r] = "waiting"
  /\ promise' = [promise EXCEPT ![r] = "woken"]
  /\ UNCHANGED <<hubVars, socketVars, pending, entry, answeredOn>>

\* Mutant: the entry outlives its timer.
RpcTimeout_KeepsEntry(r) ==
  /\ r \in pending
  /\ promise' = [promise EXCEPT ![r] = "rejected"]
  /\ UNCHANGED <<hubVars, socketVars, pending, entry, answeredOn>>

\* Mutant: the timer only looks at the client's current connection.
RpcTimeout_CurrentOnly(r) ==
  /\ r \in pending
  /\ websocketOf[entry[r].clientId] = entry[r].websocket
  /\ pending' = pending \ {r}
  /\ promise' = [promise EXCEPT ![r] = "rejected"]
  /\ UNCHANGED <<hubVars, socketVars, entry, answeredOn>>

\* The timer of a sent call; every other way to delete the entry clears it.
RpcTimeout(r) ==
  /\ r \in pending
  /\ pending' = pending \ {r}
  /\ promise' = [promise EXCEPT ![r] = "rejected"]
  /\ UNCHANGED <<hubVars, socketVars, entry, answeredOn>>

-----------------------------------------------------------------------------

Settled(r) == promise[r] \in {"resolved", "rejected"}

\* Every connection is closed and every call settled: nothing is left to do.
Quiescent ==
  /\ \A s \in Sockets : readyState[s] = "closed"
  /\ \A r \in Requests : Settled(r)
  /\ UNCHANGED vars

Next ==
  \/ \E s \in Sockets, c \in Clients : Register(s, c)
  \/ \E s \in Sockets, page \in Pages : ClientUpdate(s, page)
  \/ \E s \in Sockets, r \in Requests, ok \in BOOLEAN : RpcResponse(s, r, ok)
  \/ \E s \in Sockets : BeginClose(s)
  \/ CloseAll
  \/ \E s \in Sockets : Close(s)
  \/ \E r \in Requests, clientId \in Clients \cup {NoClient}, wait \in BOOLEAN :
       Request(r, clientId, wait)
  \/ \E r \in Requests : Resume(r)
  \/ \E r \in Requests : WaitTimeout(r)
  \/ \E r \in Requests : RpcTimeout(r)
  \/ Quiescent

\* Timers fire and promise continuations run; nothing else is certain: a plugin
\* need not answer, connect or disconnect.
Fairness ==
  \A r \in Requests :
    /\ WF_vars(WaitTimeout(r))
    /\ WF_vars(Resume(r))
    /\ WF_vars(RpcTimeout(r))

Spec == Init /\ [][Next]_vars

FairSpec == Spec /\ Fairness

-----------------------------------------------------------------------------
(* Properties *)

\* The type invariant.
TypeOK ==
  /\ readyState \in [Sockets -> {"open", "closing", "closed"}]
  /\ authenticated \in [Sockets -> Clients \cup {NoClient}]
  /\ reported \in [Sockets -> Pages]
  /\ clients \in Seq(Clients)
  /\ websocketOf \in [Clients -> Sockets \cup {NoSocket}]
  /\ infoOf \in [Clients -> Pages]
  /\ activeClientId \in Clients \cup {NoClient}
  /\ pending \in SUBSET Requests
  /\ entry \in [Requests -> Entries]
  /\ promise \in [Requests -> Promises]
  /\ answeredOn \in [Requests -> Sockets \cup {NoSocket}]
  /\ joined \in Seq(Sockets)

\* A command without a clientId has a target exactly while some client is
\* registered, whatever order connections are replaced and closed in:
\* activeClientId (hub.mjs:51) never names a client that left, and is null only
\* when the map is empty.
ActiveIsRegistered ==
  /\ activeClientId # NoClient => activeClientId \in Registered
  /\ activeClientId = NoClient => Registered = {}

\* The newest connection of a client serves it until that very connection
\* closes: neither the late close of a connection it replaced nor anything else
\* takes the client out of the registry (hub.mjs:50), and once it closed, an
\* older connection of the client is not brought back. What the client shows of
\* its file is what that connection last said, whatever arrives late on another
\* (hub.mjs:33).
NewestOf(c) ==
  LET mine == {i \in DOMAIN joined : authenticated[joined[i]] = c} IN
  IF mine = {} THEN NoSocket ELSE joined[Max(mine)]

NewestConnectionServes ==
  \A c \in Clients :
    /\ websocketOf[c] = IF NewestOf(c) = NoSocket \/ readyState[NewestOf(c)] = "closed"
                        THEN NoSocket ELSE NewestOf(c)
    /\ c \in Registered => infoOf[c] = reported[websocketOf[c]]

\* The pending map and the promises agree: a call holds a place in the map
\* exactly while its caller waits for a plugin. No caller is left hanging by a
\* lost entry, no place is taken by a settled call.
PendingIffUnsettled == pending = {r \in Requests : promise[r] = "sent"}

\* Nobody waits for a client while one is there, however callers, connections
\* and disconnections interleave: connecting wakes every waiter (hub.mjs:25), and
\* a caller only starts to wait while the map is empty (hub.mjs:61).
NobodyWaitsInVain == \A r \in Requests : promise[r] = "waiting" => clients = <<>>

\* No call waits on a connection that is gone, replaced or not: its close
\* rejected everything sent on it (hub.mjs:52), and no later call can reach it.
NothingPendingOnClosed ==
  \A r \in pending : readyState[entry[r].websocket] # "closed"

\* The map never outgrows its limit (hub.mjs:68), although waiting callers are
\* admitted without a place and all resume at once.
PendingBounded == Cardinality(pending) <= MaxPending

\* The contract of request(), RpcContract, under the obvious reading of the
\* hub's state: what a caller sees of its call, who can answer it and what the
\* loss of a connection does to it.
Seen(r) ==
  CASE promise[r] \in {"waiting", "woken"} -> "open"
    [] promise[r] = "rejected" /\ answeredOn[r] = NoSocket -> "failed"
    [] promise[r] = "rejected" /\ answeredOn[r] # NoSocket -> "answered"
    [] promise[r] = "resolved" -> "answered"
    [] OTHER -> promise[r]

AsCall == [r \in Requests |-> Seen(r)]
AsPlugin == [r \in Requests |-> entry[r].websocket]
AsGone == {s \in Sockets : readyState[s] = "closed"}

Contract == INSTANCE RpcContract WITH call <- AsCall, plugin <- AsPlugin, gone <- AsGone

ImplementsContract == Contract!Spec

\* The answer a caller gets came on the connection its command went out on, not
\* on another connection of the same Figma file that answers late after a
\* reconnect (hub.mjs:38).
AnswersComeFromTheirSocket ==
  \A r \in Requests : answeredOn[r] # NoSocket => answeredOn[r] = entry[r].websocket

\* Every call settles, whether plugins answer, vanish or never come: the two
\* timers bound both waits of request().
EveryCallSettles == \A r \in Requests : (promise[r] # "idle") ~> Settled(r)
=============================================================================
