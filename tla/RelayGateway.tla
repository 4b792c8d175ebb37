----------------------------- MODULE RelayGateway -----------------------------
(***************************************************************************)
(* relay/src/plugin-gateway.mjs: the WebSocket endpoint of the relay. A    *)
(* plugin connects, authenticates as a device or registers one, is served  *)
(* by the hub of its account, and calls account operations.                *)
(*                                                                         *)
(* A handler runs to its end at once, but a socket that is being closed    *)
(* still delivers messages until its close event. The hub of an account    *)
(* (companion/src/hub.mjs) is created with its first plugin and forgotten  *)
(* with its last: here it is its registry and its pending calls. Which     *)
(* client a command goes to, and what a plugin reports of itself, is the   *)
(* subject of FigmaHub; approvals and grants are that of OAuthGrants.      *)
(***************************************************************************)
EXTENDS AccountsStore, Functions

CONSTANTS
  Sockets, Addresses, Files, Calls,
  Signups,          \* the values of FIGMA_BRIDGE_SIGNUP the relay is started with
  MaxTotal,         \* MAX_UNAUTHENTICATED_SOCKETS
  MaxPerAddress,    \* MAX_UNAUTHENTICATED_SOCKETS_PER_ADDRESS
  MaxPending        \* createFigmaHub's maxPending

ASSUME GatewayAssumption ==
  /\ None \notin Sockets \cup Addresses \cup (Devices \X Files)
  /\ Signups \subseteq {"invite", "open", "closed"} /\ Signups # {}
  /\ {MaxTotal, MaxPerAddress, MaxPending} \subseteq Nat \ {0}
  /\ IsFiniteSet(Sockets) /\ IsFiniteSet(Calls) /\ IsFiniteSet(Addresses)

VARIABLES
  signup,
  readyState,       \* "new", "open", "closing" (still delivers) or "closed"
  countedFor,       \* the address a socket is counted for (counted and ip), or None
  unauthenticated,  \* sockets that are not authenticated, by address
  deviceOf,         \* device, in the closure of each connection
  clientOf,         \* clientId
  hubs,             \* the accounts that have a hub
  websocketOf,      \* the hub's clients: by account and client id
  calls,            \* what request() promised, and the pending map
  unfinished        \* history: devices whose removal failed before its last step

connections == <<readyState, countedFor, unauthenticated, deviceOf, clientOf>>
hub == <<hubs, websocketOf, calls>>
vars == <<store, signup, connections, hub, unfinished>>

ClientIds == Devices \X Files

\* "orphaned": pending in a hub that the gateway has forgotten.
Unsettled == {"pending", "orphaned"}

NoCall(state) == [state |-> state, account |-> None, socket |-> None]

CallRows ==
  {NoCall("idle"), NoCall("settled")} \cup [state : Unsettled, account : Accounts, socket : Sockets]

NoClients == [c \in ClientIds |-> None]

Init ==
  /\ InitStore
  /\ signup \in Signups
  /\ readyState = [w \in Sockets |-> "new"]
  /\ countedFor = [w \in Sockets |-> None]
  /\ unauthenticated = [ip \in Addresses |-> 0]
  /\ deviceOf = [w \in Sockets |-> None]
  /\ clientOf = [w \in Sockets |-> None]
  /\ hubs = {}
  /\ websocketOf = [a \in Accounts |-> NoClients]
  /\ calls = [q \in Calls |-> NoCall("idle")]
  /\ unfinished = {}

Delivers(w) == readyState[w] \in {"open", "closing"}

\* The sockets whose handler is still at "if (!device)".
Unauthenticated == {w \in Sockets : Delivers(w) /\ deviceOf[w] = None}

-----------------------------------------------------------------------------
(* Connecting and authenticating *)

MayConnect(ip) == unauthenticated[ip] < MaxPerAddress /\ SumFunction(unauthenticated) < MaxTotal

\* handleUpgrade() and onConnection(). A refused socket leaves nothing.
Connect(w, ip) ==
  /\ readyState[w] = "new"
  /\ MayConnect(ip)
  /\ readyState' = [readyState EXCEPT ![w] = "open"]
  /\ countedFor' = [countedFor EXCEPT ![w] = ip]
  /\ unauthenticated' = [unauthenticated EXCEPT ![ip] = @ + 1]
  /\ UNCHANGED <<store, signup, deviceOf, clientOf, hub, unfinished>>

\* Mutant: counted is not reset. (As in the code, no address goes below zero.)
ReleaseUnauthenticated_Always(w) ==
  /\ UNCHANGED countedFor
  /\ unauthenticated' =
       [ip \in Addresses |->
          IF ip = countedFor[w] /\ unauthenticated[ip] > 0 THEN unauthenticated[ip] - 1 ELSE unauthenticated[ip]]

\* releaseUnauthenticated(): once, at authentication or at the close event.
ReleaseUnauthenticated(w) ==
  /\ countedFor' = [countedFor EXCEPT ![w] = None]
  /\ unauthenticated' =
       [ip \in Addresses |->
          IF ip = countedFor[w] THEN unauthenticated[ip] - 1 ELSE unauthenticated[ip]]

\* Plugins choose their client ids; the gateway prefixes the device.
ClientId(d, f) == <<d, f>>

\* attach(): the socket w is now the device d of the account a, and registered
\* in that account's hub in the place of the client's earlier socket.
Attach(w, d, f, a) ==
  /\ ReleaseUnauthenticated(w)
  /\ deviceOf' = [deviceOf EXCEPT ![w] = d]
  /\ clientOf' = [clientOf EXCEPT ![w] = ClientId(d, f)]
  /\ hubs' = hubs \cup {a}
  /\ websocketOf' = [websocketOf EXCEPT ![a][ClientId(d, f)] = w]
  /\ UNCHANGED <<signup, readyState, calls, unfinished>>

\* authenticateDevice()
Recognized(d) == Active(d)

\* hello with a device's credentials.
Hello(w, d, f) ==
  /\ w \in Unauthenticated
  /\ Recognized(d)
  /\ Attach(w, d, f, accountOf[d])
  /\ UNCHANGED store

\* register: a new device. When register() refuses, the socket stays as it is.
Register(w, d, f) ==
  /\ w \in Unauthenticated
  /\ \/ \E k \in LinkCodes : JoinWithLink(d, k) /\ Attach(w, d, f, AccountOfLink(k))
     \/ /\ signup = "invite"
        /\ \E a \in Accounts, i \in Invites : JoinWithInvite(d, a, i) /\ Attach(w, d, f, a)
     \/ /\ signup = "open"
        /\ \E a \in Accounts : JoinOpenly(d, a) /\ Attach(w, d, f, a)

-----------------------------------------------------------------------------
(* Authenticated messages *)

\* A message that passes the test of every message: the device is still active.
\* Sockets that were closed as "revoked" belong to removed devices.
Admitted(w) == Delivers(w) /\ deviceOf[w] # None /\ Active(deviceOf[w])

PendingIn(a) == {q \in Calls : calls[q].state = "pending" /\ calls[q].account = a}

\* request(), for an agent with access to the account a.
Request(q, a, c) ==
  LET w == websocketOf[a][c] IN
  /\ calls[q].state = "idle"
  /\ a \in hubs
  /\ w # None
  /\ readyState[w] = "open"
  /\ Cardinality(PendingIn(a)) < MaxPending
  /\ calls' = [calls EXCEPT ![q] = [state |-> "pending", account |-> a, socket |-> w]]
  /\ UNCHANGED <<store, signup, connections, hubs, websocketOf, unfinished>>

\* rpc.response on the socket the command was sent on. The hub that is asked is
\* the one the account has now.
RpcResponse(w, q) ==
  /\ Admitted(w)
  /\ q \in PendingIn(accountOf[deviceOf[w]])
  /\ calls[q].socket = w
  /\ calls' = [calls EXCEPT ![q] = NoCall("settled")]
  /\ UNCHANGED <<store, signup, connections, hubs, websocketOf, unfinished>>

RpcTimeout(q) ==
  /\ calls[q].state \in Unsettled
  /\ calls' = [calls EXCEPT ![q] = NoCall("settled")]
  /\ UNCHANGED <<store, signup, connections, hubs, websocketOf, unfinished>>

\* devices.link
LinkDevice(w, k) ==
  /\ Admitted(w)
  /\ CreateLinkCode(deviceOf[w], k)
  /\ UNCHANGED <<signup, connections, hub, unfinished>>

\* Mutant: only the socket that serves is closed.
DisconnectDevice_Serving(d) ==
  readyState' = [w \in Sockets |->
    IF readyState[w] = "open" /\ deviceOf[w] = d /\ \E a \in hubs : websocketOf[a][clientOf[w]] = w
    THEN "closing" ELSE readyState[w]]

\* disconnectDevice(): every socket of the device, replaced ones too.
DisconnectDevice(d) ==
  readyState' = [w \in Sockets |->
    IF readyState[w] = "open" /\ deviceOf[w] = d THEN "closing" ELSE readyState[w]]

\* devices.revoke, of any device of the caller's account, itself included. When
\* revokeDeviceGrants() throws, the device is removed and its sockets stay.
RevokeDevice(w, d) ==
  /\ Admitted(w)
  /\ Removable(accountOf[deviceOf[w]], d)
  /\ RemoveDevice(d)
  /\ \/ DisconnectDevice(d) /\ UNCHANGED unfinished
     \/ unfinished' = unfinished \cup {d} /\ UNCHANGED readyState
  /\ UNCHANGED <<signup, countedFor, unauthenticated, deviceOf, clientOf, hub>>

-----------------------------------------------------------------------------
(* Closing *)

\* A close that begins: by the plugin, by the heartbeat that missed a pong, by
\* the authentication timer, for a bad message, bad credentials or a message of
\* a removed device.
BeginClose(w) ==
  /\ readyState[w] = "open"
  /\ readyState' = [readyState EXCEPT ![w] = "closing"]
  /\ UNCHANGED <<store, signup, countedFor, unauthenticated, deviceOf, clientOf, hub, unfinished>>

\* Mutant: any close takes the client out of the registry.
Unregistered_Replaced(a, w) == [websocketOf[a] EXCEPT ![clientOf[w]] = None]

\* The registry that unregister() leaves: a replaced socket is not in it.
Unregistered(a, w) ==
  [c \in ClientIds |-> IF c = clientOf[w] /\ websocketOf[a][c] = w THEN None ELSE websocketOf[a][c]]

Emptied(clients) == clients = NoClients

HeldBy(a, w) == {q \in PendingIn(a) : calls[q].socket = w}

\* unregister(), after which an empty hub is forgotten with what is still
\* pending in it: the calls of replaced sockets.
Unregister(a, w) ==
  LET clients == Unregistered(a, w) IN
  /\ websocketOf' = [websocketOf EXCEPT ![a] = clients]
  /\ hubs' = IF Emptied(clients) THEN hubs \ {a} ELSE hubs
  /\ calls' =
       [q \in Calls |->
          IF q \in HeldBy(a, w) THEN NoCall("settled")
          ELSE IF q \in PendingIn(a) /\ Emptied(clients) THEN [calls[q] EXCEPT !.state = "orphaned"]
          ELSE calls[q]]

\* The close event. The hub is the one the account has now, which need not be
\* the one the socket registered in.
Close(w) ==
  LET a == accountOf[deviceOf[w]] IN
  /\ readyState[w] = "closing"
  /\ readyState' = [readyState EXCEPT ![w] = "closed"]
  /\ ReleaseUnauthenticated(w)
  /\ deviceOf' = [deviceOf EXCEPT ![w] = None]
  /\ clientOf' = [clientOf EXCEPT ![w] = None]
  /\ IF deviceOf[w] # None /\ a \in hubs THEN Unregister(a, w) ELSE UNCHANGED hub
  /\ UNCHANGED <<store, signup, unfinished>>

\* The relay ends and is started again: the tables stay.
Restart ==
  /\ \E w \in Sockets : Delivers(w)
  /\ signup' \in Signups
  /\ readyState' = [w \in Sockets |-> IF Delivers(w) THEN "closed" ELSE readyState[w]]
  /\ countedFor' = [w \in Sockets |-> None]
  /\ unauthenticated' = [ip \in Addresses |-> 0]
  /\ deviceOf' = [w \in Sockets |-> None]
  /\ clientOf' = [w \in Sockets |-> None]
  /\ hubs' = {}
  /\ websocketOf' = [a \in Accounts |-> NoClients]
  /\ calls' = [q \in Calls |-> IF calls[q].state \in Unsettled THEN NoCall("settled") ELSE calls[q]]
  /\ UNCHANGED <<store, unfinished>>

-----------------------------------------------------------------------------

Tables ==
  /\ StoreAlone
  /\ UNCHANGED <<signup, connections, hub, unfinished>>

Next ==
  \/ \E w \in Sockets :
       \/ \E ip \in Addresses : Connect(w, ip)
       \/ \E d \in Devices, f \in Files : Hello(w, d, f) \/ Register(w, d, f)
       \/ \E q \in Calls : RpcResponse(w, q)
       \/ \E k \in LinkCodes : LinkDevice(w, k)
       \/ \E d \in Devices : RevokeDevice(w, d)
       \/ BeginClose(w)
       \/ Close(w)
  \/ \E q \in Calls :
       \/ \E a \in Accounts, c \in ClientIds : Request(q, a, c)
       \/ RpcTimeout(q)
  \/ Restart
  \/ Tables

Spec == Init /\ [][Next]_vars

-----------------------------------------------------------------------------
(* Properties *)

\* Every variable has its type.
TypeOK ==
  /\ accountOf \in [Devices -> Accounts \cup {None}]
  /\ revoked \subseteq Devices
  /\ invites \in [Invites -> CodeStates]
  /\ links \in [LinkCodes -> LinkRows]
  /\ joinedWith \in [Devices -> Invites \cup LinkCodes \cup {None}]
  /\ signup \in Signups
  /\ readyState \in [Sockets -> {"new", "open", "closing", "closed"}]
  /\ countedFor \in [Sockets -> Addresses \cup {None}]
  /\ unauthenticated \in [Addresses -> Nat]
  /\ deviceOf \in [Sockets -> Devices \cup {None}]
  /\ clientOf \in [Sockets -> ClientIds \cup {None}]
  /\ hubs \subseteq Accounts
  /\ websocketOf \in [Accounts -> [ClientIds -> Sockets \cup {None}]]
  /\ calls \in [Calls -> CallRows]
  /\ unfinished \subseteq revoked

\* A code admits one device, however often it is tried, and whether or not its
\* row was pruned since (useLinkCode, useInvite).
CodesAdmitOneDevice ==
  \A d, e \in Devices : joinedWith[d] # None /\ joinedWith[d] = joinedWith[e] => d = e

\* An account never has more devices than its limit, although several codes may
\* be out when the last place is taken, nor more live codes than it may have.
AccountsAreBounded ==
  \A a \in Accounts :
    /\ Cardinality(ActiveDevices(a)) <= MaxDevices
    /\ Cardinality(LiveLinks(a)) <= MaxLinkCodes

\* Whoever joins with which code, twice, late or all at once, an account stays
\* within its limits and a code is spent on one device.
JoiningIsBounded == CodesAdmitOneDevice /\ AccountsAreBounded

\* "A removed device keeps neither its link codes ...": a code that could be
\* redeemed was made by a device that is still active, whichever sockets the
\* device still had when it was removed.
LinkCodesDieWithTheirDevice ==
  \A k \in LinkCodes : links[k].state = "live" => Active(links[k].by)

\* The step removes a device, or makes a code, at the request of a connected and
\* active device of that account.
RequestedByMember ==
  /\ \A d \in revoked' \ revoked :
       \E w \in Sockets :
         deviceOf[w] # None /\ Active(deviceOf[w]) /\ accountOf[deviceOf[w]] = accountOf[d]
  /\ \A k \in LinkCodes :
       links[k].state # "live" /\ links'[k].state = "live" =>
         \E w \in Sockets : deviceOf[w] = links'[k].by /\ Active(deviceOf[w])

\* Only an account's own devices change it, and not after they were removed.
OnlyMembersChangeAnAccount == [][RequestedByMember]_vars

\* A socket that is open and authenticated, in whose place or replaced, belongs
\* to an active device; unless the removal of that device stopped half-way.
OpenSocketsHaveActiveDevices ==
  \A w \in Sockets :
    readyState[w] = "open" /\ deviceOf[w] # None => Active(deviceOf[w]) \/ deviceOf[w] \in unfinished

\* A removed device keeps nothing it could act by: no open connection and no code
\* that another device could join with.
RemovedDevicesArePowerless == LinkCodesDieWithTheirDevice /\ OpenSocketsHaveActiveDevices

\* The counters that keep anonymous sockets within limits count exactly them:
\* not one twice, by its authentication and by its close, and none for ever.
CountersAreExact ==
  \A ip \in Addresses :
    unauthenticated[ip] = Cardinality({w \in Unauthenticated : countedFor[w] = ip})

\* So there are never more anonymous sockets than the two limits say.
UnauthenticatedAreCounted ==
  /\ CountersAreExact
  /\ \A ip \in Addresses : unauthenticated[ip] <= MaxPerAddress
  /\ Cardinality(Unauthenticated) <= MaxTotal

\* An account has a hub exactly while some socket serves it, and the sockets in
\* it are connected ones of that account's devices.
HubsHaveClients ==
  \A a \in Accounts :
    /\ a \in hubs <=> websocketOf[a] # NoClients
    /\ \A c \in ClientIds :
         LET w == websocketOf[a][c] IN
         w # None => Delivers(w) /\ clientOf[w] = c /\ accountOf[deviceOf[w]] = a

\* The step puts a socket out of its place only by closing it, or for another
\* socket of its device.
KeepsPlaces ==
  \A a \in Accounts, c \in ClientIds :
    LET w == websocketOf[a][c]
        v == websocketOf'[a][c] IN
    w # None /\ v # w =>
      \/ readyState'[w] = "closed"
      \/ v # None /\ deviceOf[v] = None /\ deviceOf'[v] = deviceOf[w]

\* A socket serves its client until it closes, or until a new socket of the same
\* device takes its place: no other device, and no late close of a socket that
\* was replaced, puts it out.
PlacesAreKept == [][KeepsPlaces]_vars

\* The calls of a hub are with connected sockets: a close, of a replaced socket
\* too, fails what that socket was asked. What was pending in a hub that was
\* forgotten is excepted: it can only time out.
PendingCallsAreConnected ==
  \A q \in Calls : calls[q].state = "pending" => Delivers(calls[q].socket) /\ calls[q].account \in hubs
=============================================================================
