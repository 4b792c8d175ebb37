-------------------------- MODULE RelayGatewayProofs --------------------------
(***************************************************************************)
(* Theorems about RelayGateway for any number of accounts, devices, codes, *)
(* sockets, addresses and calls, and any limits.                           *)
(***************************************************************************)
EXTENDS RelayGateway, Sums

-----------------------------------------------------------------------------
(* The tables *)

StoreOK ==
  /\ accountOf \in [Devices -> Accounts \cup {None}]
  /\ revoked \subseteq Devices
  /\ invites \in [Invites -> CodeStates]
  /\ links \in [LinkCodes -> LinkRows]
  /\ joinedWith \in [Devices -> Invites \cup LinkCodes \cup {None}]
  /\ \A d \in revoked : accountOf[d] # None
  /\ \A k \in LinkCodes : links[k].state = "live" => links[k].by \in Devices /\ Active(links[k].by)

\* What every step of the tables keeps: a device's account never changes, and a
\* removed device stays removed.
Grows ==
  /\ \A d \in Devices : accountOf[d] # None => accountOf'[d] = accountOf[d]
  /\ revoked \subseteq revoked'

JoinStep ==
  \E d \in Devices :
    \/ \E k \in LinkCodes : JoinWithLink(d, k)
    \/ \E a \in Accounts, i \in Invites : JoinWithInvite(d, a, i)
    \/ \E a \in Accounts : JoinOpenly(d, a)

MemberStep ==
  \/ \E d \in Devices, k \in LinkCodes : Active(d) /\ CreateLinkCode(d, k)
  \/ \E d \in Devices : Active(d) /\ RemoveDevice(d)

StoreStep == JoinStep \/ MemberStep \/ StoreAlone \/ UNCHANGED store

\* Pruning takes no code into use.
LEMMA PruneLinksLemma ==
  ASSUME NEW rows, NEW table \in [LinkCodes -> LinkRows]
  PROVE  /\ PruneLinks(rows, table) \in [LinkCodes -> LinkRows]
         /\ \A k \in LinkCodes :
              PruneLinks(rows, table)[k].state = "live" =>
                table[k].state = "live" /\ PruneLinks(rows, table)[k].by = table[k].by
BY DEF PruneLinks, DeletedRow, LinkRows, CodeStates

\* A code that is used is live no more; the others are as they were.
LEMMA UseLinkLemma ==
  ASSUME StoreOK, NEW k \in LinkCodes
  PROVE  /\ UseLink(k) \in [LinkCodes -> LinkRows]
         /\ \A j \in LinkCodes :
              UseLink(k)[j].state = "live" => links[j].state = "live" /\ UseLink(k)[j].by = links[j].by
<1>1. [links[k] EXCEPT !.state = "used"] \in LinkRows
  BY DEF StoreOK, LinkRows, CodeStates
<1>2. QED
  BY <1>1 DEF StoreOK, UseLink, LinkRows

\* A step that adds a device and only takes link codes out of use.
LEMMA NewDeviceLemma ==
  ASSUME StoreOK, AccountsAssumption,
         NEW d \in Devices, NEW a \in Accounts, NEW code \in Invites \cup LinkCodes \cup {None},
         NewDevice(d, a, code),
         invites' \in [Invites -> CodeStates],
         links' \in [LinkCodes -> LinkRows],
         \A k \in LinkCodes : links'[k].state = "live" => links[k].state = "live" /\ links'[k].by = links[k].by
  PROVE  StoreOK' /\ Grows
BY DEF StoreOK, Grows, NewDevice, Active, AccountsAssumption

\* The tables stay consistent, and no step brings a code back into use.
LEMMA StoreSteps ==
  ASSUME AccountsAssumption, StoreOK, StoreStep
  PROVE  StoreOK' /\ Grows
<1>1. ASSUME NEW d \in Devices, NEW k \in LinkCodes, JoinWithLink(d, k)
      PROVE  StoreOK' /\ Grows
  <2>1. AccountOfLink(k) \in Accounts
    BY <1>1 DEF JoinWithLink, AccountOfLink, StoreOK, Active
  <2>2. /\ links' \in [LinkCodes -> LinkRows]
        /\ \A j \in LinkCodes : links'[j].state = "live" => links[j].state = "live" /\ links'[j].by = links[j].by
    BY <1>1, PruneLinksLemma, UseLinkLemma DEF JoinWithLink
  <2>3. QED
    BY <1>1, <2>1, <2>2, NewDeviceLemma DEF JoinWithLink, StoreOK
<1>2. ASSUME NEW d \in Devices, NEW a \in Accounts, NEW code \in Invites \cup LinkCodes \cup {None},
             FoundAccount(d, a, code), invites' \in [Invites -> CodeStates]
      PROVE  StoreOK' /\ Grows
  <2>1. /\ links' \in [LinkCodes -> LinkRows]
        /\ \A j \in LinkCodes : links'[j].state = "live" => links[j].state = "live" /\ links'[j].by = links[j].by
    BY <1>2, PruneLinksLemma DEF FoundAccount, StoreOK
  <2>2. QED
    BY <1>2, <2>1, NewDeviceLemma DEF FoundAccount
<1>3. ASSUME NEW d \in Devices, NEW a \in Accounts, NEW i \in Invites, JoinWithInvite(d, a, i)
      PROVE  StoreOK' /\ Grows
  BY <1>2, <1>3 DEF JoinWithInvite, StoreOK, CodeStates
<1>4. ASSUME NEW d \in Devices, NEW a \in Accounts, JoinOpenly(d, a)
      PROVE  StoreOK' /\ Grows
  BY <1>2, <1>4 DEF JoinOpenly, StoreOK
<1>5. ASSUME NEW d \in Devices, NEW k \in LinkCodes, Active(d), CreateLinkCode(d, k)
      PROVE  StoreOK' /\ Grows
  <2>1. links' = [links EXCEPT ![k] = [state |-> "live", by |-> d]]
    BY <1>5 DEF CreateLinkCode
  <2>2. links' \in [LinkCodes -> LinkRows]
    BY <2>1 DEF StoreOK, LinkRows, CodeStates
  <2>3. QED
    BY <1>5, <2>1, <2>2 DEF CreateLinkCode, StoreOK, Grows, Active
<1>6. ASSUME NEW d \in Devices, Active(d), RemoveDevice(d)
      PROVE  StoreOK' /\ Grows
  <2>1. links' \in [LinkCodes -> LinkRows]
    BY <1>6 DEF RemoveDevice, DropLinks, DeletedRow, StoreOK, LinkRows, CodeStates
  <2>2. \A k \in LinkCodes : links'[k].state = "live" => links'[k] = links[k] /\ links[k].by # d
    BY <1>6 DEF RemoveDevice, DropLinks, DeletedRow
  <2>3. QED
    BY <1>6, <2>1, <2>2 DEF RemoveDevice, StoreOK, Grows, Active
<1>7. ASSUME StoreAlone
      PROVE  StoreOK' /\ Grows
  <2>1. ASSUME NEW i \in Invites, CreateInvite(i) \/ ExpireInvite(i)
        PROVE  StoreOK' /\ Grows
    BY <2>1 DEF CreateInvite, ExpireInvite, StoreOK, Grows, CodeStates, Active
  <2>2. ASSUME NEW k \in LinkCodes, ExpireLink(k)
        PROVE  StoreOK' /\ Grows
    <3>1. [links[k] EXCEPT !.state = "expired"] \in LinkRows
      BY DEF StoreOK, LinkRows, CodeStates
    <3>2. links' = [links EXCEPT ![k] = [links[k] EXCEPT !.state = "expired"]]
      BY <2>2 DEF ExpireLink
    <3>3. QED
      BY <2>2, <3>1, <3>2 DEF ExpireLink, StoreOK, Grows, Active, LinkRows
  <2>3. ASSUME Prune
        PROVE  StoreOK' /\ Grows
    <3>1. /\ links' \in [LinkCodes -> LinkRows]
          /\ \A k \in LinkCodes : links'[k].state = "live" => links[k].state = "live" /\ links'[k].by = links[k].by
      BY <2>3, PruneLinksLemma DEF Prune, StoreOK
    <3>2. invites' \in [Invites -> CodeStates]
      BY <2>3 DEF Prune, StoreOK, CodeStates
    <3>3. QED
      BY <2>3, <3>1, <3>2 DEF Prune, StoreOK, Grows, Active
  <2>4. QED
    BY <1>7, <2>1, <2>2, <2>3 DEF StoreAlone
<1>8. ASSUME UNCHANGED store
      PROVE  StoreOK' /\ Grows
  BY <1>8 DEF store, StoreOK, Grows, Active
<1>9. QED
  BY <1>1, <1>3, <1>4, <1>5, <1>6, <1>7, <1>8 DEF StoreStep, JoinStep, MemberStep

-----------------------------------------------------------------------------
(* The connections *)

TypesOK ==
  /\ signup \in Signups
  /\ readyState \in [Sockets -> {"new", "open", "closing", "closed"}]
  /\ countedFor \in [Sockets -> Addresses \cup {None}]
  /\ unauthenticated \in [Addresses -> Nat]
  /\ deviceOf \in [Sockets -> Devices \cup {None}]
  /\ clientOf \in [Sockets -> ClientIds \cup {None}]
  /\ hubs \subseteq Accounts
  /\ websocketOf \in [Accounts -> [ClientIds -> Sockets \cup {None}]]
  /\ calls \in [Calls -> CallRows]

\* What a connection's closure says of itself fits together.
ClosuresOK ==
  \A w \in Sockets :
    /\ deviceOf[w] # None => Delivers(w) /\ accountOf[deviceOf[w]] # None
    /\ clientOf[w] # None <=> deviceOf[w] # None
    /\ clientOf[w] # None => clientOf[w][1] = deviceOf[w]
    /\ countedFor[w] # None <=> w \in Unauthenticated

RemovalOK == unfinished \subseteq revoked /\ OpenSocketsHaveActiveDevices

\* A socket in a hub is in the place of its own client id and account.
PlacesOK ==
  \A a \in Accounts, c \in ClientIds :
    LET w == websocketOf[a][c] IN
    w # None => deviceOf[w] # None /\ clientOf[w] = c /\ accountOf[deviceOf[w]] = a

HubsOK == \A a \in Accounts : a \in hubs <=> websocketOf[a] # NoClients

\* A pending call is with a socket of the account it is for, replaced or not.
CallsOK ==
  \A q \in Calls :
    calls[q].state = "pending" =>
      /\ calls[q].account \in hubs
      /\ deviceOf[calls[q].socket] # None
      /\ accountOf[deviceOf[calls[q].socket]] = calls[q].account

CountedFor(ip) == {w \in Sockets : countedFor[w] = ip}

CountsOK == \A ip \in Addresses : unauthenticated[ip] = Cardinality(CountedFor(ip))

GatewayInv ==
  /\ StoreOK
  /\ TypesOK
  /\ ClosuresOK
  /\ RemovalOK
  /\ PlacesOK
  /\ HubsOK
  /\ CallsOK
  /\ CountsOK

\* The invariant holds at the start.
LEMMA GatewayInvInit ==
  ASSUME AccountsAssumption, GatewayAssumption, Init
  PROVE  GatewayInv
<1>1. StoreOK
  BY DEF Init, InitStore, StoreOK, LinkRows, CodeStates
<1>2. TypesOK
  <2>1. calls \in [Calls -> CallRows]
    BY DEF Init, CallRows
  <2>2. websocketOf \in [Accounts -> [ClientIds -> Sockets \cup {None}]]
    BY DEF Init, NoClients
  <2>3. QED
    BY <2>1, <2>2 DEF Init, TypesOK
<1>3. ClosuresOK /\ RemovalOK /\ PlacesOK /\ HubsOK /\ CallsOK
  BY DEF Init, InitStore, ClosuresOK, Delivers, Unauthenticated, RemovalOK, OpenSocketsHaveActiveDevices,
         PlacesOK, HubsOK, CallsOK, NoClients, NoCall
<1>4. CountsOK
  <2>1. \A ip \in Addresses : CountedFor(ip) = {}
    BY DEF Init, CountedFor, GatewayAssumption
  <2>2. QED
    BY <2>1, FS_EmptySet DEF Init, CountsOK
<1>5. QED
  BY <1>1, <1>2, <1>3, <1>4 DEF GatewayInv

\* releaseUnauthenticated() keeps the counters exact, for a socket that is
\* counted and for one that is not.
LEMMA ReleaseLemma ==
  ASSUME GatewayAssumption, TypesOK, CountsOK, NEW w \in Sockets, ReleaseUnauthenticated(w)
  PROVE  /\ countedFor' \in [Sockets -> Addresses \cup {None}]
         /\ unauthenticated' \in [Addresses -> Nat]
         /\ CountsOK'
<1>1. /\ countedFor' = [countedFor EXCEPT ![w] = None]
      /\ countedFor' \in [Sockets -> Addresses \cup {None}]
  BY DEF ReleaseUnauthenticated, TypesOK
<1>2. ASSUME NEW ip \in Addresses
      PROVE  /\ unauthenticated'[ip] = Cardinality(CountedFor(ip)')
             /\ unauthenticated'[ip] \in Nat
  <2>1. IsFiniteSet(CountedFor(ip)) /\ unauthenticated[ip] = Cardinality(CountedFor(ip))
    BY FS_Subset DEF CountedFor, GatewayAssumption, CountsOK
  <2>2. CASE ip = countedFor[w]
    <3>1. CountedFor(ip)' = CountedFor(ip) \ {w} /\ w \in CountedFor(ip)
      BY <1>1, <2>2 DEF CountedFor, TypesOK, GatewayAssumption
    <3>2. Cardinality(CountedFor(ip)') = Cardinality(CountedFor(ip)) - 1 /\ Cardinality(CountedFor(ip)') \in Nat
      BY <2>1, <3>1, FS_RemoveElement, FS_CardinalityType
    <3>3. QED
      BY <2>1, <2>2, <3>2 DEF ReleaseUnauthenticated
  <2>3. CASE ip # countedFor[w]
    <3>1. CountedFor(ip)' = CountedFor(ip)
      BY <1>1, <2>3 DEF CountedFor, TypesOK, GatewayAssumption
    <3>2. QED
      BY <2>1, <2>3, <3>1 DEF ReleaseUnauthenticated, TypesOK
  <2>4. QED
    BY <2>2, <2>3
<1>3. QED
  BY <1>1, <1>2 DEF ReleaseUnauthenticated, CountsOK

\* attach(), after hello or register: the socket had no place and no device, and
\* the device it gets is active.
LEMMA AttachLemma ==
  ASSUME AccountsAssumption, GatewayAssumption, GatewayInv, StoreOK', Grows,
         NEW w \in Unauthenticated, NEW d \in Devices, NEW f \in Files, NEW a \in Accounts,
         accountOf'[d] = a, d \notin revoked',
         revoked' = revoked,
         Attach(w, d, f, a)
  PROVE  GatewayInv'
<1> DEFINE c == <<d, f>>
<1>1. w \in Sockets /\ c \in ClientIds /\ c # None /\ a # None /\ d # None
  BY DEF Unauthenticated, ClientIds, GatewayAssumption, AccountsAssumption
<1>2. /\ deviceOf' = [deviceOf EXCEPT ![w] = d]
      /\ clientOf' = [clientOf EXCEPT ![w] = c]
      /\ hubs' = hubs \cup {a}
      /\ websocketOf' = [websocketOf EXCEPT ![a][c] = w]
      /\ UNCHANGED <<signup, readyState, calls, unfinished>>
  BY DEF Attach, ClientId
<1>3. TypesOK' /\ CountsOK'
  <2>1. websocketOf' \in [Accounts -> [ClientIds -> Sockets \cup {None}]]
    BY <1>1, <1>2 DEF GatewayInv, TypesOK
  <2>2. QED
    BY <1>1, <1>2, <2>1, ReleaseLemma DEF GatewayInv, TypesOK, Attach
<1> HIDE DEF c
<1>4. ClosuresOK'
  <2>1. \A v \in Sockets : v # w => /\ deviceOf'[v] = deviceOf[v] /\ clientOf'[v] = clientOf[v]
                                    /\ countedFor'[v] = countedFor[v]
    BY <1>1, <1>2 DEF GatewayInv, TypesOK, Attach, ReleaseUnauthenticated
  <2>2. deviceOf'[w] = d /\ clientOf'[w] = c /\ countedFor'[w] = None /\ c[1] = d
    BY <1>1, <1>2 DEF GatewayInv, TypesOK, Attach, ReleaseUnauthenticated, c
  <2>3. \A v \in Sockets : deviceOf[v] # None => accountOf'[deviceOf[v]] # None
    BY DEF GatewayInv, TypesOK, ClosuresOK, Grows
  <2>4. QED
    BY <1>1, <1>2, <2>1, <2>2, <2>3 DEF GatewayInv, ClosuresOK, Delivers, Unauthenticated
<1>5. RemovalOK'
  BY <1>1, <1>2 DEF GatewayInv, TypesOK, ClosuresOK, RemovalOK, OpenSocketsHaveActiveDevices, Active, Grows
<1>6. /\ websocketOf'[a][c] = w
      /\ \A b \in Accounts, e \in ClientIds : b # a \/ e # c => websocketOf'[b][e] = websocketOf[b][e]
  BY <1>1, <1>2 DEF GatewayInv, TypesOK
<1>7. PlacesOK'
  <2>1. ASSUME NEW b \in Accounts, NEW e \in ClientIds, b # a \/ e # c, websocketOf[b][e] # None
        PROVE  /\ deviceOf'[websocketOf[b][e]] # None
               /\ clientOf'[websocketOf[b][e]] = e
               /\ accountOf'[deviceOf'[websocketOf[b][e]]] = b
    <3>1. websocketOf[b][e] \in Sockets /\ websocketOf[b][e] # w
      BY <2>1 DEF GatewayInv, TypesOK, PlacesOK, Unauthenticated
    <3>2. QED
      BY <1>1, <1>2, <2>1, <3>1 DEF GatewayInv, TypesOK, PlacesOK, Grows, AccountsAssumption
  <2>2. deviceOf'[w] = d /\ clientOf'[w] = c
    BY <1>1, <1>2 DEF GatewayInv, TypesOK
  <2>3. QED
    BY <1>1, <1>6, <2>1, <2>2 DEF PlacesOK
<1>8. HubsOK'
  <2>1. \A b \in Accounts : b # a => websocketOf'[b] = websocketOf[b]
    BY <1>1, <1>2 DEF GatewayInv, TypesOK
  <2>2. websocketOf'[a] # NoClients
    BY <1>1, <1>6 DEF NoClients, GatewayAssumption
  <2>3. QED
    BY <1>2, <2>1, <2>2 DEF GatewayInv, HubsOK
<1>9. CallsOK'
  <2>1. ASSUME NEW q \in Calls, calls[q].state = "pending"
        PROVE  /\ calls[q].account \in hubs'
               /\ deviceOf'[calls[q].socket] # None
               /\ accountOf'[deviceOf'[calls[q].socket]] = calls[q].account
    <3>1. calls[q].socket \in Sockets /\ calls[q].socket # w
      BY <2>1 DEF GatewayInv, TypesOK, CallRows, NoCall, CallsOK, Unauthenticated
    <3>2. QED
      BY <1>1, <1>2, <2>1, <3>1 DEF GatewayInv, TypesOK, CallsOK, ClosuresOK, Grows
  <2>2. QED
    BY <1>2, <2>1 DEF CallsOK
<1>10. QED
  BY <1>3, <1>4, <1>5, <1>7, <1>8, <1>9 DEF GatewayInv

\* A socket that connects is counted.
LEMMA ConnectLemma ==
  ASSUME GatewayAssumption, GatewayInv, NEW w \in Sockets, NEW ip \in Addresses, Connect(w, ip)
  PROVE  GatewayInv'
<1>1. StoreOK'
  BY DEF Connect, GatewayInv, StoreOK, store, Active
<1>2. TypesOK'
  BY DEF Connect, GatewayInv, TypesOK, hub
<1>3. ClosuresOK'
  <2>1. ~Delivers(w) /\ Delivers(w)' /\ \A v \in Sockets : v # w => (Delivers(v)' <=> Delivers(v))
    BY DEF Connect, GatewayInv, TypesOK, Delivers
  <2>2. countedFor'[w] # None /\ \A v \in Sockets : v # w => countedFor'[v] = countedFor[v]
    BY DEF Connect, GatewayInv, TypesOK, GatewayAssumption
  <2>3. QED
    BY <2>1, <2>2 DEF Connect, store, GatewayInv, ClosuresOK, Unauthenticated
<1>4. RemovalOK'
  <2>1. deviceOf[w] = None
    BY DEF Connect, GatewayInv, ClosuresOK, Delivers
  <2>2. QED
    BY <2>1 DEF Connect, store, GatewayInv, TypesOK, RemovalOK, OpenSocketsHaveActiveDevices, Active
<1>5. PlacesOK' /\ HubsOK' /\ CallsOK'
  BY DEF Connect, store, hub, GatewayInv, PlacesOK, HubsOK, CallsOK
<1>6. CountsOK'
  <2>1. countedFor[w] = None /\ ip # None
    BY DEF Connect, GatewayInv, ClosuresOK, Unauthenticated, Delivers, GatewayAssumption
  <2>2. ASSUME NEW p \in Addresses
        PROVE  unauthenticated'[p] = Cardinality(CountedFor(p)')
    <3>1. IsFiniteSet(CountedFor(p)) /\ unauthenticated[p] = Cardinality(CountedFor(p))
      BY FS_Subset DEF CountedFor, GatewayAssumption, GatewayInv, CountsOK
    <3>2. CASE p = ip
      <4>1. CountedFor(p)' = CountedFor(p) \cup {w} /\ w \notin CountedFor(p)
        BY <2>1, <3>2 DEF CountedFor, Connect, GatewayInv, TypesOK
      <4>2. Cardinality(CountedFor(p) \cup {w}) = Cardinality(CountedFor(p)) + 1
        BY <3>1, <4>1, FS_AddElement
      <4>3. unauthenticated'[p] = unauthenticated[p] + 1
        BY <3>2 DEF Connect, GatewayInv, TypesOK
      <4>4. QED
        BY <3>1, <4>1, <4>2, <4>3
    <3>3. CASE p # ip
      <4>1. CountedFor(p)' = CountedFor(p)
        BY <2>1, <3>3 DEF CountedFor, Connect, GatewayInv, TypesOK, GatewayAssumption
      <4>2. QED
        BY <3>1, <3>3, <4>1 DEF Connect, GatewayInv, TypesOK
    <3>4. QED
      BY <3>2, <3>3
  <2>3. QED
    BY <2>2 DEF CountsOK
<1>7. QED
  BY <1>1, <1>2, <1>3, <1>4, <1>5, <1>6 DEF GatewayInv

\* The steps of the tables that leave connections alone.
LEMMA TablesLemma ==
  ASSUME AccountsAssumption, GatewayInv, StoreOK', Grows,
         UNCHANGED <<signup, countedFor, unauthenticated, deviceOf, clientOf, hub>>,
         readyState' \in [Sockets -> {"new", "open", "closing", "closed"}],
         \A w \in Sockets :
           readyState'[w] = readyState[w] \/ (readyState[w] = "open" /\ readyState'[w] = "closing"),
         RemovalOK'
  PROVE  GatewayInv'
<1>1. TypesOK'
  BY DEF GatewayInv, TypesOK, hub
<1>2. \A w \in Sockets : deviceOf[w] # None => accountOf'[deviceOf[w]] = accountOf[deviceOf[w]]
  BY DEF GatewayInv, TypesOK, ClosuresOK, Grows
<1>3. \A w \in Sockets : Delivers(w)' <=> Delivers(w)
  BY DEF GatewayInv, TypesOK, Delivers
<1>4. ClosuresOK'
  BY <1>2, <1>3 DEF GatewayInv, ClosuresOK, Unauthenticated
<1>5. PlacesOK'
  BY <1>2 DEF GatewayInv, TypesOK, PlacesOK, hub
<1>6. CallsOK'
  <2>1. \A q \in Calls : calls[q].state = "pending" => calls[q].socket \in Sockets
    BY DEF GatewayInv, TypesOK, CallRows, NoCall
  <2>2. QED
    BY <1>2, <2>1 DEF GatewayInv, CallsOK, hub
<1>7. HubsOK' /\ CountsOK'
  BY DEF GatewayInv, HubsOK, CountsOK, CountedFor, hub
<1>8. QED
  BY <1>1, <1>4, <1>5, <1>6, <1>7 DEF GatewayInv

\* The steps of a call that do not lose its socket.
LEMMA CallsLemma ==
  ASSUME GatewayInv, NEW q \in Calls, UNCHANGED <<store, signup, connections, hubs, websocketOf, unfinished>>,
         NEW row \in CallRows, calls' = [calls EXCEPT ![q] = row],
         row.state = "pending" =>
           /\ row.account \in hubs
           /\ deviceOf[row.socket] # None
           /\ accountOf[deviceOf[row.socket]] = row.account
  PROVE  GatewayInv'
<1>1. StoreOK'
  BY DEF store, GatewayInv, StoreOK, Active
<1>2. TypesOK'
  BY DEF connections, GatewayInv, TypesOK
<1>3. ClosuresOK' /\ RemovalOK' /\ PlacesOK' /\ HubsOK' /\ CountsOK'
  BY DEF store, connections, GatewayInv, ClosuresOK, Delivers, Unauthenticated, RemovalOK,
         OpenSocketsHaveActiveDevices, Active, PlacesOK, HubsOK, CountsOK, CountedFor
<1>4. CallsOK'
  BY DEF store, connections, GatewayInv, TypesOK, CallsOK
<1>5. QED
  BY <1>1, <1>2, <1>3, <1>4 DEF GatewayInv

\* The close event: the place is given up if it is still the socket's own, and
\* no pending call keeps the socket.
LEMMA CloseLemma ==
  ASSUME AccountsAssumption, GatewayAssumption, GatewayInv, NEW w \in Sockets, Close(w)
  PROVE  GatewayInv'
<1> DEFINE a == accountOf[deviceOf[w]]
<1>1. /\ readyState' = [readyState EXCEPT ![w] = "closed"]
      /\ deviceOf' = [deviceOf EXCEPT ![w] = None]
      /\ clientOf' = [clientOf EXCEPT ![w] = None]
      /\ ReleaseUnauthenticated(w)
      /\ UNCHANGED <<store, signup, unfinished>>
  BY DEF Close
<1>2. StoreOK'
  BY <1>1 DEF store, GatewayInv, StoreOK, Active
<1>3. /\ countedFor' \in [Sockets -> Addresses \cup {None}]
      /\ unauthenticated' \in [Addresses -> Nat]
      /\ CountsOK'
  BY <1>1, ReleaseLemma DEF GatewayInv
<1>4. ClosuresOK'
  <2>1. \A v \in Sockets : v # w => /\ deviceOf'[v] = deviceOf[v] /\ clientOf'[v] = clientOf[v]
                                    /\ countedFor'[v] = countedFor[v] /\ readyState'[v] = readyState[v]
    BY <1>1 DEF GatewayInv, TypesOK, ReleaseUnauthenticated
  <2>2. deviceOf'[w] = None /\ clientOf'[w] = None /\ countedFor'[w] = None /\ readyState'[w] = "closed"
    BY <1>1 DEF GatewayInv, TypesOK, ReleaseUnauthenticated
  <2>3. QED
    BY <1>1, <2>1, <2>2 DEF store, GatewayInv, ClosuresOK, Delivers, Unauthenticated
<1>5. RemovalOK'
  BY <1>1 DEF store, GatewayInv, TypesOK, RemovalOK, OpenSocketsHaveActiveDevices, Active
<1>6. CASE deviceOf[w] # None /\ a \in hubs
  <2>1. Unregister(a, w) /\ a \in Accounts
    BY <1>6 DEF Close, GatewayInv, TypesOK
  <2> DEFINE clients == Unregistered(a, w)
  <2>2. /\ websocketOf' = [websocketOf EXCEPT ![a] = clients]
        /\ clients \in [ClientIds -> Sockets \cup {None}]
        /\ \A c \in ClientIds : clients[c] # None => clients[c] = websocketOf[a][c] /\ clients[c] # w
    <3>1. \A c \in ClientIds : websocketOf[a][c] = w => c = clientOf[w]
      BY <2>1 DEF GatewayInv, PlacesOK, AccountsAssumption, GatewayAssumption
    <3>2. QED
      BY <2>1, <3>1 DEF Unregister, Unregistered, GatewayInv, TypesOK
  <2>3. hubs' = IF clients = NoClients THEN hubs \ {a} ELSE hubs
    BY <2>1 DEF Unregister, Emptied
  <2>4. \A q \in Calls : calls'[q].state = "pending" =>
          /\ calls'[q] = calls[q] /\ calls[q].socket # w /\ calls[q].account \in hubs'
    <3> TAKE q \in Calls
    <3>1. CASE q \in HeldBy(a, w)
      BY <2>1, <3>1 DEF Unregister, NoCall
    <3>2. CASE q \notin HeldBy(a, w) /\ q \in PendingIn(a) /\ Emptied(clients)
      <4>1. calls'[q] = [calls[q] EXCEPT !.state = "orphaned"]
        BY <2>1, <3>2 DEF Unregister
      <4>2. calls[q] \in [state : Unsettled, account : Accounts, socket : Sockets]
        BY <3>2 DEF PendingIn, GatewayInv, TypesOK, CallRows, NoCall
      <4>3. QED
        BY <4>1, <4>2
    <3>3. CASE q \notin HeldBy(a, w) /\ ~(q \in PendingIn(a) /\ Emptied(clients))
      <4>1. calls'[q] = calls[q]
        BY <2>1, <3>3 DEF Unregister
      <4>2. CASE calls[q].state = "pending"
        <5>1. calls[q].account \in hubs /\ accountOf[deviceOf[calls[q].socket]] = calls[q].account
          BY <4>2 DEF GatewayInv, CallsOK
        <5>2. calls[q].socket # w
          BY <3>3, <4>2, <5>1 DEF HeldBy, PendingIn
        <5>3. calls[q].account \in hubs'
          BY <2>3, <3>3, <4>2, <5>1 DEF PendingIn, Emptied
        <5>4. QED
          BY <4>1, <5>2, <5>3
      <4>3. QED
        BY <4>1, <4>2
    <3>4. QED
      BY <3>1, <3>2, <3>3
  <2>5. calls' \in [Calls -> CallRows]
    <3>1. \A q \in Calls : calls[q].state = "pending" =>
            calls[q] \in [state : Unsettled, account : Accounts, socket : Sockets]
      BY DEF GatewayInv, TypesOK, CallRows, NoCall
    <3>2. \A q \in PendingIn(a) : [calls[q] EXCEPT !.state = "orphaned"] \in CallRows
      BY <3>1 DEF PendingIn, CallRows, Unsettled
    <3>3. NoCall("settled") \in CallRows
      BY DEF CallRows
    <3>4. QED
      BY <2>1, <3>2, <3>3 DEF Unregister, GatewayInv, TypesOK
  <2> HIDE DEF clients
  <2>6. TypesOK'
    BY <1>1, <1>3, <2>1, <2>2, <2>3, <2>5 DEF GatewayInv, TypesOK
  <2>7. PlacesOK'
    <3>1. ASSUME NEW b \in Accounts, NEW c \in ClientIds, websocketOf'[b][c] # None
          PROVE  websocketOf'[b][c] = websocketOf[b][c] /\ websocketOf[b][c] \in Sockets \ {w}
      <4>1. CASE b = a
        BY <2>1, <2>2, <3>1, <4>1 DEF GatewayInv, TypesOK
      <4>2. CASE b # a
        BY <2>1, <2>2, <3>1, <4>2 DEF GatewayInv, TypesOK, PlacesOK
      <4>3. QED
        BY <4>1, <4>2
    <3>2. QED
      BY <1>1, <3>1 DEF store, GatewayInv, TypesOK, PlacesOK
  <2>8. HubsOK'
    BY <2>1, <2>2, <2>3, <1>6 DEF GatewayInv, TypesOK, HubsOK
  <2>9. CallsOK'
    <3>1. ASSUME NEW q \in Calls, calls'[q].state = "pending"
          PROVE  /\ calls'[q].account \in hubs'
                 /\ deviceOf'[calls'[q].socket] # None
                 /\ accountOf'[deviceOf'[calls'[q].socket]] = calls'[q].account
      <4>1. calls'[q] = calls[q] /\ calls[q].socket \in Sockets \ {w} /\ calls[q].account \in hubs'
        BY <2>4, <3>1 DEF GatewayInv, TypesOK, CallRows, NoCall
      <4>2. QED
        BY <1>1, <3>1, <4>1 DEF store, GatewayInv, TypesOK, CallsOK
    <3>2. QED
      BY <3>1 DEF CallsOK
  <2>10. QED
    BY <1>2, <1>3, <1>4, <1>5, <2>6, <2>7, <2>8, <2>9 DEF GatewayInv
<1>7. CASE ~(deviceOf[w] # None /\ a \in hubs)
  <2>1. UNCHANGED hub
    BY <1>7 DEF Close
  \* Nothing is in a place or pending without a hub.
  <2>2. \A b \in Accounts, c \in ClientIds : websocketOf[b][c] # None => websocketOf[b][c] \in Sockets \ {w}
    <3>1. ASSUME NEW b \in Accounts, NEW c \in ClientIds, websocketOf[b][c] = w, w # None
          PROVE  FALSE
      <4>1. deviceOf[w] # None /\ accountOf[deviceOf[w]] = b
        BY <3>1 DEF GatewayInv, PlacesOK
      <4>2. websocketOf[b] # NoClients
        BY <3>1 DEF NoClients
      <4>3. QED
        BY <1>7, <4>1, <4>2 DEF GatewayInv, HubsOK
    <3>2. QED
      BY <3>1 DEF GatewayInv, TypesOK
  <2>3. \A q \in Calls : calls[q].state = "pending" => calls[q].socket \in Sockets \ {w}
    BY <1>7 DEF GatewayInv, TypesOK, CallRows, NoCall, CallsOK
  <2>4. TypesOK'
    BY <1>1, <1>3, <2>1 DEF hub, GatewayInv, TypesOK
  <2>5. PlacesOK' /\ HubsOK'
    BY <1>1, <2>1, <2>2 DEF store, hub, GatewayInv, TypesOK, PlacesOK, HubsOK
  <2>6. CallsOK'
    BY <1>1, <2>1, <2>3 DEF store, hub, GatewayInv, TypesOK, CallsOK
  <2>7. QED
    BY <1>2, <1>3, <1>4, <1>5, <2>4, <2>5, <2>6 DEF GatewayInv
<1>8. QED
  BY <1>6, <1>7

\* A process that ends takes every connection, hub and call with it.
LEMMA RestartLemma ==
  ASSUME GatewayAssumption, GatewayInv, Restart
  PROVE  GatewayInv'
<1>1. StoreOK'
  BY DEF Restart, store, GatewayInv, StoreOK, Active
<1>2. calls' \in [Calls -> CallRows] /\ \A q \in Calls : calls'[q].state # "pending"
  <2>1. NoCall("settled") \in CallRows
    BY DEF CallRows
  <2>2. QED
    BY <2>1 DEF Restart, GatewayInv, TypesOK, Unsettled, NoCall
<1>3. TypesOK'
  BY <1>2 DEF Restart, GatewayInv, TypesOK, NoClients
<1>4. \A w \in Sockets : ~Delivers(w)'
  BY DEF Restart, GatewayInv, TypesOK, Delivers
<1>5. ClosuresOK' /\ RemovalOK' /\ PlacesOK' /\ HubsOK' /\ CallsOK'
  BY <1>2, <1>4 DEF Restart, store, GatewayInv, ClosuresOK, Unauthenticated, RemovalOK,
                    OpenSocketsHaveActiveDevices, PlacesOK, HubsOK, CallsOK, NoClients
<1>6. CountsOK'
  <2>1. \A ip \in Addresses : CountedFor(ip)' = {}
    BY DEF Restart, CountedFor, GatewayAssumption
  <2>2. QED
    BY <2>1, FS_EmptySet DEF Restart, CountsOK
<1>7. QED
  BY <1>1, <1>3, <1>5, <1>6 DEF GatewayInv

\* Every step keeps the invariant.
LEMMA GatewayInvNext ==
  ASSUME AccountsAssumption, GatewayAssumption, GatewayInv, [Next]_vars
  PROVE  GatewayInv'
<1>1. ASSUME NEW w \in Sockets, NEW ip \in Addresses, Connect(w, ip)
      PROVE  GatewayInv'
  BY <1>1, ConnectLemma
<1>2. ASSUME NEW w \in Sockets, NEW d \in Devices, NEW f \in Files, Hello(w, d, f)
      PROVE  GatewayInv'
  <2>1. StoreOK' /\ Grows
    BY <1>2, StoreSteps DEF Hello, StoreStep, GatewayInv
  <2>2. accountOf[d] \in Accounts /\ d \notin revoked /\ UNCHANGED store
    BY <1>2 DEF Hello, Recognized, Active, GatewayInv, StoreOK
  <2>3. QED
    BY <1>2, <2>1, <2>2, AttachLemma DEF Hello, store
<1>3. ASSUME NEW w \in Sockets, NEW d \in Devices, NEW f \in Files, Register(w, d, f)
      PROVE  GatewayInv'
  <2>1. PICK a \in Accounts :
          Attach(w, d, f, a) /\ JoinStep /\ \E code \in Invites \cup LinkCodes \cup {None} : NewDevice(d, a, code)
    <3>1. ASSUME NEW k \in LinkCodes, JoinWithLink(d, k)
          PROVE  AccountOfLink(k) \in Accounts /\ JoinStep /\ NewDevice(d, AccountOfLink(k), k)
      BY <3>1 DEF JoinWithLink, JoinStep, AccountOfLink, GatewayInv, StoreOK, Active
    <3>2. ASSUME NEW a \in Accounts, NEW i \in Invites, JoinWithInvite(d, a, i)
          PROVE  JoinStep /\ NewDevice(d, a, i)
      BY <3>2 DEF JoinWithInvite, FoundAccount, JoinStep
    <3>3. ASSUME NEW a \in Accounts, JoinOpenly(d, a)
          PROVE  JoinStep /\ NewDevice(d, a, None)
      BY <3>3 DEF JoinOpenly, FoundAccount, JoinStep
    <3>4. QED
      BY <1>3, <3>1, <3>2, <3>3 DEF Register
  <2>2. StoreOK' /\ Grows
    BY <2>1, StoreSteps DEF StoreStep, GatewayInv
  <2>3. accountOf'[d] = a /\ revoked' = revoked /\ d \notin revoked
    BY <2>1 DEF NewDevice, GatewayInv, StoreOK
  <2>4. QED
    BY <1>3, <2>1, <2>2, <2>3, AttachLemma DEF Register
<1>4. ASSUME NEW w \in Sockets, NEW q \in Calls, RpcResponse(w, q)
      PROVE  GatewayInv'
  <2>1. NoCall("settled") \in CallRows /\ NoCall("settled").state # "pending"
    BY DEF CallRows, NoCall
  <2>2. QED
    BY <1>4, <2>1, CallsLemma DEF RpcResponse
<1>5. ASSUME NEW w \in Sockets, NEW k \in LinkCodes, LinkDevice(w, k)
      PROVE  GatewayInv'
  <2>1. StoreOK' /\ Grows
    BY <1>5, StoreSteps DEF LinkDevice, Admitted, StoreStep, MemberStep, GatewayInv, TypesOK
  <2>2. revoked' = revoked /\ accountOf' = accountOf /\ UNCHANGED <<signup, connections, hub, unfinished>>
    BY <1>5 DEF LinkDevice, CreateLinkCode
  <2>3. RemovalOK'
    BY <2>2 DEF connections, GatewayInv, RemovalOK, OpenSocketsHaveActiveDevices, Active
  <2>4. QED
    BY <2>1, <2>2, <2>3, TablesLemma DEF connections, GatewayInv, TypesOK
<1>6. ASSUME NEW w \in Sockets, NEW d \in Devices, RevokeDevice(w, d)
      PROVE  GatewayInv'
  <2>1. Active(d) /\ RemoveDevice(d)
    BY <1>6 DEF RevokeDevice, Removable
  <2>2. StoreOK' /\ Grows
    BY <2>1, StoreSteps DEF StoreStep, MemberStep, GatewayInv
  <2>3. accountOf' = accountOf /\ revoked' = revoked \cup {d} /\ deviceOf' = deviceOf
    BY <1>6, <2>1 DEF RevokeDevice, RemoveDevice
  <2>4. CASE DisconnectDevice(d) /\ UNCHANGED unfinished
    <3>1. \A v \in Sockets : readyState'[v] = "open" => readyState[v] = "open" /\ deviceOf[v] # d
      BY <2>4 DEF DisconnectDevice
    <3>2. RemovalOK'
      BY <2>3, <2>4, <3>1 DEF GatewayInv, RemovalOK, OpenSocketsHaveActiveDevices, Active
    <3>3. /\ readyState' \in [Sockets -> {"new", "open", "closing", "closed"}]
          /\ \A v \in Sockets :
               readyState'[v] = readyState[v] \/ (readyState[v] = "open" /\ readyState'[v] = "closing")
      BY <2>4 DEF DisconnectDevice, GatewayInv, TypesOK
    <3>4. QED
      BY <1>6, <2>2, <3>2, <3>3, TablesLemma DEF RevokeDevice
  <2>5. CASE unfinished' = unfinished \cup {d} /\ UNCHANGED readyState
    <3>1. RemovalOK'
      BY <2>3, <2>5 DEF GatewayInv, RemovalOK, OpenSocketsHaveActiveDevices, Active
    <3>2. QED
      BY <1>6, <2>2, <2>5, <3>1, TablesLemma DEF RevokeDevice, GatewayInv, TypesOK
  <2>6. QED
    BY <1>6, <2>4, <2>5 DEF RevokeDevice
<1>7. ASSUME NEW w \in Sockets, BeginClose(w)
      PROVE  GatewayInv'
  <2>1. StoreOK' /\ Grows
    BY <1>7, StoreSteps DEF BeginClose, StoreStep, GatewayInv
  <2>2. /\ readyState' \in [Sockets -> {"new", "open", "closing", "closed"}]
        /\ \A v \in Sockets :
             readyState'[v] = readyState[v] \/ (readyState[v] = "open" /\ readyState'[v] = "closing")
    BY <1>7 DEF BeginClose, GatewayInv, TypesOK
  <2>3. RemovalOK'
    BY <1>7, <2>2 DEF BeginClose, store, GatewayInv, RemovalOK, OpenSocketsHaveActiveDevices, Active
  <2>4. QED
    BY <1>7, <2>1, <2>2, <2>3, TablesLemma DEF BeginClose
<1>8. ASSUME NEW w \in Sockets, Close(w)
      PROVE  GatewayInv'
  BY <1>8, CloseLemma
<1>9. ASSUME NEW q \in Calls, NEW a \in Accounts, NEW c \in ClientIds, Request(q, a, c)
      PROVE  GatewayInv'
  <2> DEFINE w == websocketOf[a][c]
             row == [state |-> "pending", account |-> a, socket |-> w]
  <2>1. w \in Sockets /\ a \in hubs /\ deviceOf[w] # None /\ accountOf[deviceOf[w]] = a
    BY <1>9 DEF Request, GatewayInv, TypesOK, PlacesOK
  <2>2. row \in CallRows
    BY <2>1 DEF CallRows, Unsettled
  <2>3. calls' = [calls EXCEPT ![q] = row]
    BY <1>9 DEF Request
  <2> HIDE DEF w
  <2>4. row.account = a /\ row.socket = w
    OBVIOUS
  <2> HIDE DEF row
  <2>5. UNCHANGED <<store, signup, connections, hubs, websocketOf, unfinished>>
    BY <1>9 DEF Request
  <2>6. QED
    BY <2>1, <2>2, <2>3, <2>4, <2>5, CallsLemma
<1>10. ASSUME NEW q \in Calls, RpcTimeout(q)
       PROVE  GatewayInv'
  <2>1. NoCall("settled") \in CallRows /\ NoCall("settled").state # "pending"
    BY DEF CallRows, NoCall
  <2>2. QED
    BY <1>10, <2>1, CallsLemma DEF RpcTimeout
<1>11. ASSUME Restart
       PROVE  GatewayInv'
  BY <1>11, RestartLemma
<1>12. ASSUME Tables
       PROVE  GatewayInv'
  <2>1. StoreOK' /\ Grows
    BY <1>12, StoreSteps DEF Tables, StoreStep, GatewayInv
  <2>2. revoked' = revoked /\ accountOf' = accountOf
    BY <1>12 DEF Tables, StoreAlone, CreateInvite, ExpireInvite, ExpireLink, Prune
  <2>3. RemovalOK'
    BY <1>12, <2>2 DEF Tables, connections, GatewayInv, RemovalOK, OpenSocketsHaveActiveDevices, Active
  <2>4. QED
    BY <1>12, <2>1, <2>3, TablesLemma DEF Tables, connections, GatewayInv, TypesOK
<1>13. ASSUME UNCHANGED vars
       PROVE  GatewayInv'
  <2>1. StoreOK' /\ Grows
    BY <1>13, StoreSteps DEF vars, StoreStep, GatewayInv
  <2>2. RemovalOK'
    BY <1>13 DEF vars, store, connections, GatewayInv, RemovalOK, OpenSocketsHaveActiveDevices, Active
  <2>3. QED
    BY <1>13, <2>1, <2>2, TablesLemma DEF vars, connections, GatewayInv, TypesOK
<1>14. QED
  BY <1>1, <1>2, <1>3, <1>4, <1>5, <1>6, <1>7, <1>8, <1>9, <1>10, <1>11, <1>12, <1>13 DEF Next

\* The inductive invariant of the gateway and its tables.
THEOREM GatewayInvariant == Spec => []GatewayInv
<1>1. Init => GatewayInv
  BY GatewayInvInit, AccountsAssumption, GatewayAssumption
<1>2. GatewayInv /\ [Next]_vars => GatewayInv'
  BY GatewayInvNext, AccountsAssumption, GatewayAssumption
<1>3. QED
  BY <1>1, <1>2, PTL DEF Spec

\* Type correctness of the gateway and the tables.
THEOREM GatewayTypes == Spec => []TypeOK
<1>1. GatewayInv => TypeOK
  BY DEF GatewayInv, StoreOK, TypesOK, RemovalOK, TypeOK
<1>2. QED
  BY <1>1, GatewayInvariant, PTL

\* A link code that can be redeemed was made by a device that is still active, and
\* an open socket of a removed device remains only where its removal stopped
\* half-way.
THEOREM RemovedDevices == Spec => []RemovedDevicesArePowerless
<1>1. GatewayInv => LinkCodesDieWithTheirDevice
  BY DEF GatewayInv, StoreOK, LinkCodesDieWithTheirDevice
<1>2. GatewayInv => OpenSocketsHaveActiveDevices
  BY DEF GatewayInv, RemovalOK
<1>3. QED
  BY <1>1, <1>2, GatewayInvariant, PTL DEF RemovedDevicesArePowerless

\* Hubs exist for accounts with serving sockets, and serve only those accounts.
THEOREM Hubs == Spec => []HubsHaveClients
<1>1. GatewayInv => HubsHaveClients
  BY DEF GatewayInv, TypesOK, ClosuresOK, PlacesOK, HubsOK, HubsHaveClients
<1>2. QED
  BY <1>1, GatewayInvariant, PTL

\* A pending call is with a connected socket.
THEOREM PendingCalls == Spec => []PendingCallsAreConnected
<1>1. GatewayInv => PendingCallsAreConnected
  <2> SUFFICES ASSUME GatewayInv, NEW q \in Calls, calls[q].state = "pending"
               PROVE  Delivers(calls[q].socket) /\ calls[q].account \in hubs
    BY DEF PendingCallsAreConnected
  <2>1. calls[q].socket \in Sockets
    BY DEF GatewayInv, TypesOK, CallRows, NoCall
  <2>2. QED
    BY <2>1 DEF GatewayInv, CallsOK, ClosuresOK
<1>2. QED
  BY <1>1, GatewayInvariant, PTL

\* The counters count the sockets that are not authenticated, each once.
THEOREM Counters == Spec => []CountersAreExact
<1>1. GatewayInv => CountersAreExact
  <2> SUFFICES ASSUME GatewayInv, NEW ip \in Addresses
               PROVE  unauthenticated[ip] = Cardinality({w \in Unauthenticated : countedFor[w] = ip})
    BY DEF CountersAreExact
  <2>1. ip # None
    BY GatewayAssumption
  <2>2. {w \in Unauthenticated : countedFor[w] = ip} = CountedFor(ip)
    BY <2>1 DEF GatewayInv, ClosuresOK, CountedFor, Unauthenticated
  <2>3. QED
    BY <2>2 DEF GatewayInv, CountsOK
<1>2. QED
  BY <1>1, GatewayInvariant, PTL

-----------------------------------------------------------------------------
(* The limits of anonymous sockets *)

Anonymous == {w \in Sockets : countedFor[w] # None}

\* The sum that onConnection() computes of the counters is the number of sockets
\* they count, and so the limits it tests bound those.
LimitsInv ==
  /\ SumFunction(unauthenticated) = Cardinality(Anonymous)
  /\ Cardinality(Anonymous) <= MaxTotal
  /\ \A ip \in Addresses : unauthenticated[ip] <= MaxPerAddress

LEMMA CountersAreSummable ==
  ASSUME TypesOK
  PROVE  /\ DOMAIN unauthenticated = Addresses /\ IsSummable(unauthenticated)
         /\ IsFiniteSet(Anonymous) /\ Cardinality(Anonymous) \in Nat
<1>1. IsFiniteSet(Anonymous)
  BY GatewayAssumption, FS_Subset DEF Anonymous
<1> QED
  BY <1>1, GatewayAssumption, FS_CardinalityType DEF TypesOK, IsSummable

LEMMA LimitsInit == Init => LimitsInv
<1> SUFFICES ASSUME Init PROVE LimitsInv
  OBVIOUS
<1>1. IsSummable(unauthenticated) /\ \A ip \in DOMAIN unauthenticated : unauthenticated[ip] = 0
  BY GatewayAssumption DEF Init, IsSummable
<1>2. Anonymous = {}
  BY DEF Init, Anonymous
<1> QED
  BY <1>1, <1>2, SumOfZeros, FS_EmptySet, GatewayAssumption DEF LimitsInv, Init

LEMMA ConnectKeepsLimits ==
  ASSUME GatewayInv, LimitsInv, NEW w \in Sockets, NEW ip \in Addresses, Connect(w, ip)
  PROVE  LimitsInv'
<1>1. /\ unauthenticated' = [unauthenticated EXCEPT ![ip] = @ + 1]
      /\ countedFor' = [countedFor EXCEPT ![w] = ip] /\ readyState[w] = "new"
      /\ unauthenticated[ip] < MaxPerAddress /\ SumFunction(unauthenticated) < MaxTotal
  BY DEF Connect, MayConnect
<1>2. /\ DOMAIN unauthenticated = Addresses /\ IsSummable(unauthenticated) /\ unauthenticated[ip] \in Nat
      /\ IsFiniteSet(Anonymous) /\ Cardinality(Anonymous) \in Nat
      /\ MaxTotal \in Nat /\ MaxPerAddress \in Nat
  BY CountersAreSummable, GatewayAssumption DEF GatewayInv, TypesOK
<1>3. w \notin Anonymous /\ Anonymous' = Anonymous \cup {w}
  BY <1>1, GatewayAssumption DEF GatewayInv, TypesOK, ClosuresOK, Unauthenticated, Delivers, Anonymous
<1>4. Cardinality(Anonymous') = Cardinality(Anonymous) + 1
  BY <1>2, <1>3, FS_AddElement
<1>5. /\ DOMAIN unauthenticated' = Addresses /\ unauthenticated'[ip] = unauthenticated[ip] + 1
      /\ \A x \in Addresses \ {ip} : unauthenticated'[x] = unauthenticated[x]
  BY <1>1, <1>2
<1>6. SumFunction(unauthenticated') = SumFunction(unauthenticated) - unauthenticated[ip] + unauthenticated'[ip]
  BY <1>2, <1>5, SumOfChange
<1>7. SumFunction(unauthenticated') = Cardinality(Anonymous')
  BY <1>2, <1>4, <1>5, <1>6 DEF LimitsInv
<1>8. \A x \in Addresses : unauthenticated'[x] <= MaxPerAddress
  BY <1>1, <1>2, <1>5 DEF LimitsInv
<1> QED
  BY <1>1, <1>2, <1>4, <1>7, <1>8 DEF LimitsInv

LEMMA ReleaseKeepsLimits ==
  ASSUME GatewayInv, LimitsInv, NEW w \in Sockets, ReleaseUnauthenticated(w)
  PROVE  LimitsInv'
<1> DEFINE ip == countedFor[w]
<1>1. /\ countedFor' = [countedFor EXCEPT ![w] = None]
      /\ unauthenticated' = [x \in Addresses |-> IF x = ip THEN unauthenticated[x] - 1 ELSE unauthenticated[x]]
  BY DEF ReleaseUnauthenticated
<1>2. /\ DOMAIN unauthenticated = Addresses /\ IsSummable(unauthenticated)
      /\ IsFiniteSet(Anonymous) /\ Cardinality(Anonymous) \in Nat
      /\ MaxTotal \in Nat /\ MaxPerAddress \in Nat /\ \A x \in Addresses : unauthenticated[x] \in Nat
  BY CountersAreSummable, GatewayAssumption DEF GatewayInv, TypesOK
<1>3. CASE ip = None
  <2>1. unauthenticated' = unauthenticated
    BY <1>1, <1>3, GatewayAssumption DEF GatewayInv, TypesOK
  <2>2. Anonymous' = Anonymous
    BY <1>1, <1>3 DEF GatewayInv, TypesOK, Anonymous
  <2> QED
    BY <2>1, <2>2 DEF LimitsInv
<1>4. CASE ip # None
  <2>1. ip \in Addresses /\ w \in Anonymous /\ Anonymous' = Anonymous \ {w}
    BY <1>1, <1>4 DEF GatewayInv, TypesOK, Anonymous
  <2>2. Cardinality(Anonymous') = Cardinality(Anonymous) - 1
    BY <1>2, <2>1, FS_RemoveElement
  <2>3. unauthenticated[ip] # 0
    <3>1. w \in CountedFor(ip) /\ IsFiniteSet(CountedFor(ip)) /\ unauthenticated[ip] = Cardinality(CountedFor(ip))
      BY <2>1, GatewayAssumption, FS_Subset DEF CountedFor, GatewayInv, CountsOK
    <3> QED
      BY <3>1, FS_EmptySet
  <2>4. /\ DOMAIN unauthenticated' = Addresses /\ unauthenticated'[ip] = unauthenticated[ip] - 1
        /\ \A x \in Addresses \ {ip} : unauthenticated'[x] = unauthenticated[x]
    BY <1>1, <2>1
  <2>5. unauthenticated'[ip] \in Nat
    BY <1>2, <2>1, <2>3, <2>4
  <2> HIDE DEF ip
  <2>6. SumFunction(unauthenticated') = SumFunction(unauthenticated) - unauthenticated[ip] + unauthenticated'[ip]
    BY <1>2, <2>1, <2>4, <2>5, SumOfChange
  <2>7. SumFunction(unauthenticated') = Cardinality(Anonymous')
    BY <1>2, <2>1, <2>2, <2>4, <2>6 DEF LimitsInv
  <2>8. \A x \in Addresses : unauthenticated'[x] <= MaxPerAddress
    BY <1>2, <2>1, <2>4 DEF LimitsInv
  <2> QED
    BY <1>2, <2>2, <2>7, <2>8 DEF LimitsInv
<1> QED
  BY <1>3, <1>4

LEMMA LimitsNext == GatewayInv /\ LimitsInv /\ [Next]_vars => LimitsInv'
<1> SUFFICES ASSUME GatewayInv, LimitsInv, [Next]_vars PROVE LimitsInv'
  OBVIOUS
<1>1. ASSUME NEW w \in Sockets, NEW ip \in Addresses, Connect(w, ip) PROVE LimitsInv'
  BY <1>1, ConnectKeepsLimits
<1>2. ASSUME NEW w \in Sockets, ReleaseUnauthenticated(w) PROVE LimitsInv'
  BY <1>2, ReleaseKeepsLimits
<1>3. CASE Restart
  <2>1. IsSummable(unauthenticated') /\ \A ip \in DOMAIN unauthenticated' : unauthenticated'[ip] = 0
    BY <1>3, GatewayAssumption DEF Restart, IsSummable
  <2>2. Anonymous' = {}
    BY <1>3 DEF Restart, Anonymous
  <2> QED
    BY <1>3, <2>1, <2>2, SumOfZeros, FS_EmptySet, GatewayAssumption DEF LimitsInv, Restart
<1>4. CASE UNCHANGED <<unauthenticated, countedFor>>
  BY <1>4 DEF LimitsInv, Anonymous
<1>5. ASSUME NEW w \in Sockets, NEW d, NEW f, Hello(w, d, f) \/ Register(w, d, f) PROVE LimitsInv'
  BY <1>2, <1>5 DEF Hello, Register, Attach
<1>6. ASSUME NEW w \in Sockets, Close(w) PROVE LimitsInv'
  BY <1>2, <1>6 DEF Close
<1>7. ASSUME NEW w, NEW q, NEW k, NEW d,
             RpcResponse(w, q) \/ LinkDevice(w, k) \/ RevokeDevice(w, d) \/ BeginClose(w)
      PROVE  LimitsInv'
  BY <1>4, <1>7 DEF RpcResponse, LinkDevice, RevokeDevice, BeginClose, connections
<1>8. ASSUME NEW q, NEW a, NEW c, Request(q, a, c) \/ RpcTimeout(q) PROVE LimitsInv'
  BY <1>4, <1>8 DEF Request, RpcTimeout, connections
<1>9. CASE Tables \/ UNCHANGED vars
  BY <1>4, <1>9 DEF Tables, vars, connections
<1> QED
  BY <1>1, <1>3, <1>5, <1>6, <1>7, <1>8, <1>9 DEF Next

\* There are never more sockets that are not authenticated than the limits of
\* onConnection() say, of one address or of all: each is counted, once, and its
\* place is free again only when it authenticates or closes.
THEOREM Unlisted == Spec => []UnauthenticatedAreCounted
<1>1. GatewayInv => Anonymous = Unauthenticated
  BY DEF GatewayInv, ClosuresOK, Anonymous, Unauthenticated
<1>2. GatewayInv /\ LimitsInv /\ CountersAreExact => UnauthenticatedAreCounted
  BY <1>1 DEF LimitsInv, UnauthenticatedAreCounted
<1> QED
  BY <1>2, LimitsInit, LimitsNext, GatewayInvariant, Counters, PTL DEF Spec

-----------------------------------------------------------------------------
(* Places in hubs *)

\* A place in a hub is given up by a close, or to the same device.
THEOREM Places == Spec => PlacesAreKept
<1>1. GatewayInv /\ [Next]_vars => KeepsPlaces
  <2> SUFFICES ASSUME GatewayInv, [Next]_vars, NEW a \in Accounts, NEW c \in ClientIds,
                      websocketOf[a][c] # None, websocketOf'[a][c] # websocketOf[a][c]
               PROVE  \/ readyState'[websocketOf[a][c]] = "closed"
                      \/ /\ websocketOf'[a][c] # None
                         /\ deviceOf[websocketOf'[a][c]] = None
                         /\ deviceOf'[websocketOf'[a][c]] = deviceOf[websocketOf[a][c]]
    BY DEF KeepsPlaces
  <2> DEFINE w == websocketOf[a][c]
  <2>1. w \in Sockets /\ deviceOf[w] # None /\ clientOf[w] = c /\ Delivers(w) /\ c[1] = deviceOf[w]
    <3>1. w \in Sockets /\ deviceOf[w] # None /\ clientOf[w] = c
      BY DEF GatewayInv, TypesOK, PlacesOK
    <3>2. QED
      BY <3>1 DEF GatewayInv, ClosuresOK
  <2>2. ASSUME NEW v \in Unauthenticated, NEW d \in Devices, NEW f \in Files, NEW b \in Accounts, Attach(v, d, f, b)
        PROVE  websocketOf'[a][c] = v /\ v # None /\ deviceOf[v] = None /\ deviceOf'[v] = deviceOf[w]
    <3>1. v \in Sockets /\ v # None /\ deviceOf[v] = None
      BY GatewayAssumption DEF Unauthenticated
    <3>2. websocketOf' = [websocketOf EXCEPT ![b][<<d, f>>] = v]
      BY <2>2 DEF Attach, ClientId
    <3>3. b = a /\ c = <<d, f>> /\ websocketOf'[a][c] = v
      BY <3>2 DEF GatewayInv, TypesOK
    <3>4. deviceOf'[v] = d
      BY <2>2, <3>1 DEF Attach, GatewayInv, TypesOK
    <3>5. QED
      BY <2>1, <3>1, <3>3, <3>4
  <2>3. ASSUME NEW v \in Sockets, Close(v)
        PROVE  readyState'[w] = "closed"
    <3>1. v = w
      <4>1. CASE deviceOf[v] # None /\ accountOf[deviceOf[v]] \in hubs
        BY <2>3, <4>1, <2>1 DEF Close, Unregister, Unregistered, GatewayInv, TypesOK
      <4>2. CASE ~(deviceOf[v] # None /\ accountOf[deviceOf[v]] \in hubs)
        BY <2>3, <4>2 DEF Close, hub
      <4>3. QED
        BY <4>1, <4>2
    <3>2. QED
      BY <2>3, <3>1 DEF Close, GatewayInv, TypesOK
  <2>4. CASE Restart
    BY <2>1, <2>4 DEF Restart
  <2>5. ASSUME UNCHANGED websocketOf
        PROVE  FALSE
    BY <2>5
  <2>6. QED
    BY <2>2, <2>3, <2>4, <2>5, AccountsAssumption
    DEF Next, vars, hub, connections, Connect, Hello, Register, Recognized, Active, RpcResponse, LinkDevice, RevokeDevice,
        BeginClose, Request, RpcTimeout, Tables, GatewayInv, StoreOK, AccountOfLink, JoinWithLink
<1>2. QED
  BY <1>1, GatewayInvariant, PTL DEF Spec, PlacesAreKept

\* Devices are removed, and codes made, only for active devices of the account.
THEOREM Members == Spec => OnlyMembersChangeAnAccount
<1>1. GatewayInv /\ [Next]_vars => RequestedByMember
  <2> SUFFICES ASSUME GatewayInv, [Next]_vars
               PROVE  RequestedByMember
    OBVIOUS
  <2>1. ASSUME NEW w \in Sockets, NEW k \in LinkCodes, LinkDevice(w, k)
        PROVE  RequestedByMember
    <3>1. links' = [links EXCEPT ![k] = [state |-> "live", by |-> deviceOf[w]]] /\ revoked' = revoked
      BY <2>1 DEF LinkDevice, CreateLinkCode
    <3>2. \A j \in LinkCodes : links[j].state # "live" /\ links'[j].state = "live" => links'[j].by = deviceOf[w]
      BY <3>1 DEF GatewayInv, StoreOK
    <3>3. QED
      BY <2>1, <3>1, <3>2 DEF LinkDevice, Admitted, RequestedByMember
  <2>2. ASSUME NEW w \in Sockets, NEW d \in Devices, RevokeDevice(w, d)
        PROVE  RequestedByMember
    <3>1. revoked' = revoked \cup {d} /\ links' = DropLinks(d)
      BY <2>2 DEF RevokeDevice, RemoveDevice
    <3>2. \A k \in LinkCodes : links'[k].state = "live" => links[k].state = "live"
      BY <3>1 DEF DropLinks, DeletedRow
    <3>3. QED
      BY <2>2, <3>1, <3>2 DEF RevokeDevice, Removable, Admitted, RequestedByMember
  <2>3. ASSUME revoked' = revoked,
               \A k \in LinkCodes : links'[k].state = "live" => links[k].state = "live"
        PROVE  RequestedByMember
    BY <2>3 DEF RequestedByMember
  <2>4. ASSUME NEW w \in Sockets, NEW d \in Devices, NEW f \in Files, Register(w, d, f)
        PROVE  RequestedByMember
    <3>1. revoked' = revoked
      BY <2>4 DEF Register, JoinWithLink, JoinWithInvite, JoinOpenly, FoundAccount, NewDevice
    <3>2. ASSUME NEW rows \in SUBSET Prunable, NEW k \in LinkCodes, links' = PruneLinks(rows, UseLink(k))
          PROVE  RequestedByMember
      BY <2>3, <3>1, <3>2, PruneLinksLemma, UseLinkLemma DEF GatewayInv
    <3>3. ASSUME NEW rows \in SUBSET Prunable, links' = PruneLinks(rows, links)
          PROVE  RequestedByMember
      BY <2>3, <3>1, <3>3, PruneLinksLemma DEF GatewayInv, StoreOK
    <3>4. QED
      BY <2>4, <3>2, <3>3 DEF Register, JoinWithLink, JoinWithInvite, JoinOpenly, FoundAccount
  <2>5. ASSUME StoreAlone
        PROVE  RequestedByMember
    <3>1. revoked' = revoked
      BY <2>5 DEF StoreAlone, CreateInvite, ExpireInvite, ExpireLink, Prune
    <3>2. ASSUME NEW k \in LinkCodes, ExpireLink(k)
          PROVE  RequestedByMember
      <4>1. \A j \in LinkCodes : links'[j].state = "live" => links[j].state = "live"
        BY <3>2 DEF ExpireLink, GatewayInv, StoreOK, LinkRows
      <4>2. QED
        BY <2>3, <3>1, <4>1
    <3>3. CASE Prune
      BY <2>3, <3>1, <3>3, PruneLinksLemma DEF Prune, GatewayInv, StoreOK
    <3>4. CASE UNCHANGED links
      BY <2>3, <3>1, <3>4
    <3>5. QED
      BY <2>5, <3>2, <3>3, <3>4 DEF StoreAlone, CreateInvite, ExpireInvite
  <2>6. CASE UNCHANGED store
    BY <2>3, <2>6 DEF store
  <2>7. QED
    BY <2>1, <2>2, <2>4, <2>5, <2>6
    DEF Next, vars, Connect, Hello, RpcResponse, BeginClose, Close, Request, RpcTimeout, Restart, Tables
<1>2. QED
  BY <1>1, GatewayInvariant, PTL DEF Spec, OnlyMembersChangeAnAccount

-----------------------------------------------------------------------------
(* The limits of an account *)

\* A step that adds nothing to a finite set keeps its bound.
LEMMA SubsetBound ==
  ASSUME NEW S, IsFiniteSet(S), NEW T \in SUBSET S, NEW n \in Nat, Cardinality(S) <= n
  PROVE  Cardinality(T) <= n
BY FS_Subset, FS_CardinalityType

\* What a step of the tables does to the devices and live codes of an account.
LEMMA AccountSteps ==
  ASSUME AccountsAssumption, StoreOK, StoreOK', Grows, NEW a \in Accounts
  PROVE  /\ \A d \in ActiveDevices(a)' : d \in ActiveDevices(a) \/ accountOf[d] = None
         /\ \A k \in LiveLinks(a)' :
              links[k].state = "live" /\ links'[k].by = links[k].by => k \in LiveLinks(a)
BY DEF ActiveDevices, LiveLinks, AccountOfLink, Active, StoreOK, Grows, AccountsAssumption

\* Every step of the tables keeps the limits of accounts.
LEMMA AccountsStayBounded ==
  ASSUME AccountsAssumption, StoreOK, StoreStep, AccountsAreBounded
  PROVE  AccountsAreBounded'
<1>1. StoreOK' /\ Grows
  BY StoreSteps
<1> SUFFICES ASSUME NEW a \in Accounts
             PROVE  /\ Cardinality(ActiveDevices(a)') <= MaxDevices
                    /\ Cardinality(LiveLinks(a)') <= MaxLinkCodes
  BY DEF AccountsAreBounded
<1>2. /\ IsFiniteSet(ActiveDevices(a)) /\ Cardinality(ActiveDevices(a)) <= MaxDevices /\ MaxDevices \in Nat \ {0}
      /\ IsFiniteSet(LiveLinks(a)) /\ Cardinality(LiveLinks(a)) <= MaxLinkCodes /\ MaxLinkCodes \in Nat \ {0}
  BY FS_Subset DEF ActiveDevices, LiveLinks, AccountsAssumption, AccountsAreBounded
<1>3. ASSUME \A k \in LinkCodes : links'[k].state = "live" => links[k].state = "live" /\ links'[k].by = links[k].by
      PROVE  Cardinality(LiveLinks(a)') <= MaxLinkCodes
  <2>1. LiveLinks(a)' \in SUBSET LiveLinks(a)
    BY <1>1, <1>3, AccountSteps DEF LiveLinks
  <2>2. QED
    BY <1>2, <2>1, SubsetBound
<1>4. ASSUME accountOf' = accountOf
      PROVE  Cardinality(ActiveDevices(a)') <= MaxDevices
  <2>1. ActiveDevices(a)' \in SUBSET ActiveDevices(a)
    BY <1>1, <1>4 DEF ActiveDevices, Active, Grows
  <2>2. QED
    BY <1>2, <2>1, SubsetBound
<1>5. ASSUME NEW d \in Devices, NEW b \in Accounts, NEW code, NewDevice(d, b, code),
             a = b => MayJoin(a) \/ ActiveDevices(a) = {}
      PROVE  Cardinality(ActiveDevices(a)') <= MaxDevices
  <2>1. accountOf' = [accountOf EXCEPT ![d] = b] /\ accountOf[d] = None /\ revoked' = revoked
    BY <1>5 DEF NewDevice
  <2>2. CASE a = b
    <3>1. ActiveDevices(a)' \in SUBSET (ActiveDevices(a) \cup {d})
      BY <2>1 DEF ActiveDevices, Active, StoreOK
    <3>2. Cardinality(ActiveDevices(a)) < MaxDevices
      BY <1>2, <1>5, <2>2, FS_EmptySet DEF MayJoin
    <3>3. /\ IsFiniteSet(ActiveDevices(a) \cup {d})
          /\ Cardinality(ActiveDevices(a) \cup {d}) <= Cardinality(ActiveDevices(a)) + 1
          /\ Cardinality(ActiveDevices(a)) \in Nat
          /\ Cardinality(ActiveDevices(a) \cup {d}) \in Nat
      <4>1. IsFiniteSet(ActiveDevices(a) \cup {d})
        BY <1>2, FS_AddElement
      <4>2. Cardinality(ActiveDevices(a)) \in Nat /\ Cardinality(ActiveDevices(a) \cup {d}) \in Nat
        BY <1>2, <4>1, FS_CardinalityType
      <4>3. QED
        BY <1>2, <4>1, <4>2, FS_AddElement
    <3>4. Cardinality(ActiveDevices(a) \cup {d}) <= MaxDevices
      BY <1>2, <3>2, <3>3
    <3>5. QED
      BY <1>2, <3>1, <3>3, <3>4, SubsetBound
  <2>3. CASE a # b
    <3>1. ActiveDevices(a)' \in SUBSET ActiveDevices(a)
      BY <2>1, <2>3 DEF ActiveDevices, Active, StoreOK
    <3>2. QED
      BY <1>2, <3>1, SubsetBound
  <2>4. QED
    BY <2>2, <2>3
<1>6. ASSUME NEW d \in Devices, NEW k \in LinkCodes, JoinWithLink(d, k)
      PROVE  /\ Cardinality(ActiveDevices(a)') <= MaxDevices
             /\ Cardinality(LiveLinks(a)') <= MaxLinkCodes
  <2>1. \A j \in LinkCodes : links'[j].state = "live" => links[j].state = "live" /\ links'[j].by = links[j].by
    BY <1>6, PruneLinksLemma, UseLinkLemma DEF JoinWithLink
  <2>2. AccountOfLink(k) \in Accounts
    BY <1>6 DEF JoinWithLink, AccountOfLink, StoreOK, Active
  <2>3. QED
    BY <1>3, <1>5, <1>6, <2>1, <2>2 DEF JoinWithLink
<1>7. ASSUME NEW d \in Devices, NEW b \in Accounts, NEW code, FoundAccount(d, b, code)
      PROVE  /\ Cardinality(ActiveDevices(a)') <= MaxDevices
             /\ Cardinality(LiveLinks(a)') <= MaxLinkCodes
  <2>1. \A j \in LinkCodes : links'[j].state = "live" => links[j].state = "live" /\ links'[j].by = links[j].by
    BY <1>7, PruneLinksLemma DEF FoundAccount, StoreOK
  <2>2. ActiveDevices(b) = {}
    BY <1>7 DEF FoundAccount, ActiveDevices
  <2>3. QED
    BY <1>3, <1>5, <1>7, <2>1, <2>2 DEF FoundAccount
<1>8. ASSUME NEW d \in Devices, NEW k \in LinkCodes, Active(d), CreateLinkCode(d, k)
      PROVE  /\ Cardinality(ActiveDevices(a)') <= MaxDevices
             /\ Cardinality(LiveLinks(a)') <= MaxLinkCodes
  <2>1. links' = [links EXCEPT ![k] = [state |-> "live", by |-> d]] /\ accountOf' = accountOf
    BY <1>8 DEF CreateLinkCode
  <2>2. CASE a = accountOf[d]
    <3>1. LiveLinks(a)' \in SUBSET (LiveLinks(a) \cup {k})
      BY <2>1 DEF LiveLinks, AccountOfLink, StoreOK
    <3>2. Cardinality(LiveLinks(a)) < MaxLinkCodes
      BY <1>8, <2>2 DEF CreateLinkCode, MayLink
    <3>3. IsFiniteSet(LiveLinks(a) \cup {k})
      BY <1>2, FS_AddElement
    <3>4. Cardinality(LiveLinks(a)) \in Nat /\ Cardinality(LiveLinks(a) \cup {k}) \in Nat
      BY <1>2, <3>3, FS_CardinalityType
    <3>5. Cardinality(LiveLinks(a) \cup {k}) <= Cardinality(LiveLinks(a)) + 1
      <4>1. \/ Cardinality(LiveLinks(a) \cup {k}) = Cardinality(LiveLinks(a))
            \/ Cardinality(LiveLinks(a) \cup {k}) = Cardinality(LiveLinks(a)) + 1
        BY <1>2, FS_AddElement
      <4>2. QED
        BY <3>4, <4>1
    <3>6. Cardinality(LiveLinks(a) \cup {k}) <= MaxLinkCodes
      BY <1>2, <3>2, <3>4, <3>5
    <3>7. QED
      BY <1>2, <1>4, <2>1, <3>1, <3>3, <3>6, SubsetBound
  <2>3. CASE a # accountOf[d]
    <3>1. LiveLinks(a)' \in SUBSET LiveLinks(a)
      BY <2>1, <2>3 DEF LiveLinks, AccountOfLink, StoreOK
    <3>2. QED
      BY <1>2, <1>4, <2>1, <3>1, SubsetBound
  <2>4. QED
    BY <2>2, <2>3
<1>9. ASSUME NEW d \in Devices, RemoveDevice(d)
      PROVE  /\ Cardinality(ActiveDevices(a)') <= MaxDevices
             /\ Cardinality(LiveLinks(a)') <= MaxLinkCodes
  <2>1. \A k \in LinkCodes : links'[k].state = "live" => links'[k] = links[k]
    BY <1>9 DEF RemoveDevice, DropLinks, DeletedRow
  <2>2. QED
    BY <1>3, <1>4, <1>9, <2>1 DEF RemoveDevice
<1>10. ASSUME StoreAlone
       PROVE  /\ Cardinality(ActiveDevices(a)') <= MaxDevices
              /\ Cardinality(LiveLinks(a)') <= MaxLinkCodes
  <2>1. accountOf' = accountOf
    BY <1>10 DEF StoreAlone, CreateInvite, ExpireInvite, ExpireLink, Prune
  <2>2. \A k \in LinkCodes : links'[k].state = "live" => links[k].state = "live" /\ links'[k].by = links[k].by
    <3>1. ASSUME NEW k \in LinkCodes, ExpireLink(k), NEW j \in LinkCodes, links'[j].state = "live"
          PROVE  links[j].state = "live" /\ links'[j].by = links[j].by
      BY <3>1 DEF ExpireLink, StoreOK, LinkRows
    <3>2. CASE Prune
      BY <3>2, PruneLinksLemma DEF Prune, StoreOK
    <3>3. CASE UNCHANGED links
      BY <3>3
    <3>4. QED
      BY <1>10, <3>1, <3>2, <3>3 DEF StoreAlone, CreateInvite, ExpireInvite
  <2>3. QED
    BY <1>3, <1>4, <2>1, <2>2
<1>11. ASSUME UNCHANGED store
       PROVE  /\ Cardinality(ActiveDevices(a)') <= MaxDevices
              /\ Cardinality(LiveLinks(a)') <= MaxLinkCodes
  BY <1>3, <1>4, <1>11 DEF store
<1>12. QED
  BY <1>6, <1>7, <1>8, <1>9, <1>10, <1>11 DEF StoreStep, JoinStep, MemberStep, JoinWithInvite, JoinOpenly

\* Every step of the gateway is a step of the tables or leaves them alone.
LEMMA GatewayStoreStep ==
  ASSUME GatewayInv, [Next]_vars
  PROVE  StoreStep
<1>1. ASSUME NEW w \in Sockets, NEW d \in Devices, NEW f \in Files, Register(w, d, f)
      PROVE  StoreStep
  BY <1>1 DEF Register, StoreStep, JoinStep
<1>2. ASSUME NEW w \in Sockets, NEW k \in LinkCodes, LinkDevice(w, k)
      PROVE  StoreStep
  BY <1>2 DEF LinkDevice, Admitted, StoreStep, MemberStep, GatewayInv, TypesOK
<1>3. ASSUME NEW w \in Sockets, NEW d \in Devices, RevokeDevice(w, d)
      PROVE  StoreStep
  BY <1>3 DEF RevokeDevice, Removable, StoreStep, MemberStep
<1>4. QED
  BY <1>1, <1>2, <1>3
  DEF Next, vars, StoreStep, Connect, Hello, RpcResponse, BeginClose, Close, Request, RpcTimeout, Restart, Tables

\* The limits of devices and of live codes hold for every account, whichever
\* codes were out when the last place was taken.
THEOREM Limits == Spec => []AccountsAreBounded
<1>1. Init => AccountsAreBounded
  <2> SUFFICES ASSUME Init, NEW a \in Accounts
               PROVE  /\ Cardinality(ActiveDevices(a)) <= MaxDevices
                      /\ Cardinality(LiveLinks(a)) <= MaxLinkCodes
    BY DEF AccountsAreBounded
  <2>1. ActiveDevices(a) = {} /\ LiveLinks(a) = {}
    BY DEF Init, InitStore, ActiveDevices, LiveLinks, Active
  <2>2. QED
    BY <2>1, FS_EmptySet, AccountsAssumption DEF AccountsAssumption
<1>2. GatewayInv /\ AccountsAreBounded /\ [Next]_vars => AccountsAreBounded'
  BY GatewayStoreStep, AccountsStayBounded, AccountsAssumption DEF GatewayInv
<1>3. QED
  BY <1>1, <1>2, GatewayInvariant, PTL DEF Spec

-----------------------------------------------------------------------------
(* Codes are used once *)

Unused == {"undrawn", "live"}

CodesOK ==
  /\ \A d \in Devices :
       /\ joinedWith[d] \in LinkCodes => links[joinedWith[d]].state \notin Unused
       /\ joinedWith[d] \in Invites => invites[joinedWith[d]] \notin Unused
  /\ CodesAdmitOneDevice

\* A code that is not live, or was never drawn, does not become so again.
CodesStayUsed ==
  /\ \A k \in LinkCodes : links[k].state \notin Unused => links'[k].state \notin Unused
  /\ \A i \in Invites : invites[i] \notin Unused => invites'[i] \notin Unused

\* Pruning brings no code back.
LEMMA PrunedStayUsed ==
  ASSUME NEW rows, NEW table \in [LinkCodes -> LinkRows], NEW k \in LinkCodes, table[k].state \notin Unused
  PROVE  PruneLinks(rows, table)[k].state \notin Unused
BY DEF PruneLinks, DeletedRow, Unused

\* No step of the tables brings a spent code back.
LEMMA StoreStepsStayUsed ==
  ASSUME AccountsAssumption, StoreOK, StoreStep
  PROVE  CodesStayUsed
<1> USE DEF CodesStayUsed
<1>1. ASSUME NEW d \in Devices, NEW k \in LinkCodes, JoinWithLink(d, k)
      PROVE  CodesStayUsed
  <2>1. UseLink(k) \in [LinkCodes -> LinkRows]
    BY UseLinkLemma
  <2>2. \A j \in LinkCodes : links[j].state \notin Unused => UseLink(k)[j].state \notin Unused
    BY DEF UseLink, StoreOK, LinkRows, Unused
  <2>3. QED
    BY <1>1, <2>1, <2>2, PrunedStayUsed DEF JoinWithLink
<1>2. ASSUME NEW d \in Devices, NEW a \in Accounts, NEW code, FoundAccount(d, a, code),
             \A i \in Invites : invites[i] \notin Unused => invites'[i] \notin Unused
      PROVE  CodesStayUsed
  BY <1>2, PrunedStayUsed DEF FoundAccount, StoreOK
<1>3. ASSUME NEW d \in Devices, NEW a \in Accounts, NEW i \in Invites, JoinWithInvite(d, a, i)
      PROVE  CodesStayUsed
  BY <1>2, <1>3 DEF JoinWithInvite, StoreOK, Unused
<1>4. ASSUME NEW d \in Devices, NEW a \in Accounts, JoinOpenly(d, a)
      PROVE  CodesStayUsed
  BY <1>2, <1>4 DEF JoinOpenly
<1>5. ASSUME NEW d \in Devices, NEW k \in LinkCodes, CreateLinkCode(d, k)
      PROVE  CodesStayUsed
  BY <1>5 DEF CreateLinkCode, StoreOK, Unused
<1>6. ASSUME NEW d \in Devices, RemoveDevice(d)
      PROVE  CodesStayUsed
  BY <1>6 DEF RemoveDevice, DropLinks, DeletedRow, Unused
<1>7. ASSUME StoreAlone
      PROVE  CodesStayUsed
  <2>1. ASSUME NEW i \in Invites, CreateInvite(i) \/ ExpireInvite(i)
        PROVE  CodesStayUsed
    BY <2>1 DEF CreateInvite, ExpireInvite, StoreOK, Unused
  <2>2. ASSUME NEW k \in LinkCodes, ExpireLink(k)
        PROVE  CodesStayUsed
    BY <2>2 DEF ExpireLink, StoreOK, LinkRows, Unused
  <2>3. CASE Prune
    BY <2>3, PrunedStayUsed DEF Prune, StoreOK, Unused
  <2>4. QED
    BY <1>7, <2>1, <2>2, <2>3 DEF StoreAlone
<1>8. CASE UNCHANGED store
  BY <1>8 DEF store
<1>9. QED
  BY <1>1, <1>3, <1>4, <1>5, <1>6, <1>7, <1>8 DEF StoreStep, JoinStep, MemberStep

\* Every step of the tables keeps codes to one device each.
LEMMA CodesStayOK ==
  ASSUME AccountsAssumption, StoreOK, CodesOK, StoreStep
  PROVE  CodesOK'
<1>1. CodesStayUsed
  BY StoreStepsStayUsed
\* The new device's code was live until now, so no other device has it.
<1>2. ASSUME NEW d \in Devices, NEW a, NEW code \in Invites \cup LinkCodes \cup {None}, NewDevice(d, a, code),
             code \in LinkCodes => links[code].state \in Unused /\ links'[code].state \notin Unused,
             code \in Invites => invites[code] \in Unused /\ invites'[code] \notin Unused
      PROVE  CodesOK'
  <2>1. joinedWith' = [joinedWith EXCEPT ![d] = code] /\ joinedWith'[d] = code
    BY <1>2 DEF NewDevice, StoreOK
  <2>2. \A e \in Devices : e # d => joinedWith'[e] = joinedWith[e]
    BY <2>1 DEF StoreOK
  <2>3. \A e \in Devices : e # d /\ code # None => joinedWith[e] # code
    BY <1>2 DEF CodesOK
  <2>4. CodesAdmitOneDevice'
    BY <2>1, <2>2, <2>3 DEF CodesOK, CodesAdmitOneDevice
  <2>5. QED
    BY <1>1, <1>2, <2>1, <2>2, <2>4 DEF CodesOK, CodesStayUsed
<1>3. ASSUME NEW d \in Devices, NEW k \in LinkCodes, JoinWithLink(d, k)
      PROVE  CodesOK'
  <2>1. k \notin Invites /\ links[k].state \in Unused
    BY <1>3, AccountsAssumption DEF JoinWithLink, Unused
  <2>2. links'[k].state \notin Unused
    <3>1. UseLink(k) \in [LinkCodes -> LinkRows]
      BY UseLinkLemma
    <3>2. UseLink(k)[k].state \notin Unused
      BY DEF UseLink, StoreOK, LinkRows, Unused
    <3>3. QED
      BY <1>3, <3>1, <3>2, PrunedStayUsed DEF JoinWithLink
  <2>3. QED
    BY <1>2, <1>3, <2>1, <2>2 DEF JoinWithLink
<1>4. ASSUME NEW d \in Devices, NEW a \in Accounts, NEW i \in Invites, JoinWithInvite(d, a, i)
      PROVE  CodesOK'
  <2>1. i \notin LinkCodes /\ invites[i] \in Unused /\ invites'[i] \notin Unused
    BY <1>4, AccountsAssumption DEF JoinWithInvite, StoreOK, Unused
  <2>2. QED
    BY <1>2, <1>4, <2>1 DEF JoinWithInvite, FoundAccount
<1>5. ASSUME NEW d \in Devices, NEW a \in Accounts, JoinOpenly(d, a)
      PROVE  CodesOK'
  BY <1>2, <1>5, AccountsAssumption DEF JoinOpenly, FoundAccount
<1>6. ASSUME joinedWith' = joinedWith
      PROVE  CodesOK'
  BY <1>1, <1>6 DEF CodesOK, CodesStayUsed, CodesAdmitOneDevice
<1>7. QED
  BY <1>3, <1>4, <1>5, <1>6
  DEF StoreStep, JoinStep, MemberStep, CreateLinkCode, RemoveDevice, StoreAlone, CreateInvite, ExpireInvite,
      ExpireLink, Prune, store

\* A link code or an invite admits one device, whatever was pruned since.
THEOREM CodesAreUsedOnce == Spec => []CodesAdmitOneDevice
<1>1. Init => CodesOK
  BY AccountsAssumption DEF Init, InitStore, CodesOK, CodesAdmitOneDevice
<1>2. GatewayInv /\ CodesOK /\ [Next]_vars => CodesOK'
  BY GatewayStoreStep, CodesStayOK, AccountsAssumption DEF GatewayInv
<1>3. CodesOK => CodesAdmitOneDevice
  BY DEF CodesOK
<1>4. QED
  BY <1>1, <1>2, <1>3, GatewayInvariant, PTL DEF Spec

\* Both: whoever joins with which code, limits hold and codes are spent once.
THEOREM Joining == Spec => []JoiningIsBounded
BY Limits, CodesAreUsedOnce, PTL DEF JoiningIsBounded
=============================================================================
