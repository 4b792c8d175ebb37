--------------------------- MODULE FigmaHubProofs ---------------------------
(***************************************************************************)
(* Theorems about FigmaHub for any number of files, connections and calls. *)
(***************************************************************************)
EXTENDS FigmaHub, FiniteSetTheorems, SequenceTheorems, TLAPS

-----------------------------------------------------------------------------
(* The insertion order of the clients map *)

Keys(keys) == {keys[i] : i \in DOMAIN keys}

Distinct(keys) == \A i, j \in DOMAIN keys : keys[i] = keys[j] => i = j

\* Deleting a key of a list without repetitions takes out that key and nothing
\* else (the delete of hub.mjs:50).
LEMMA DeleteKeyLemma ==
  ASSUME NEW S, NEW keys \in Seq(S), NEW c \in Keys(keys), Distinct(keys)
  PROVE  /\ DeleteKey(keys, c) \in Seq(S)
         /\ Keys(DeleteKey(keys, c)) = Keys(keys) \ {c}
         /\ Distinct(DeleteKey(keys, c))
<1> DEFINE k == CHOOSE i \in DOMAIN keys : keys[i] = c
           rest == DeleteKey(keys, c)
<1>1. k \in DOMAIN keys /\ keys[k] = c
  BY DEF Keys
<1>2. k \in 1..Len(keys) /\ Len(keys) \in Nat
  BY <1>1
<1>3. rest = SubSeq(keys, 1, k - 1) \o SubSeq(keys, k + 1, Len(keys))
  BY DEF DeleteKey, RemoveAt
<1> HIDE DEF k
<1>4. /\ rest \in Seq(S)
      /\ Len(rest) = Len(keys) - 1
      /\ \A i \in 1..Len(rest) : rest[i] = IF i < k THEN keys[i] ELSE keys[i + 1]
  <2> DEFINE front == SubSeq(keys, 1, k - 1)
             back == SubSeq(keys, k + 1, Len(keys))
  <2>1. /\ front \in Seq(S) /\ Len(front) = k - 1
        /\ \A i \in 1..(k - 1) : front[i] = keys[i]
    BY <1>2
  <2>2. /\ back \in Seq(S) /\ Len(back) = Len(keys) - k
        /\ \A i \in 1..(Len(keys) - k) : back[i] = keys[i + k]
    BY <1>2
  <2> HIDE DEF front, back, rest
  <2>3. rest = front \o back
    BY <1>3 DEF front, back, rest
  <2>4. /\ rest \in Seq(S)
        /\ Len(rest) = Len(front) + Len(back)
        /\ \A i \in 1..(Len(front) + Len(back)) :
             rest[i] = IF i <= Len(front) THEN front[i] ELSE back[i - Len(front)]
    BY <2>1, <2>2, <2>3, ConcatProperties
  <2>5. QED
    BY <1>2, <2>1, <2>2, <2>4
<1>5. \A i \in DOMAIN rest : rest[i] \in Keys(keys) \ {c}
  <2> HIDE DEF rest
  <2> TAKE i \in DOMAIN rest
  <2>1. i \in 1..Len(rest) /\ i \in DOMAIN keys /\ i + 1 \in DOMAIN keys
    BY <1>4
  <2>2. CASE i < k
    BY <2>1, <2>2, <1>1, <1>2, <1>4 DEF Distinct, Keys
  <2>3. CASE i >= k
    BY <2>1, <2>3, <1>1, <1>2, <1>4 DEF Distinct, Keys
  <2>4. QED
    BY <2>1, <2>2, <2>3, <1>2
<1>6. ASSUME NEW d \in Keys(keys), d # c
      PROVE  d \in Keys(rest)
  <2> HIDE DEF rest
  <2>1. PICK j \in DOMAIN keys : keys[j] = d
    BY DEF Keys
  <2>2. CASE j < k
    <3>1. j \in DOMAIN rest /\ rest[j] = d
      BY <2>1, <2>2, <1>2, <1>4
    <3>2. QED
      BY <3>1 DEF Keys
  <2>3. CASE j > k
    <3>1. j - 1 \in DOMAIN rest /\ rest[j - 1] = d
      BY <2>1, <2>3, <1>2, <1>4
    <3>2. QED
      BY <3>1 DEF Keys
  <2>4. QED
    BY <2>1, <2>2, <2>3, <1>1, <1>2, <1>6
<1>7. Distinct(rest)
  <2> HIDE DEF rest
  <2>1. \A i \in DOMAIN rest : i \in 1..Len(rest) /\ i \in DOMAIN keys /\ i + 1 \in DOMAIN keys
    BY <1>4
  <2>2. QED
    BY <2>1, <1>2, <1>4 DEF Distinct
<1>8. Keys(rest) = Keys(keys) \ {c}
  <2> HIDE DEF rest
  <2> QED
    BY <1>5, <1>6 DEF Keys
<1>9. QED
  BY <1>4, <1>7, <1>8
-----------------------------------------------------------------------------
(* The inductive invariant *)

\* The map's keys, in order and without repetition, are the registered clients.
KeysInv == Distinct(clients) /\ Keys(clients) = Registered

\* What a client's entry points to is a connection that registered as this
\* client and did not close yet.
SocketInv ==
  \A c \in Registered :
    authenticated[websocketOf[c]] = c /\ readyState[websocketOf[c]] # "closed"

\* The same of every call in the pending map.
EntryInv ==
  \A r \in pending :
    /\ entry[r].websocket \in Sockets
    /\ entry[r].clientId \in Clients
    /\ authenticated[entry[r].websocket] = entry[r].clientId
    /\ readyState[entry[r].websocket] # "closed"

\* An entry exists only once the call was sent.
UnsentInv ==
  \A r \in Requests : promise[r] \in {"idle", "waiting", "woken"} => entry[r] = NoEntry

\* An answered call is settled, by the connection it was sent on.
AnswerInv ==
  \A r \in Requests :
    answeredOn[r] # NoSocket =>
      answeredOn[r] = entry[r].websocket /\ promise[r] \in {"resolved", "rejected"}

HubInv ==
  /\ TypeOK
  /\ KeysInv
  /\ ActiveIsRegistered
  /\ SocketInv
  /\ PendingIffUnsettled
  /\ EntryInv
  /\ UnsentInv
  /\ AnswerInv
  /\ NobodyWaitsInVain
  /\ PendingBounded

\* Pending maps are finite, and one that only lost calls stays within the limit.
LEMMA PendingFinite == ASSUME TypeOK PROVE IsFiniteSet(pending) /\ Cardinality(pending) \in Nat
BY FS_Subset, FS_CardinalityType, HubAssumption DEF TypeOK

\* Pending calls that only become fewer keep their limit.
LEMMA PendingShrinks ==
  ASSUME HubInv, pending' \in SUBSET pending
  PROVE  PendingBounded'
<1>1. IsFiniteSet(pending) /\ Cardinality(pending) \in Nat
  BY PendingFinite DEF HubInv
<1>2. Cardinality(pending') <= Cardinality(pending) /\ Cardinality(pending') \in Nat
  BY <1>1, FS_Subset, FS_CardinalityType
<1>3. QED
  BY <1>1, <1>2, HubAssumption DEF HubInv, PendingBounded

\* The invariant holds at the start.
LEMMA InitHub == Init => HubInv
<1> SUFFICES ASSUME Init PROVE HubInv
  OBVIOUS
<1>1. AnyPage \in Pages
  BY HubAssumption DEF AnyPage
<1>2. TypeOK
  BY <1>1 DEF Init, TypeOK, Entries, NoEntry, Promises
<1>3. KeysInv /\ ActiveIsRegistered /\ SocketInv
  BY DEF Init, KeysInv, ActiveIsRegistered, SocketInv, Keys, Distinct, Registered
<1>4. PendingIffUnsettled /\ EntryInv /\ UnsentInv /\ AnswerInv /\ NobodyWaitsInVain
  BY DEF Init, PendingIffUnsettled, EntryInv, UnsentInv, AnswerInv, NobodyWaitsInVain
<1>5. PendingBounded
  BY FS_EmptySet, HubAssumption DEF Init, PendingBounded
<1>6. QED
  BY <1>2, <1>3, <1>4, <1>5 DEF HubInv

-----------------------------------------------------------------------------
(* Every action preserves it *)

\* A registration keeps the invariant.
LEMMA RegisterStep ==
  ASSUME HubInv, NEW s \in Sockets, NEW c \in Clients, Register(s, c)
  PROVE  HubInv'
<1> USE HubAssumption
<1>1. websocketOf' = [websocketOf EXCEPT ![c] = s] /\ s # NoSocket /\ c # NoClient
  BY DEF Register
<1>2. TypeOK'
  BY DEF HubInv, TypeOK, Register, SetKey, Woken, Promises
<1>3. Registered' = Registered \cup {c}
  BY <1>1 DEF HubInv, TypeOK, Registered
<1>4. KeysInv'
  <2>1. CASE websocketOf[c] = NoSocket
    <3>1. clients' = Append(clients, c) /\ clients \in Seq(Clients)
      BY <2>1 DEF Register, SetKey, HubInv, TypeOK
    <3>2. /\ DOMAIN clients = 1..Len(clients) /\ Len(clients) \in Nat
          /\ DOMAIN clients' = 1..(Len(clients) + 1)
          /\ \A i \in DOMAIN clients : clients'[i] = clients[i]
          /\ clients'[Len(clients) + 1] = c
      BY <3>1
    <3>3. c \notin Keys(clients)
      BY <2>1 DEF HubInv, KeysInv, Registered
    <3>4. Distinct(clients)'
      BY <3>2, <3>3 DEF HubInv, KeysInv, Distinct, Keys
    <3>5. Keys(clients') = Keys(clients) \cup {c}
      BY <3>2 DEF Keys
    <3>6. QED
      BY <3>4, <3>5, <1>3 DEF HubInv, KeysInv
  <2>2. CASE websocketOf[c] # NoSocket
    BY <2>2, <1>3 DEF HubInv, KeysInv, Register, SetKey, Registered
  <2>3. QED
    BY <2>1, <2>2
<1>5. ActiveIsRegistered'
  BY <1>1, <1>3 DEF Register, ActiveIsRegistered
<1>6. SocketInv'
  BY <1>1, <1>3 DEF HubInv, TypeOK, SocketInv, Register, Registered
<1>7. PendingIffUnsettled'
  BY DEF HubInv, TypeOK, PendingIffUnsettled, Register, Woken
<1>8. EntryInv'
  BY DEF HubInv, TypeOK, EntryInv, Register, PendingIffUnsettled, Entries
<1>9. UnsentInv' /\ AnswerInv'
  BY DEF HubInv, TypeOK, UnsentInv, AnswerInv, Register, Woken
<1>10. NobodyWaitsInVain'
  BY DEF HubInv, TypeOK, NobodyWaitsInVain, Register, Woken
<1>11. PendingBounded'
  BY DEF HubInv, PendingBounded, Register
<1>12. QED
  BY <1>2, <1>4, <1>5, <1>6, <1>7, <1>8, <1>9, <1>10, <1>11 DEF HubInv

\* An update of what a client reports keeps it.
LEMMA ClientUpdateStep ==
  ASSUME HubInv, NEW s \in Sockets, NEW page \in Pages, ClientUpdate(s, page)
  PROVE  HubInv'
<1>1. UNCHANGED <<clients, websocketOf, activeClientId, readyState, authenticated, joined, rpcVars>>
  BY DEF ClientUpdate
<1>2. TypeOK'
  BY <1>1 DEF HubInv, TypeOK, ClientUpdate, rpcVars
<1>3. QED
  BY <1>1, <1>2 DEF HubInv, KeysInv, ActiveIsRegistered, SocketInv, Registered,
     PendingIffUnsettled, EntryInv, UnsentInv, AnswerInv, NobodyWaitsInVain,
     PendingBounded, rpcVars

\* A step that leaves the registry alone disturbs none of its conjuncts.
LEMMA RegistryKept ==
  ASSUME HubInv, UNCHANGED <<hubVars, authenticated>>,
         \A c \in Registered : readyState[websocketOf[c]] # "closed"
                            => readyState'[websocketOf[c]] # "closed"
  PROVE  (KeysInv /\ ActiveIsRegistered /\ SocketInv)'
BY DEF HubInv, KeysInv, ActiveIsRegistered, SocketInv, Registered, hubVars

\* An answer settles the call that it names and no other.
LEMMA RpcResponseStep ==
  ASSUME HubInv, NEW s \in Sockets, NEW r \in Requests, NEW ok \in BOOLEAN,
         RpcResponse(s, r, ok), Matches(s, r)
  PROVE  HubInv'
<1>1. /\ pending' = pending \ {r}
      /\ promise' = [promise EXCEPT ![r] = IF ok THEN "resolved" ELSE "rejected"]
      /\ answeredOn' = [answeredOn EXCEPT ![r] = s]
      /\ UNCHANGED <<hubVars, socketVars, entry>>
  BY DEF RpcResponse
<1>2. TypeOK'
  BY <1>1 DEF HubInv, TypeOK, hubVars, socketVars, Promises
<1>3. (KeysInv /\ ActiveIsRegistered /\ SocketInv)'
  BY <1>1, RegistryKept DEF socketVars
<1>4. PendingIffUnsettled' /\ EntryInv'
  BY <1>1 DEF HubInv, TypeOK, PendingIffUnsettled, EntryInv, socketVars
<1>5. UnsentInv' /\ AnswerInv'
  BY <1>1 DEF HubInv, TypeOK, UnsentInv, AnswerInv, Matches
<1>6. NobodyWaitsInVain'
  BY <1>1 DEF HubInv, TypeOK, NobodyWaitsInVain, hubVars
<1>7. PendingBounded'
  BY <1>1, PendingShrinks
<1>8. QED
  BY <1>2, <1>3, <1>4, <1>5, <1>6, <1>7 DEF HubInv

\* A close that begins loses nothing yet.
LEMMA ClosingStep ==
  ASSUME HubInv, (\E s \in Sockets : BeginClose(s)) \/ CloseAll
  PROVE  HubInv'
<1>1. /\ UNCHANGED <<hubVars, authenticated, reported, joined, rpcVars>>
      /\ readyState' \in [Sockets -> {"open", "closing", "closed"}]
      /\ \A s \in Sockets : readyState[s] # "closed" => readyState'[s] # "closed"
  <2>1. CASE \E s \in Sockets : BeginClose(s)
    BY <2>1 DEF BeginClose, HubInv, TypeOK
  <2>2. CASE CloseAll
    <3>1. UNCHANGED <<hubVars, authenticated, reported, joined, rpcVars>>
      BY <2>2 DEF CloseAll
    <3>2. PICK open \in SUBSET Sockets :
            readyState' = [s \in Sockets |-> IF s \in open THEN "closing" ELSE readyState[s]]
      BY <2>2 DEF CloseAll
    <3>3. QED
      BY <3>1, <3>2 DEF HubInv, TypeOK
  <2>3. QED
    BY <2>1, <2>2
<1>2. TypeOK'
  BY <1>1 DEF HubInv, TypeOK, hubVars, rpcVars
<1>3. (KeysInv /\ ActiveIsRegistered /\ SocketInv)'
  BY <1>1, RegistryKept DEF HubInv, TypeOK, Registered
<1>4. (PendingIffUnsettled /\ EntryInv /\ UnsentInv /\ AnswerInv)'
  BY <1>1 DEF HubInv, PendingIffUnsettled, EntryInv, UnsentInv, AnswerInv, rpcVars
<1>5. (NobodyWaitsInVain /\ PendingBounded)'
  BY <1>1 DEF HubInv, NobodyWaitsInVain, PendingBounded, hubVars, rpcVars
<1>6. QED
  BY <1>2, <1>3, <1>4, <1>5 DEF HubInv

\* The close event of a connection that never authenticated.
LEMMA CloseUnknownStep ==
  ASSUME HubInv, NEW s \in Sockets, Close(s), authenticated[s] = NoClient
  PROVE  HubInv'
<1>1. /\ readyState' = [readyState EXCEPT ![s] = "closed"]
      /\ UNCHANGED <<hubVars, pending, promise, authenticated, reported, joined, entry, answeredOn>>
  BY DEF Close
<1>2. TypeOK'
  BY <1>1 DEF HubInv, TypeOK, hubVars
<1>3. (KeysInv /\ ActiveIsRegistered /\ SocketInv)'
  BY <1>1, RegistryKept, HubAssumption DEF HubInv, TypeOK, Registered, SocketInv
<1>4. EntryInv'
  BY <1>1, HubAssumption DEF HubInv, TypeOK, EntryInv
<1>5. (PendingIffUnsettled /\ UnsentInv /\ AnswerInv /\ NobodyWaitsInVain /\ PendingBounded)'
  BY <1>1 DEF HubInv, PendingIffUnsettled, UnsentInv, AnswerInv, NobodyWaitsInVain,
     PendingBounded, hubVars
<1>6. QED
  BY <1>2, <1>3, <1>4, <1>5 DEF HubInv
\* The close event of an authenticated connection.
LEMMA UnregisterStep ==
  ASSUME HubInv, NEW s \in Sockets, Close(s), authenticated[s] # NoClient
  PROVE  HubInv'
<1> DEFINE c == authenticated[s]
           current == websocketOf[c] = s
<1>1. /\ readyState' = [readyState EXCEPT ![s] = "closed"]
      /\ UNCHANGED <<authenticated, reported, joined, entry, answeredOn>>
      /\ clients' = IF current THEN DeleteKey(clients, c) ELSE clients
      /\ websocketOf' = IF current THEN [websocketOf EXCEPT ![c] = NoSocket] ELSE websocketOf
      /\ infoOf' = IF current THEN [infoOf EXCEPT ![c] = AnyPage] ELSE infoOf
      /\ activeClientId' = IF activeClientId = c /\ websocketOf'[c] = NoSocket
                           THEN IF clients' = <<>> THEN NoClient ELSE Last(clients')
                           ELSE activeClientId
      /\ pending' = pending \ HeldBy(s)
      /\ promise' = [r \in Requests |-> IF r \in HeldBy(s) THEN "rejected" ELSE promise[r]]
  BY DEF Close, Unregister
<1>2. c \in Clients /\ AnyPage \in Pages /\ s # NoSocket
  BY HubAssumption DEF HubInv, TypeOK, AnyPage
<1> HIDE DEF c
<1>3. current => c \in Keys(clients)
  BY <1>2 DEF HubInv, KeysInv, Registered
<1>4. /\ clients' \in Seq(Clients)
      /\ Distinct(clients')
      /\ Keys(clients') = IF current THEN Keys(clients) \ {c} ELSE Keys(clients)
  BY <1>1, <1>3, DeleteKeyLemma DEF HubInv, TypeOK, KeysInv
<1>5. Registered' = IF current THEN Registered \ {c} ELSE Registered
  BY <1>1, <1>2 DEF HubInv, TypeOK, Registered
<1>6. KeysInv'
  BY <1>4, <1>5 DEF HubInv, KeysInv
<1>7. clients' # <<>> => Last(clients') \in Keys(clients')
  BY <1>4 DEF Last, Keys
<1>8. clients' = <<>> <=> Registered' = {}
  BY <1>4, <1>6 DEF KeysInv, Keys
<1>9. /\ activeClientId' \in Registered' \cup {NoClient}
      /\ activeClientId' = NoClient => Registered' = {}
  <2>1. CASE activeClientId = c /\ websocketOf'[c] = NoSocket
    BY <2>1, <1>1, <1>6, <1>7, <1>8, HubAssumption DEF KeysInv, Registered
  <2>2. CASE activeClientId = c /\ websocketOf'[c] # NoSocket
    BY <2>2, <1>1, <1>2, HubAssumption DEF Registered
  <2>3. CASE activeClientId # c
    BY <2>3, <1>1, <1>5 DEF HubInv, TypeOK, ActiveIsRegistered
  <2>4. QED
    BY <2>1, <2>2, <2>3
<1>10. ActiveIsRegistered'
  BY <1>9 DEF ActiveIsRegistered
<1>11. TypeOK'
  BY <1>1, <1>2, <1>4, <1>9 DEF HubInv, TypeOK, Registered, Promises
<1>12. SocketInv'
  BY <1>1, <1>2, <1>5, HubAssumption DEF HubInv, TypeOK, SocketInv, Registered, c
<1>13. PendingIffUnsettled' /\ EntryInv'
  BY <1>1 DEF HubInv, TypeOK, PendingIffUnsettled, EntryInv, HeldBy
<1>14. UnsentInv' /\ AnswerInv'
  BY <1>1 DEF HubInv, TypeOK, UnsentInv, AnswerInv, HeldBy
<1>15. NobodyWaitsInVain'
  <2>1. ASSUME NEW r \in Requests, promise'[r] = "waiting"
        PROVE  clients' = <<>>
    <3>1. clients = <<>>
      BY <2>1, <1>1 DEF HubInv, NobodyWaitsInVain
    <3>2. ~current
      BY <3>1, <1>3 DEF Keys
    <3>3. QED
      BY <3>1, <3>2, <1>1
  <2>2. QED
    BY <2>1 DEF NobodyWaitsInVain
<1>16. PendingBounded'
  BY <1>1, PendingShrinks
<1>17. QED
  BY <1>6, <1>10, <1>11, <1>12, <1>13, <1>14, <1>15, <1>16 DEF HubInv

\* The synchronous part of request(): the call is refused, or it takes a place
\* in the pending map and goes to a connection that is open.
LEMMA DispatchStep ==
  ASSUME HubInv, NEW r \in Requests, NEW clientId \in Clients \cup {NoClient},
         promise[r] \in {"idle", "woken"}, Dispatch(r, clientId)
  PROVE  HubInv'
<1> DEFINE target == Target(clientId)
<1>1. PICK congested \in BOOLEAN :
        IF Refused(clientId, congested)
        THEN promise' = [promise EXCEPT ![r] = "rejected"] /\ UNCHANGED <<pending, entry>>
        ELSE /\ pending' = pending \cup {r}
             /\ entry' = [entry EXCEPT ![r] = [clientId |-> target, websocket |-> websocketOf[target]]]
             /\ promise' = [promise EXCEPT ![r] = "sent"]
  BY DEF Dispatch
<1>2. UNCHANGED <<hubVars, socketVars, answeredOn>>
  BY DEF Dispatch
<1>3. (KeysInv /\ ActiveIsRegistered /\ SocketInv)'
  BY <1>2, RegistryKept DEF socketVars
<1>4. r \notin pending /\ answeredOn[r] = NoSocket
  BY DEF HubInv, TypeOK, PendingIffUnsettled, AnswerInv
<1>5. NobodyWaitsInVain'
  BY <1>1, <1>2 DEF HubInv, TypeOK, NobodyWaitsInVain, hubVars
<1>6. CASE Refused(clientId, congested)
  <2>1. TypeOK'
    BY <1>1, <1>2, <1>6 DEF HubInv, TypeOK, hubVars, socketVars, Promises
  <2>2. PendingIffUnsettled' /\ EntryInv'
    BY <1>1, <1>2, <1>4, <1>6 DEF HubInv, TypeOK, PendingIffUnsettled, EntryInv, socketVars
  <2>3. UnsentInv' /\ AnswerInv'
    BY <1>1, <1>2, <1>4, <1>6 DEF HubInv, TypeOK, UnsentInv, AnswerInv
  <2>4. PendingBounded'
    BY <1>1, <1>6, PendingShrinks
  <2>5. QED
    BY <1>3, <1>5, <2>1, <2>2, <2>3, <2>4 DEF HubInv
<1>7. CASE ~Refused(clientId, congested)
  <2>1. /\ target \in Registered
        /\ readyState[websocketOf[target]] = "open"
        /\ Cardinality(pending) < MaxPending
    BY <1>7, PendingFinite, HubAssumption DEF Refused, Target, Registered, HubInv, TypeOK
  <2>2. /\ websocketOf[target] \in Sockets
        /\ authenticated[websocketOf[target]] = target
        /\ target \in Clients
    BY <2>1 DEF HubInv, TypeOK, SocketInv, Registered
  <2> HIDE DEF target
  <2>3. TypeOK'
    <3>1. [clientId |-> target, websocket |-> websocketOf[target]] \in Entries
      BY <2>2 DEF Entries
    <3>2. entry' \in [Requests -> Entries]
      BY <1>1, <1>7, <3>1 DEF HubInv, TypeOK
    <3>3. promise' \in [Requests -> Promises] /\ pending' \in SUBSET Requests
      BY <1>1, <1>7 DEF HubInv, TypeOK, Promises
    <3>4. QED
      BY <1>2, <3>2, <3>3 DEF HubInv, TypeOK, hubVars, socketVars
  <2>4. PendingIffUnsettled'
    BY <1>1, <1>7 DEF HubInv, TypeOK, PendingIffUnsettled
  <2>5. EntryInv'
    BY <1>1, <1>2, <1>7, <2>1, <2>2 DEF HubInv, TypeOK, EntryInv, socketVars
  <2>6. UnsentInv' /\ AnswerInv'
    BY <1>1, <1>2, <1>4, <1>7 DEF HubInv, TypeOK, UnsentInv, AnswerInv
  <2>7. PendingBounded'
    <3>1. IsFiniteSet(pending) /\ Cardinality(pending) \in Nat
      BY PendingFinite DEF HubInv
    <3>2. Cardinality(pending') = Cardinality(pending) + 1
      BY <1>1, <1>4, <1>7, <3>1, FS_AddElement
    <3>3. QED
      BY <2>1, <3>1, <3>2, HubAssumption DEF PendingBounded
  <2>8. QED
    BY <1>3, <1>5, <2>3, <2>4, <2>5, <2>6, <2>7 DEF HubInv
<1>8. QED
  BY <1>6, <1>7
\* The timer of a waiting call only wakes it.
LEMMA WaitTimeoutStep ==
  ASSUME HubInv, NEW r \in Requests, WaitTimeout(r)
  PROVE  HubInv'
<1>1. /\ promise' = [promise EXCEPT ![r] = "woken"]
      /\ promise[r] = "waiting"
      /\ UNCHANGED <<hubVars, socketVars, pending, entry, answeredOn>>
  BY DEF WaitTimeout
<1>2. TypeOK'
  BY <1>1 DEF HubInv, TypeOK, hubVars, socketVars, Promises
<1>3. (KeysInv /\ ActiveIsRegistered /\ SocketInv)'
  BY <1>1, RegistryKept DEF socketVars
<1>4. (PendingIffUnsettled /\ EntryInv /\ UnsentInv /\ AnswerInv)'
  BY <1>1 DEF HubInv, TypeOK, PendingIffUnsettled, EntryInv, UnsentInv, AnswerInv, socketVars
<1>5. (NobodyWaitsInVain /\ PendingBounded)'
  BY <1>1 DEF HubInv, TypeOK, NobodyWaitsInVain, PendingBounded, hubVars
<1>6. QED
  BY <1>2, <1>3, <1>4, <1>5 DEF HubInv

\* A request waits, is refused or is sent.
LEMMA RequestStep ==
  ASSUME HubInv, NEW r \in Requests, NEW clientId \in Clients \cup {NoClient},
         NEW wait \in BOOLEAN, Request(r, clientId, wait)
  PROVE  HubInv'
<1>1. CASE clientId = NoClient /\ clients = <<>> /\ wait
  <2>1. /\ promise' = [promise EXCEPT ![r] = "waiting"]
        /\ promise[r] = "idle"
        /\ UNCHANGED <<hubVars, socketVars, pending, entry, answeredOn>>
    BY <1>1 DEF Request
  <2>2. TypeOK'
    BY <2>1 DEF HubInv, TypeOK, hubVars, socketVars, Promises
  <2>3. (KeysInv /\ ActiveIsRegistered /\ SocketInv)'
    BY <2>1, RegistryKept DEF socketVars
  <2>4. (PendingIffUnsettled /\ EntryInv /\ UnsentInv /\ AnswerInv)'
    BY <2>1 DEF HubInv, TypeOK, PendingIffUnsettled, EntryInv, UnsentInv, AnswerInv, socketVars
  <2>5. (NobodyWaitsInVain /\ PendingBounded)'
    BY <1>1, <2>1 DEF HubInv, TypeOK, NobodyWaitsInVain, PendingBounded, hubVars
  <2>6. QED
    BY <2>2, <2>3, <2>4, <2>5 DEF HubInv
<1>2. CASE ~(clientId = NoClient /\ clients = <<>> /\ wait)
  BY <1>2, DispatchStep DEF Request
<1>3. QED
  BY <1>1, <1>2

\* A call that times out leaves the pending map.
LEMMA RpcTimeoutStep ==
  ASSUME HubInv, NEW r \in Requests, RpcTimeout(r)
  PROVE  HubInv'
<1>1. /\ pending' = pending \ {r}
      /\ promise' = [promise EXCEPT ![r] = "rejected"]
      /\ r \in pending
      /\ UNCHANGED <<hubVars, socketVars, entry, answeredOn>>
  BY DEF RpcTimeout
<1>2. TypeOK'
  BY <1>1 DEF HubInv, TypeOK, hubVars, socketVars, Promises
<1>3. (KeysInv /\ ActiveIsRegistered /\ SocketInv)'
  BY <1>1, RegistryKept DEF socketVars
<1>4. (PendingIffUnsettled /\ EntryInv /\ UnsentInv /\ AnswerInv)'
  BY <1>1 DEF HubInv, TypeOK, PendingIffUnsettled, EntryInv, UnsentInv, AnswerInv, socketVars
<1>5. NobodyWaitsInVain'
  BY <1>1 DEF HubInv, TypeOK, NobodyWaitsInVain, hubVars
<1>6. PendingBounded'
  BY <1>1, PendingShrinks
<1>7. QED
  BY <1>2, <1>3, <1>4, <1>5, <1>6 DEF HubInv

\* Every part of the invariant is about the variables alone.
LEMMA StutterStep == ASSUME HubInv, UNCHANGED vars PROVE HubInv'
BY DEF HubInv, TypeOK, KeysInv, ActiveIsRegistered, SocketInv, PendingIffUnsettled,
   EntryInv, UnsentInv, AnswerInv, NobodyWaitsInVain, PendingBounded, Registered,
   vars, hubVars, socketVars, rpcVars

\* Every step keeps the invariant.
LEMMA NextHub == HubInv /\ [Next]_vars => HubInv'
<1> SUFFICES ASSUME HubInv, [Next]_vars PROVE HubInv'
  OBVIOUS
<1>1. ASSUME NEW s \in Sockets, NEW c \in Clients, Register(s, c) PROVE HubInv'
  BY <1>1, RegisterStep
<1>2. ASSUME NEW s \in Sockets, NEW page \in Pages, ClientUpdate(s, page) PROVE HubInv'
  BY <1>2, ClientUpdateStep
<1>3. ASSUME NEW s \in Sockets, NEW r \in Requests, NEW ok \in BOOLEAN, RpcResponse(s, r, ok)
      PROVE  HubInv'
  <2>1. CASE Matches(s, r)
    BY <1>3, <2>1, RpcResponseStep
  <2>2. CASE ~Matches(s, r)
    BY <1>3, <2>2, StutterStep DEF RpcResponse
  <2>3. QED
    BY <2>1, <2>2
<1>4. ASSUME (\E s \in Sockets : BeginClose(s)) \/ CloseAll PROVE HubInv'
  BY <1>4, ClosingStep
<1>5. ASSUME NEW s \in Sockets, Close(s) PROVE HubInv'
  <2>1. CASE authenticated[s] = NoClient
    BY <1>5, <2>1, CloseUnknownStep
  <2>2. CASE authenticated[s] # NoClient
    BY <1>5, <2>2, UnregisterStep
  <2>3. QED
    BY <2>1, <2>2
<1>6. ASSUME NEW r \in Requests, NEW clientId \in Clients \cup {NoClient}, NEW wait \in BOOLEAN,
             Request(r, clientId, wait)
      PROVE  HubInv'
  BY <1>6, RequestStep
<1>7. ASSUME NEW r \in Requests, Resume(r) PROVE HubInv'
  BY <1>7, DispatchStep DEF Resume
<1>8. ASSUME NEW r \in Requests, WaitTimeout(r) PROVE HubInv'
  BY <1>8, WaitTimeoutStep
<1>9. ASSUME NEW r \in Requests, RpcTimeout(r) PROVE HubInv'
  BY <1>9, RpcTimeoutStep
<1>10. CASE UNCHANGED vars
  BY <1>10, StutterStep
<1>11. QED
  BY <1>1, <1>2, <1>3, <1>4, <1>5, <1>6, <1>7, <1>8, <1>9, <1>10 DEF Next, Quiescent

\* The inductive invariant of the hub.
THEOREM HubInvariant == Spec => []HubInv
BY InitHub, NextHub, PTL DEF Spec

-----------------------------------------------------------------------------
(* What the invariant is for *)

\* The state of the hub is well typed, for any number of files and calls.
THEOREM TypeCorrect == Spec => []TypeOK
<1>1. HubInv => TypeOK
  BY DEF HubInv
<1>2. QED
  BY <1>1, HubInvariant, PTL

\* A command without a clientId has a registered target exactly while there is
\* one (hub.mjs:51).
THEOREM ActiveClient == Spec => []ActiveIsRegistered
<1>1. HubInv => ActiveIsRegistered
  BY DEF HubInv
<1>2. QED
  BY <1>1, HubInvariant, PTL

\* The pending map holds exactly the calls whose callers wait, none of them on
\* a closed connection, and never more than maxPending (hub.mjs:52, :68).
THEOREM PendingMap == Spec => [](PendingIffUnsettled /\ NothingPendingOnClosed /\ PendingBounded)
<1>1. HubInv => PendingIffUnsettled /\ NothingPendingOnClosed /\ PendingBounded
  BY DEF HubInv, EntryInv, NothingPendingOnClosed
<1>2. QED
  BY <1>1, HubInvariant, PTL

\* No caller waits for a client while one is registered (hub.mjs:25, :61).
THEOREM Waiters == Spec => []NobodyWaitsInVain
<1>1. HubInv => NobodyWaitsInVain
  BY DEF HubInv
<1>2. QED
  BY <1>1, HubInvariant, PTL

\* An answer comes from the connection the command went out on (hub.mjs:38).
THEOREM Answers == Spec => []AnswersComeFromTheirSocket
<1>1. HubInv => AnswersComeFromTheirSocket
  BY DEF HubInv, AnswerInv, AnswersComeFromTheirSocket
<1>2. QED
  BY <1>1, HubInvariant, PTL
-----------------------------------------------------------------------------
(* The newest connection of a client serves it *)

Mine(c) == {i \in DOMAIN joined : authenticated[joined[i]] = c}

\* The history of registrations: who is in it authenticated, and the registrations
\* of a client have a last one.
JoinedInv ==
  /\ \A i \in DOMAIN joined : authenticated[joined[i]] # NoClient
  /\ \A c \in Clients : Mine(c) = {} \/ \E x \in Mine(c) : \A y \in Mine(c) : x >= y

NewestInv == JoinedInv /\ NewestConnectionServes

\* The maximum of a set of numbers that has one.
LEMMA MaxLemma ==
  ASSUME NEW S \in SUBSET Nat, NEW x \in S, \A y \in S : x >= y
  PROVE  Max(S) = x
<1>1. \A z \in S : (\A y \in S : z >= y) => z = x
  OBVIOUS
<1>2. Max(S) \in S /\ \A y \in S : Max(S) >= y
  BY Zenon DEF Max
<1>3. QED
  BY <1>1, <1>2

\* The newest connection of a client is one of its own.
LEMMA NewestLemma ==
  ASSUME TypeOK, JoinedInv, NEW c \in Clients
  PROVE  /\ NewestOf(c) = NoSocket <=> Mine(c) = {}
         /\ NewestOf(c) # NoSocket => NewestOf(c) \in Sockets /\ authenticated[NewestOf(c)] = c
<1>1. Mine(c) \in SUBSET Nat /\ \A i \in Mine(c) : joined[i] \in Sockets /\ joined[i] # NoSocket
  BY HubAssumption DEF Mine, TypeOK
<1>2. NewestOf(c) = IF Mine(c) = {} THEN NoSocket ELSE joined[Max(Mine(c))]
  BY DEF NewestOf, Mine
<1>3. CASE Mine(c) = {}
  BY <1>2, <1>3
<1>4. CASE Mine(c) # {}
  <2>1. PICK x \in Mine(c) : \A y \in Mine(c) : x >= y
    BY <1>4 DEF JoinedInv
  <2>2. Max(Mine(c)) = x
    BY <1>1, <2>1, MaxLemma
  <2>3. authenticated[joined[x]] = c
    BY DEF Mine
  <2>4. QED
    BY <1>1, <1>2, <1>4, <2>1, <2>2, <2>3
<1>5. QED
  BY <1>3, <1>4

\* A connection that registers is the newest of its client, and of no other.
LEMMA RegisterNewest ==
  ASSUME HubInv, NewestInv, NEW s \in Sockets, NEW c \in Clients, Register(s, c)
  PROVE  NewestInv'
<1> DEFINE n == Len(joined) + 1
<1>1. /\ joined \in Seq(Sockets) /\ joined' = Append(joined, s) /\ n \in Nat
      /\ DOMAIN joined = 1 .. Len(joined) /\ DOMAIN joined' = 1 .. n
      /\ joined'[n] = s /\ \A i \in DOMAIN joined : joined'[i] = joined[i]
  BY DEF Register, HubInv, TypeOK
<1>2. authenticated[s] = NoClient /\ authenticated'[s] = c /\ c # NoClient
      /\ \A t \in Sockets : t # s => authenticated'[t] = authenticated[t]
  BY HubAssumption DEF Register, HubInv, TypeOK
<1>3. \A i \in DOMAIN joined : joined[i] \in Sockets /\ joined[i] # s
  BY <1>1, <1>2 DEF NewestInv, JoinedInv
<1>4. Mine(c)' = Mine(c) \cup {n}
  BY <1>1, <1>2, <1>3 DEF Mine
<1>5. \A b \in Clients : b # c => Mine(b)' = Mine(b)
  BY <1>1, <1>2, <1>3 DEF Mine
<1>6. \A y \in Mine(c)' : n >= y
  BY <1>1, <1>4 DEF Mine
<1>7. JoinedInv'
  <2>1. \A i \in DOMAIN joined' : authenticated'[joined'[i]] # NoClient
    BY <1>1, <1>2, <1>3 DEF NewestInv, JoinedInv
  <2>2. ASSUME NEW b \in Clients, b # c
        PROVE  Mine(b)' = {} \/ \E x \in Mine(b)' : \A y \in Mine(b)' : x >= y
    BY <1>5, <2>2 DEF NewestInv, JoinedInv
  <2>3. \E x \in Mine(c)' : \A y \in Mine(c)' : x >= y
    BY <1>4, <1>6
  <2>4. QED
    BY <2>1, <2>2, <2>3 DEF JoinedInv
<1>8. NewestOf(c)' = s
  <2>1. Mine(c)' \in SUBSET Nat
    BY <1>1, <1>4 DEF Mine
  <2> DEFINE S == Mine(c)'
  <2>2. S \in SUBSET Nat /\ n \in S /\ \A y \in S : n >= y
    BY <1>4, <1>6, <2>1
  <2> HIDE DEF S
  <2>3. Max(S) = n
    BY <2>2, MaxLemma
  <2>4. NewestOf(c)' = IF S = {} THEN NoSocket ELSE joined'[Max(S)]
    BY DEF NewestOf, Mine, S
  <2>5. QED
    BY <1>1, <2>2, <2>3, <2>4
<1>9. ASSUME NEW b \in Clients, b # c
      PROVE  NewestOf(b)' = NewestOf(b)
  <2>1. Mine(b) \in SUBSET DOMAIN joined /\ Mine(b)' = Mine(b)
    BY <1>5, <1>9 DEF Mine
  <2>2. NewestOf(b) = IF Mine(b) = {} THEN NoSocket ELSE joined[Max(Mine(b))]
    BY DEF NewestOf, Mine
  <2>3. NewestOf(b)' = IF Mine(b) = {} THEN NoSocket ELSE joined'[Max(Mine(b))]
    BY <2>1 DEF NewestOf, Mine
  <2>4. Mine(b) # {} => Max(Mine(b)) \in Mine(b)
    <3>1. Mine(b) \in SUBSET Nat
      BY <1>1, <2>1
    <3>2. QED
      BY <3>1, MaxLemma DEF NewestInv, JoinedInv
  <2>5. QED
    BY <1>1, <2>1, <2>2, <2>3, <2>4
<1>10. /\ websocketOf' = [websocketOf EXCEPT ![c] = s] /\ readyState' = readyState /\ readyState[s] # "closed"
       /\ infoOf' = [infoOf EXCEPT ![c] = reported[s]] /\ reported' = reported /\ s # NoSocket
  BY HubAssumption DEF Register
<1>11. NewestConnectionServes'
  BY <1>8, <1>9, <1>10 DEF NewestInv, NewestConnectionServes, HubInv, TypeOK, Registered
<1>12. QED
  BY <1>7, <1>11 DEF NewestInv

\* A step that adds no registration keeps the newest connections.
LEMMA NewestKept ==
  ASSUME UNCHANGED <<joined, authenticated>>
  PROVE  (JoinedInv => JoinedInv') /\ \A c \in Clients : NewestOf(c)' = NewestOf(c)
BY DEF JoinedInv, Mine, NewestOf

\* What is reported late, on a connection that was replaced, is not shown.
LEMMA ClientUpdateNewest ==
  ASSUME HubInv, NewestInv, NEW s \in Sockets, NEW page \in Pages, ClientUpdate(s, page)
  PROVE  NewestInv'
<1>1. UNCHANGED <<websocketOf, readyState, authenticated, joined>>
  BY DEF ClientUpdate
<1>2. ASSUME NEW c \in Registered
      PROVE  infoOf'[c] = reported'[websocketOf[c]]
  <2>1. /\ c \in Clients /\ websocketOf[c] \in Sockets /\ authenticated[websocketOf[c]] = c
        /\ infoOf[c] = reported[websocketOf[c]]
    BY DEF HubInv, TypeOK, SocketInv, Registered, NewestInv, NewestConnectionServes
  <2>2. QED
    BY <2>1 DEF ClientUpdate, HubInv, TypeOK
<1>3. QED
  BY <1>1, <1>2, NewestKept DEF NewestInv, NewestConnectionServes, Registered

\* A late close takes out the client only when it is that of its newest connection.
LEMMA CloseNewest ==
  ASSUME HubInv, NewestInv, NEW s \in Sockets, Close(s)
  PROVE  NewestInv'
<1>1. UNCHANGED <<authenticated, joined, reported>> /\ readyState' = [readyState EXCEPT ![s] = "closed"]
  BY DEF Close
<1>2. ASSUME NEW c \in Clients
      PROVE  /\ websocketOf'[c] = IF websocketOf[c] = s THEN NoSocket ELSE websocketOf[c]
             /\ websocketOf[c] # s => infoOf'[c] = infoOf[c]
  <2>1. websocketOf[c] = s => authenticated[s] = c
    BY HubAssumption DEF HubInv, SocketInv, Registered
  <2>2. CASE authenticated[s] = NoClient
    BY <2>1, <2>2, HubAssumption DEF Close, hubVars
  <2>3. CASE authenticated[s] # NoClient
    BY <2>1, <2>3 DEF Close, Unregister, HubInv, TypeOK
  <2>4. QED
    BY <2>2, <2>3
<1>3. ASSUME NEW c \in Clients
      PROVE  /\ websocketOf'[c] = IF NewestOf(c) = NoSocket \/ readyState'[NewestOf(c)] = "closed"
                                  THEN NoSocket ELSE NewestOf(c)
             /\ websocketOf'[c] # NoSocket => infoOf'[c] = reported[websocketOf'[c]]
  <2>1. NewestOf(c) # NoSocket => NewestOf(c) \in Sockets
    BY NewestLemma DEF NewestInv, HubInv
  <2>2. /\ websocketOf[c] = IF NewestOf(c) = NoSocket \/ readyState[NewestOf(c)] = "closed"
                            THEN NoSocket ELSE NewestOf(c)
        /\ websocketOf[c] # NoSocket => infoOf[c] = reported[websocketOf[c]]
    BY DEF NewestInv, NewestConnectionServes, Registered
  <2>3. \A t \in Sockets : readyState'[t] = IF t = s THEN "closed" ELSE readyState[t]
    BY <1>1 DEF HubInv, TypeOK
  <2>4. QED
    BY <1>2, <2>1, <2>2, <2>3, HubAssumption
<1>4. QED
  BY <1>1, <1>3, NewestKept DEF NewestInv, NewestConnectionServes, Registered

\* A step that closes and registers nothing keeps who serves.
LEMMA ServingKept ==
  ASSUME HubInv, NewestInv, UNCHANGED <<hubVars, authenticated, joined, reported>>,
         \A s \in Sockets : readyState'[s] = "closed" <=> readyState[s] = "closed"
  PROVE  NewestInv'
<1>1. \A c \in Clients : NewestOf(c) # NoSocket => NewestOf(c) \in Sockets
  BY NewestLemma DEF NewestInv, HubInv
<1>2. QED
  BY <1>1, NewestKept DEF NewestInv, NewestConnectionServes, Registered, hubVars

\* The newest connection of a client serves it, and what it reported is shown,
\* until that very connection closes (hub.mjs:33, :50).
THEOREM Newest == Spec => []NewestConnectionServes
<1>1. Init => NewestInv
  BY DEF Init, NewestInv, JoinedInv, NewestConnectionServes, NewestOf, Mine, Registered
<1>2. HubInv /\ NewestInv /\ [Next]_vars => NewestInv'
  <2> SUFFICES ASSUME HubInv, NewestInv, [Next]_vars
               PROVE  NewestInv'
    OBVIOUS
  <2>1. ASSUME NEW s \in Sockets, BeginClose(s)
        PROVE  NewestInv'
    BY <2>1, ServingKept DEF BeginClose, HubInv, TypeOK
  <2>2. CASE CloseAll
    BY <2>2, ServingKept DEF CloseAll, HubInv, TypeOK
  <2>3. CASE UNCHANGED <<hubVars, socketVars>>
    BY <2>3, ServingKept DEF socketVars
  <2>4. QED
    BY <2>1, <2>2, <2>3, RegisterNewest, ClientUpdateNewest, CloseNewest
    DEF Next, vars, RpcResponse, Request, Resume, Dispatch, WaitTimeout, RpcTimeout, Quiescent
<1>3. NewestInv => NewestConnectionServes
  BY DEF NewestInv
<1>4. QED
  BY <1>1, <1>2, <1>3, HubInvariant, PTL DEF Spec

-----------------------------------------------------------------------------
(* The hub keeps the contract of request() *)

\* The mapped state starts as the contract does.
LEMMA InitContract == Init => Contract!Init
<1> SUFFICES ASSUME Init PROVE Contract!Init
  OBVIOUS
<1>1. \A r \in Requests : Seen(r) = "idle"
  BY DEF Init, Seen
<1>2. AsCall = [r \in Requests |-> "idle"]
  BY <1>1 DEF AsCall
<1>3. AsPlugin = [r \in Requests |-> NoSocket] /\ AsGone = {}
  BY DEF Init, AsPlugin, AsGone, NoEntry
<1>4. QED
  BY <1>2, <1>3 DEF Contract!Init

\* What the caller sees, spelled out: one line per state of the promise.
LEMMA SeenCases ==
  ASSUME TypeOK, NEW r \in Requests
  PROVE  /\ promise[r] = "idle" => Seen(r) = "idle"
         /\ promise[r] \in {"waiting", "woken"} => Seen(r) = "open"
         /\ promise[r] = "sent" <=> Seen(r) = "sent"
         /\ promise[r] = "resolved" => Seen(r) = "answered"
         /\ promise[r] = "rejected" =>
              Seen(r) = IF answeredOn[r] = NoSocket THEN "failed" ELSE "answered"
<1>1. promise[r] \in Promises
  BY DEF TypeOK
<1>2. QED
  BY <1>1 DEF Seen, Promises

\* The calls in the hands of plugins are the keys of the pending map.
LEMMA OutstandingIsPending == HubInv => Contract!Outstanding = pending
<1> SUFFICES ASSUME HubInv PROVE Contract!Outstanding = pending
  OBVIOUS
<1>1. \A r \in Requests : AsCall[r] = "sent" <=> promise[r] = "sent"
  BY SeenCases DEF HubInv, AsCall
<1>2. QED
  BY <1>1 DEF HubInv, PendingIffUnsettled, Contract!Outstanding

\* RpcContract counts with its own instance of FiniteSets.
LEMMA SameCardinality == \A S : Contract!Cardinality(S) = Cardinality(S)
BY DEF Cardinality, Contract!Cardinality, IsFiniteSet, Contract!IsFiniteSet

\* A step that changes no promise, no entry and closes nothing is no step.
LEMMA ContractStutter ==
  ASSUME UNCHANGED <<promise, answeredOn, entry, AsGone>>
  PROVE  UNCHANGED Contract!vars
<1>1. AsCall' = AsCall
  BY DEF AsCall, Seen
<1>2. AsPlugin' = AsPlugin
  BY DEF AsPlugin
<1>3. QED
  BY <1>1, <1>2 DEF Contract!vars

\* A step that changes what one caller sees, and closes nothing.
LEMMA OneCall ==
  ASSUME NEW r \in Requests, NEW seen,
         Seen(r)' = seen,
         \A q \in Requests \ {r} : Seen(q)' = Seen(q)
  PROVE  AsCall' = [AsCall EXCEPT ![r] = seen]
BY DEF AsCall

\* A command that is sent or refused is a step of the contract.
LEMMA DispatchContract ==
  ASSUME HubInv, HubInv', NEW r \in Requests, NEW clientId \in Clients \cup {NoClient},
         promise[r] \in {"idle", "woken"}, Dispatch(r, clientId)
  PROVE  Contract!Next
<1> DEFINE target == Target(clientId)
<1>1. PICK congested \in BOOLEAN :
        IF Refused(clientId, congested)
        THEN promise' = [promise EXCEPT ![r] = "rejected"] /\ UNCHANGED <<pending, entry>>
        ELSE /\ pending' = pending \cup {r}
             /\ entry' = [entry EXCEPT ![r] = [clientId |-> target, websocket |-> websocketOf[target]]]
             /\ promise' = [promise EXCEPT ![r] = "sent"]
  BY DEF Dispatch
<1>2. answeredOn' = answeredOn /\ AsGone' = AsGone
  BY DEF Dispatch, socketVars, AsGone
<1>3. AsCall[r] \in {"idle", "open"} /\ answeredOn[r] = NoSocket
  BY SeenCases DEF HubInv, AsCall, AnswerInv
<1>4. \A q \in Requests \ {r} : Seen(q)' = Seen(q)
  BY <1>1, <1>2 DEF Seen, HubInv, TypeOK
<1>5. CASE Refused(clientId, congested)
  <2>1. Seen(r)' = "failed"
    BY <1>1, <1>2, <1>3, <1>5 DEF Seen, HubInv, TypeOK
  <2>2. AsCall' = [AsCall EXCEPT ![r] = "failed"]
    BY <1>4, <2>1, OneCall
  <2>3. AsPlugin' = AsPlugin
    BY <1>1, <1>5 DEF AsPlugin
  <2>4. QED
    BY <1>2, <1>3, <2>2, <2>3 DEF Contract!Next, Contract!Fail
<1>6. CASE ~Refused(clientId, congested)
  <2> DEFINE s == websocketOf[target]
  <2>1. /\ s \in Sockets
        /\ readyState[s] = "open"
        /\ Cardinality(pending) < MaxPending
    BY <1>6, PendingFinite, HubAssumption DEF Refused, Target, HubInv, TypeOK
  <2> HIDE DEF s, target
  <2>2. Seen(r)' = "sent"
    BY <1>1, <1>6 DEF Seen, HubInv, TypeOK
  <2>3. AsCall' = [AsCall EXCEPT ![r] = "sent"]
    BY <1>4, <2>2, OneCall
  <2>4. AsPlugin' = [AsPlugin EXCEPT ![r] = s]
    <3>1. entry' = [entry EXCEPT ![r] = [clientId |-> target, websocket |-> s]]
      BY <1>1, <1>6 DEF s
    <3>2. entry'[r].websocket = s /\ \A q \in Requests \ {r} : entry'[q] = entry[q]
      BY <3>1 DEF HubInv, TypeOK
    <3>3. QED
      BY <3>2 DEF AsPlugin
  <2>5. s \notin AsGone
    BY <2>1 DEF AsGone
  <2>6. Contract!HandOver(r, s)
    <3>1. Contract!Cardinality(Contract!Outstanding) < MaxPending
      BY <2>1, OutstandingIsPending, SameCardinality
    <3>2. QED
      BY <1>2, <1>3, <2>3, <2>4, <2>5, <3>1 DEF Contract!HandOver
  <2>7. QED
    BY <2>1, <2>6 DEF Contract!Next
<1>7. QED
  BY <1>5, <1>6

\* The calls that a close rejects are those that the contract loses.
LEMMA CloseContract ==
  ASSUME HubInv, HubInv', NEW s \in Sockets, Close(s)
  PROVE  Contract!Lose(s)
<1>1. AsGone' = AsGone \cup {s}
  BY DEF Close, AsGone, HubInv, TypeOK
<1>2. AsPlugin' = AsPlugin
  BY DEF Close, AsPlugin
<1>3. /\ answeredOn' = answeredOn
      /\ promise' = [r \in Requests |-> IF r \in HeldBy(s) THEN "rejected" ELSE promise[r]]
  <2>1. CASE authenticated[s] = NoClient
    <3>1. HeldBy(s) = {}
      BY <2>1, HubAssumption DEF HubInv, EntryInv, HeldBy
    <3>2. QED
      BY <2>1, <3>1 DEF Close, HubInv, TypeOK
  <2>2. CASE authenticated[s] # NoClient
    BY <2>2 DEF Close, Unregister
  <2>3. QED
    BY <2>1, <2>2
<1>4. ASSUME NEW r \in Requests
      PROVE  Seen(r)' = IF AsCall[r] = "sent" /\ AsPlugin[r] = s THEN "failed" ELSE AsCall[r]
  <2>1. AsCall[r] = Seen(r) /\ AsPlugin[r] = entry[r].websocket
    BY DEF AsCall, AsPlugin
  <2>2. r \in HeldBy(s) <=> Seen(r) = "sent" /\ entry[r].websocket = s
    BY SeenCases DEF HubInv, PendingIffUnsettled, HeldBy
  <2>3. CASE r \in HeldBy(s)
    <3>1. answeredOn[r] = NoSocket
      BY <2>3 DEF HubInv, AnswerInv, PendingIffUnsettled, HeldBy, TypeOK
    <3>2. Seen(r)' = "failed"
      BY <2>3, <3>1, <1>3 DEF Seen
    <3>3. QED
      BY <2>1, <2>2, <2>3, <3>2
  <2>4. CASE r \notin HeldBy(s)
    <3>1. Seen(r)' = Seen(r)
      BY <2>4, <1>3 DEF Seen
    <3>2. QED
      BY <2>1, <2>2, <2>4, <3>1
  <2>5. QED
    BY <2>3, <2>4
<1>5. AsCall' = [r \in Requests |->
                   IF AsCall[r] = "sent" /\ AsPlugin[r] = s THEN "failed" ELSE AsCall[r]]
  BY <1>4 DEF AsCall
<1>6. QED
  BY <1>1, <1>2, <1>5 DEF Contract!Lose

\* The call settles on its own: by an answer, or by its timer.
LEMMA SettleContract ==
  ASSUME HubInv, HubInv', NEW r \in pending,
         \/ \E s \in Sockets, ok \in BOOLEAN : RpcResponse(s, r, ok) /\ Matches(s, r)
         \/ RpcTimeout(r)
  PROVE  Contract!Next
<1>1. /\ r \in Requests /\ AsCall[r] = "sent" /\ promise[r] = "sent"
      /\ answeredOn[r] = NoSocket
      /\ AsPlugin[r] \notin AsGone
  BY SeenCases DEF HubInv, TypeOK, AsCall, PendingIffUnsettled, AnswerInv, EntryInv, AsPlugin, AsGone
<1>2. CASE \E s \in Sockets, ok \in BOOLEAN : RpcResponse(s, r, ok) /\ Matches(s, r)
  <2>1. PICK s \in Sockets, ok \in BOOLEAN : RpcResponse(s, r, ok) /\ Matches(s, r)
    BY <1>2
  <2>2. /\ promise' = [promise EXCEPT ![r] = IF ok THEN "resolved" ELSE "rejected"]
        /\ answeredOn' = [answeredOn EXCEPT ![r] = s]
        /\ AsGone' = AsGone /\ AsPlugin' = AsPlugin
    BY <2>1 DEF RpcResponse, socketVars, AsGone, AsPlugin
  <2>3. Seen(r)' = "answered"
    BY <1>1, <2>2, HubAssumption DEF Seen, HubInv, TypeOK
  <2>4. \A q \in Requests \ {r} : Seen(q)' = Seen(q)
    BY <2>2 DEF Seen, HubInv, TypeOK
  <2>5. AsCall' = [AsCall EXCEPT ![r] = "answered"]
    BY <1>1, <2>3, <2>4, OneCall
  <2>6. QED
    BY <1>1, <2>2, <2>5 DEF Contract!Next, Contract!Answer
<1>3. CASE RpcTimeout(r)
  <2>1. /\ promise' = [promise EXCEPT ![r] = "rejected"]
        /\ answeredOn' = answeredOn
        /\ AsGone' = AsGone /\ AsPlugin' = AsPlugin
    BY <1>3 DEF RpcTimeout, socketVars, AsGone, AsPlugin
  <2>2. Seen(r)' = "failed"
    BY <1>1, <2>1 DEF Seen, HubInv, TypeOK
  <2>3. \A q \in Requests \ {r} : Seen(q)' = Seen(q)
    BY <2>1 DEF Seen, HubInv, TypeOK
  <2>4. AsCall' = [AsCall EXCEPT ![r] = "failed"]
    BY <1>1, <2>2, <2>3, OneCall
  <2>5. QED
    BY <1>1, <2>1, <2>4 DEF Contract!Next, Contract!Fail
<1>4. QED
  BY <1>2, <1>3

\* A call that starts to wait is open to the caller.
LEMMA WaitContract ==
  ASSUME HubInv, NEW r \in Requests, promise[r] = "idle",
         promise' = [promise EXCEPT ![r] = "waiting"],
         UNCHANGED <<hubVars, socketVars, pending, entry, answeredOn>>
  PROVE  Contract!Next
<1>1. AsCall[r] = "idle"
  BY SeenCases DEF HubInv, AsCall
<1>2. Seen(r)' = "open" /\ \A q \in Requests \ {r} : Seen(q)' = Seen(q)
  BY DEF Seen, HubInv, TypeOK
<1>3. AsCall' = [AsCall EXCEPT ![r] = "open"]
  BY <1>2, OneCall
<1>4. AsGone' = AsGone /\ AsPlugin' = AsPlugin
  BY DEF socketVars, AsGone, AsPlugin
<1>5. QED
  BY <1>1, <1>3, <1>4 DEF Contract!Next, Contract!Open

\* Waking callers, by a client or by the timer, is invisible to them.
LEMMA WakeContract ==
  ASSUME UNCHANGED <<answeredOn, entry, AsGone>>,
         \A r \in Requests : \/ promise'[r] = promise[r]
                             \/ promise[r] = "waiting" /\ promise'[r] = "woken"
  PROVE  UNCHANGED Contract!vars
<1>1. \A r \in Requests : Seen(r)' = Seen(r)
  BY DEF Seen
<1>2. AsCall' = AsCall /\ AsPlugin' = AsPlugin
  BY <1>1 DEF AsCall, AsPlugin
<1>3. QED
  BY <1>2 DEF Contract!vars

\* Every step maps to a step of the contract or a stutter.
LEMMA NextContract == HubInv /\ HubInv' /\ [Next]_vars => [Contract!Next]_(Contract!vars)
<1> SUFFICES ASSUME HubInv, HubInv', [Next]_vars
             PROVE  Contract!Next \/ UNCHANGED Contract!vars
  OBVIOUS
<1>1. ASSUME NEW s \in Sockets, NEW c \in Clients, Register(s, c)
      PROVE  UNCHANGED Contract!vars
  BY <1>1, WakeContract DEF Register, Woken, AsGone
<1>2. ASSUME NEW s \in Sockets, NEW page \in Pages, ClientUpdate(s, page)
      PROVE  UNCHANGED Contract!vars
  BY <1>2, ContractStutter DEF ClientUpdate, rpcVars, AsGone
<1>3. ASSUME NEW s \in Sockets, NEW r \in Requests, NEW ok \in BOOLEAN, RpcResponse(s, r, ok)
      PROVE  Contract!Next \/ UNCHANGED Contract!vars
  <2>1. CASE Matches(s, r)
    BY <1>3, <2>1, SettleContract DEF Matches
  <2>2. CASE ~Matches(s, r)
    BY <1>3, <2>2, ContractStutter DEF RpcResponse, vars, rpcVars, socketVars, AsGone
  <2>3. QED
    BY <2>1, <2>2
<1>4. ASSUME (\E s \in Sockets : BeginClose(s)) \/ CloseAll
      PROVE  UNCHANGED Contract!vars
  <2>1. UNCHANGED rpcVars
    BY <1>4 DEF BeginClose, CloseAll
  <2>2. AsGone' = AsGone
    BY <1>4 DEF BeginClose, CloseAll, AsGone, HubInv, TypeOK
  <2>3. QED
    BY <2>1, <2>2, ContractStutter DEF rpcVars
<1>5. ASSUME NEW s \in Sockets, Close(s) PROVE Contract!Next
  BY <1>5, CloseContract DEF Contract!Next
<1>6. ASSUME NEW r \in Requests, NEW clientId \in Clients \cup {NoClient}, NEW wait \in BOOLEAN,
             Request(r, clientId, wait)
      PROVE  Contract!Next
  BY <1>6, WaitContract, DispatchContract DEF Request
<1>7. ASSUME NEW r \in Requests, Resume(r) PROVE Contract!Next
  BY <1>7, DispatchContract DEF Resume
<1>8. ASSUME NEW r \in Requests, WaitTimeout(r) PROVE UNCHANGED Contract!vars
  BY <1>8, WakeContract DEF WaitTimeout, socketVars, AsGone, HubInv, TypeOK
<1>9. ASSUME NEW r \in Requests, RpcTimeout(r) PROVE Contract!Next
  BY <1>9, SettleContract DEF RpcTimeout
<1>10. CASE UNCHANGED vars
  BY <1>10, ContractStutter DEF vars, rpcVars, socketVars, AsGone
<1>11. QED
  BY <1>1, <1>2, <1>3, <1>4, <1>5, <1>6, <1>7, <1>8, <1>9, <1>10 DEF Next, Quiescent

\* The hub implements the contract of request() for every number of files,
\* connections and calls: a call is handed to one connection at most, only that
\* connection answers it, its loss fails the call at once, and what the caller
\* got never changes.
THEOREM HubImplementsContract == Spec => ImplementsContract
<1>1. Init => Contract!Init
  BY InitContract
<1>2. HubInv /\ HubInv' /\ [Next]_vars => [Contract!Next]_(Contract!vars)
  BY NextContract
<1>3. QED
  BY <1>1, <1>2, HubInvariant, PTL DEF Spec, ImplementsContract, Contract!Spec
=============================================================================
