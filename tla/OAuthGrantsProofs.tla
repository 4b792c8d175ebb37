--------------------------- MODULE OAuthGrantsProofs ---------------------------
(***************************************************************************)
(* Theorems about OAuthGrants, for any number of apps, requests, devices   *)
(* and accounts and for any lifetimes.                                     *)
(***************************************************************************)
EXTENDS OAuthGrants, TLAPS

LEMMA Constants ==
  /\ {RequestTTL, CodeTTL, AccessTTL, RefreshTTL, MaxTime, MaxPairs} \subseteq Nat \ {0}
  /\ {MaxLifetime, ReuseGrace, PruneSlack, UsedRetention, RevokedRetention, ClientRetention} \subseteq Nat
  /\ CodeTTL <= PruneSlack
  /\ NoDevice \notin Devices
BY OAuthAssumption

\* What pruning leaves are rows of the tables, and whole: the grant of every
\* token and the client of every request.
LEMMA Pruned ==
  ASSUME TypeOK
  PROVE  /\ KeptRequests \subseteq DOMAIN requests
         /\ KeptGrants \subseteq DOMAIN grants
         /\ KeptClients \subseteq DOMAIN clients
         /\ KeptTokens \subseteq tokens
         /\ \A t \in KeptTokens : t.grant \in KeptGrants
         /\ \A r \in KeptRequests : requests[r].client \in KeptClients
BY DEF TypeOK, KeptRequests, KeptGrants, KeptClients, KeptTokens, UnexpiredTokens

\* Whatever was decided was decided by a device.
ApprovedByDevice ==
  \A r \in DOMAIN requests : requests[r].status # "pending" => requests[r].decidedBy \in Devices

LEMMA InitTypes == Init => TypeOK
BY Constants DEF Init, TypeOK, Times

LEMMA ClientTypes ==
  ASSUME TypeOK, NEW c \in Clients, CreateClient(c)
  PROVE  TypeOK'
<1>1. CASE UNCHANGED tables
  BY <1>1 DEF CreateClient, TypeOK, tables
<1>2. CASE /\ clients' = Put(Restrict(clients, KeptClients), c, now)
           /\ requests' = Restrict(requests, KeptRequests)
           /\ grants' = Restrict(grants, KeptGrants)
           /\ tokens' = KeptTokens
  <2>1. now \in Times
    BY Constants DEF TypeOK, Times
  <2>2. /\ Restrict(clients, KeptClients) \in [KeptClients -> Times]
        /\ Restrict(requests, KeptRequests) \in [KeptRequests -> RequestRows]
        /\ Restrict(grants, KeptGrants) \in [KeptGrants -> GrantRows]
    BY Pruned DEF TypeOK, Restrict
  <2>3. clients' \in [DOMAIN clients' -> Times] /\ DOMAIN clients' = KeptClients \cup {c}
    BY <1>2, <2>1, <2>2 DEF Put
  <2>4. /\ requests' \in [DOMAIN requests' -> RequestRows] /\ DOMAIN requests' = KeptRequests
        /\ grants' \in [DOMAIN grants' -> GrantRows] /\ DOMAIN grants' = KeptGrants
        /\ \A r \in KeptRequests : requests'[r] = requests[r]
    BY <1>2, <2>2 DEF Restrict
  <2> QED
    BY <1>2, <2>3, <2>4, Pruned DEF TypeOK, CreateClient
<1> QED
  BY <1>1, <1>2 DEF CreateClient

LEMMA RequestTypes ==
  ASSUME TypeOK, NEW r \in Requests, NEW c \in Clients, CreateRequest(r, c)
  PROVE  TypeOK'
<1>1. CASE UNCHANGED tables
  BY <1>1 DEF CreateRequest, TypeOK, tables
<1>2. CASE /\ c \in KeptClients
           /\ requests' = Put(Restrict(requests, KeptRequests), r, NewRequest(c))
           /\ clients' = Restrict(clients, KeptClients)
           /\ grants' = Restrict(grants, KeptGrants)
           /\ tokens' = KeptTokens
  <2>1. NewRequest(c) \in RequestRows /\ NewRequest(c).client = c
    BY Constants DEF TypeOK, Times, RequestRows, NewRequest
  <2>2. /\ Restrict(clients, KeptClients) \in [KeptClients -> Times]
        /\ Restrict(requests, KeptRequests) \in [KeptRequests -> RequestRows]
        /\ Restrict(grants, KeptGrants) \in [KeptGrants -> GrantRows]
        /\ \A q \in KeptRequests : Restrict(requests, KeptRequests)[q] = requests[q]
    BY Pruned DEF TypeOK, Restrict
  <2>3. /\ requests' \in [DOMAIN requests' -> RequestRows]
        /\ DOMAIN requests' = KeptRequests \cup {r}
        /\ requests'[r] = NewRequest(c)
        /\ \A q \in KeptRequests : q # r => requests'[q] = requests[q]
    BY <1>2, <2>1, <2>2 DEF Put
  <2>4. /\ clients' \in [DOMAIN clients' -> Times] /\ DOMAIN clients' = KeptClients
        /\ grants' \in [DOMAIN grants' -> GrantRows] /\ DOMAIN grants' = KeptGrants
    BY <1>2, <2>2
  <2> QED
    BY <1>2, <2>1, <2>3, <2>4, Pruned DEF TypeOK, CreateRequest
<1> QED
  BY <1>1, <1>2 DEF CreateRequest

\* A row of the approval that keeps its client replaces another.
LEMMA SetRequestTypes ==
  ASSUME TypeOK, NEW r \in DOMAIN requests, NEW row \in RequestRows,
         row.client = requests[r].client, SetRequest(r, row)
  PROVE  TypeOK'
BY DEF TypeOK, SetRequest

LEMMA RevokeTypes ==
  ASSUME TypeOK, NEW g \in DOMAIN grants, RevokeGrantTx(g)
  PROVE  TypeOK'
<1>1. now \in Times
  BY Constants DEF TypeOK, Times
<1>2. [grants[g] EXCEPT !.revoked = now] \in GrantRows
  BY <1>1 DEF TypeOK, GrantRows
<1>3. grants' \in [DOMAIN grants' -> GrantRows] /\ DOMAIN grants' = DOMAIN grants
  BY <1>2 DEF TypeOK, RevokeGrantTx
<1> QED
  BY <1>3 DEF TypeOK, RevokeGrantTx

LEMMA PairType ==
  ASSUME TypeOK, NEW g \in Grants, NEW n \in 1 .. MaxPairs
  PROVE  TokenPair(g, n) \subseteq Tokens
BY Constants DEF TypeOK, TokenPair, Tokens, Times

\* The type invariant, with its foreign keys: no token without its grant, no
\* request without its client, though rows are pruned behind every registration.
LEMMA StepTypes == TypeOK /\ ApprovedByDevice /\ [Next]_vars => TypeOK'
<1> SUFFICES ASSUME TypeOK, ApprovedByDevice, [Next]_vars PROVE TypeOK'
  OBVIOUS
<1>1. ASSUME NEW c \in Clients, CreateClient(c) PROVE TypeOK'
  BY <1>1, ClientTypes
<1>2. ASSUME NEW r \in Requests, NEW c \in Clients, CreateRequest(r, c) PROVE TypeOK'
  BY <1>2, RequestTypes
<1>3. ASSUME NEW d \in Devices, NEW r \in Requests, LookupRequest(d, r) PROVE TypeOK'
  <2>1. [requests[r] EXCEPT !.lookedUpBy = d] \in RequestRows
        /\ [requests[r] EXCEPT !.lookedUpBy = d].client = requests[r].client
    BY <1>3 DEF TypeOK, LookupRequest, RequestRows
  <2> QED
    BY <1>3, <2>1, SetRequestTypes DEF LookupRequest
<1>4. ASSUME NEW d \in Devices, NEW r \in Requests, NEW approve \in BOOLEAN, DecideRequest(d, r, approve)
      PROVE  TypeOK'
  <2> DEFINE row == [requests[r] EXCEPT !.status = IF approve THEN "approved" ELSE "denied", !.decidedBy = d]
  <2>1. row \in RequestRows /\ row.client = requests[r].client
    BY <1>4 DEF TypeOK, DecideRequest, RequestRows
  <2> QED
    BY <1>4, <2>1, SetRequestTypes DEF DecideRequest
<1>5. ASSUME NEW r \in Requests, IssueCode(r) PROVE TypeOK'
  <2> DEFINE row == [requests[r] EXCEPT !.codeExpires = now + CodeTTL]
  <2>1. now + CodeTTL \in Times
    BY Constants DEF TypeOK, Times
  <2>2. row \in RequestRows /\ row.client = requests[r].client
    BY <1>5, <2>1 DEF TypeOK, IssueCode, RequestRows
  <2> QED
    BY <1>5, <2>2, SetRequestTypes DEF IssueCode
<1>6. ASSUME NEW r \in Requests, NEW g \in Grants, ExchangeCode(r, g), ApprovedByDevice
      PROVE  TypeOK'
  <2> DEFINE grant == [client |-> requests[r].client, device |-> requests[r].decidedBy,
                       created |-> now, revoked |-> 0, request |-> r, pairs |-> 1]
  <2>1. 1 \in 1 .. MaxPairs /\ now \in Times /\ 0 \in Times /\ requests[r] \in RequestRows
    BY <1>6, Constants DEF TypeOK, Times, ExchangeCode, Redeemable
  <2>2. grant \in GrantRows
    BY <1>6, <2>1 DEF GrantRows, RequestRows, ExchangeCode, Redeemable, ApprovedByDevice
  <2>3. grants' \in [DOMAIN grants' -> GrantRows] /\ DOMAIN grants' = DOMAIN grants \cup {g}
    BY <1>6, <2>2 DEF ExchangeCode, Put, TypeOK
  <2>4. TokenPair(g, 1) \subseteq Tokens /\ \A u \in TokenPair(g, 1) : u.grant = g
    BY <2>1, PairType DEF TokenPair
  <2>5. [requests[r] EXCEPT !.status = "exchanged"] \in RequestRows
        /\ [requests[r] EXCEPT !.status = "exchanged"].client = requests[r].client
    BY <2>1 DEF RequestRows
  <2> QED
    BY <1>6, <2>3, <2>4, <2>5 DEF ExchangeCode, Redeemable, TypeOK
<1>7. ASSUME NEW t \in tokens, RefreshTokens(t) PROVE TypeOK'
  <2>1. t.grant \in DOMAIN grants /\ t \in Tokens /\ grants[t.grant] \in GrantRows
    BY DEF TypeOK
  <2>2. CASE RevokeGrantTx(t.grant)
    BY <2>1, <2>2, RevokeTypes
  <2>3. CASE Rotate(t)
    <3> DEFINE g == t.grant
               n == grants[g].pairs + 1
    <3>1. n \in 1 .. MaxPairs /\ now \in Times
      BY <2>1, <2>3, Constants DEF Rotate, GrantRows, TypeOK, Times
    <3>2. TokenPair(g, n) \subseteq Tokens
      BY <2>1, <3>1, PairType DEF Tokens
    <3>3. [t EXCEPT !.used = now] \in Tokens /\ [t EXCEPT !.used = now].grant = g
      BY <2>1, <3>1 DEF Tokens
    <3>4. \A u \in tokens' : u \in Tokens /\ (u \in tokens \/ u.grant = g)
      <4>1. tokens' \subseteq tokens \cup {[t EXCEPT !.used = now]} \cup TokenPair(g, n)
        BY <2>3 DEF Rotate
      <4>2. \A u \in TokenPair(g, n) : u.grant = g
        BY DEF TokenPair
      <4> QED
        BY <3>2, <3>3, <4>1, <4>2 DEF TypeOK
    <3>5. [grants[g] EXCEPT !.pairs = n] \in GrantRows
      BY <2>1, <3>1 DEF GrantRows
    <3>6. grants' \in [DOMAIN grants' -> GrantRows] /\ DOMAIN grants' = DOMAIN grants
      BY <2>1, <2>3, <3>5 DEF TypeOK, Rotate
    <3> QED
      BY <2>1, <2>3, <3>4, <3>6 DEF TypeOK, Rotate
  <2> QED
    BY <1>7, <2>2, <2>3 DEF RefreshTokens
<1>8. ASSUME NEW t \in tokens, RevokeToken(t) PROVE TypeOK'
  BY <1>8, RevokeTypes DEF RevokeToken, TypeOK
<1>9. ASSUME NEW d \in Devices, NEW g \in Grants, RevokeGrant(d, g) PROVE TypeOK'
  BY <1>9, RevokeTypes DEF RevokeGrant
<1>10. ASSUME NEW by \in Devices, NEW d \in Devices, NEW failed \in BOOLEAN, RevokeDevice(by, d, failed)
       PROVE  TypeOK'
  <2>1. now \in Times
    BY Constants DEF TypeOK, Times
  <2>2. revokedAt' \in [Devices -> Times] /\ unfinished' \subseteq Devices
    BY <1>10, <2>1 DEF RevokeDevice, TypeOK
  <2>3. /\ grants' \in [DOMAIN grants' -> GrantRows] /\ DOMAIN grants' = DOMAIN grants
        /\ tokens' \subseteq tokens
    <3>1. CASE failed
      BY <1>10, <3>1 DEF RevokeDevice, TypeOK
    <3>2. CASE ~failed
      <4>1. \A g \in DOMAIN grants : [grants[g] EXCEPT !.revoked = now] \in GrantRows
        BY <2>1 DEF TypeOK, GrantRows
      <4> QED
        BY <1>10, <3>2, <4>1 DEF RevokeDevice, RevokeDeviceGrants, TypeOK
    <3> QED
      BY <3>1, <3>2
  <2> QED
    BY <1>10, <2>2, <2>3 DEF RevokeDevice, TypeOK
<1>11. CASE Tick
  BY <1>11, Constants DEF Tick, TypeOK, tables
<1>12. CASE UNCHANGED vars
  BY <1>12 DEF vars, tables, TypeOK
<1> QED
  BY <1>1, <1>2, <1>3, <1>4, <1>5, <1>6, <1>7, <1>8, <1>9, <1>10, <1>11, <1>12 DEF Next

-----------------------------------------------------------------------------
(* Approvals *)

\* What was drawn is never drawn again, not even when its row is pruned.
NothingIsForgotten ==
  /\ DOMAIN requests \subseteq drawn
  /\ DOMAIN grants \subseteq drawn
  /\ \A g \in DOMAIN grants : grants[g].request \in drawn

\* A code ends within its lifetime of the request's, and whoever decided a
\* request did so before its removal.
RequestsInTime ==
  \A r \in DOMAIN requests :
    /\ requests[r].created <= now
    /\ requests[r].expires = requests[r].created + RequestTTL
    /\ requests[r].codeExpires < requests[r].expires + CodeTTL
    /\ requests[r].status # "pending" /\ ~Active(requests[r].decidedBy) =>
         requests[r].created <= revokedAt[requests[r].decidedBy]

\* The approval a grant comes from is spent.
ApprovalsAreSpent ==
  \A g \in DOMAIN grants :
    grants[g].request \in DOMAIN requests => requests[grants[g].request].status = "exchanged"

ThePastIsPast ==
  /\ \A d \in Devices : revokedAt[d] <= now
  /\ \A g \in DOMAIN grants : grants[g].created <= now

ApprovalInv ==
  /\ TypeOK
  /\ ApprovedByDevice
  /\ NothingIsForgotten
  /\ RequestsInTime
  /\ ApprovalsAreSpent
  /\ ThePastIsPast
  /\ OneGrantPerApproval
  /\ DecidedByTheLastToLook
  /\ LateGrantsAreBounded

LEMMA InitApprovals == Init => ApprovalInv
BY InitTypes, Constants DEF Init, ApprovalInv, ApprovedByDevice, NothingIsForgotten, RequestsInTime,
   ApprovalsAreSpent, ThePastIsPast, OneGrantPerApproval, DecidedByTheLastToLook, LateGrantsAreBounded, ActiveGrants

\* The numbers of the rows.
LEMMA Numbers ==
  ASSUME TypeOK
  PROVE  /\ now \in Nat \ {0}
         /\ \A d \in Devices : revokedAt[d] \in Nat
         /\ \A r \in DOMAIN requests :
              {requests[r].created, requests[r].expires, requests[r].codeExpires} \subseteq Nat
         /\ \A g \in DOMAIN grants :
              /\ {grants[g].created, grants[g].revoked, grants[g].pairs} \subseteq Nat
              /\ grants[g].device \in Devices
         /\ \A t \in tokens :
              /\ {t.expires, t.used, t.pair} \subseteq Nat
              /\ t.grant \in DOMAIN grants
              /\ t.kind \in {"access", "refresh"}
<1>1. Times \subseteq Nat
  BY Constants DEF Times
<1>2. now \in Nat \ {0} /\ \A d \in Devices : revokedAt[d] \in Nat
  BY <1>1 DEF TypeOK
<1>3. \A r \in DOMAIN requests : requests[r] \in RequestRows
  BY DEF TypeOK
<1>4. \A g \in DOMAIN grants : grants[g] \in GrantRows
  BY DEF TypeOK
<1>5. \A t \in tokens : t \in Tokens /\ t.grant \in DOMAIN grants
  BY DEF TypeOK
<1>6. \A g \in DOMAIN grants : grants[g].pairs \in Nat
  BY <1>4, Constants DEF GrantRows
<1>7. \A r \in DOMAIN requests : {requests[r].created, requests[r].expires, requests[r].codeExpires} \subseteq Nat
  BY <1>1, <1>3 DEF RequestRows
<1>8. \A g \in DOMAIN grants : {grants[g].created, grants[g].revoked} \subseteq Nat /\ grants[g].device \in Devices
  BY <1>1, <1>4 DEF GrantRows
<1>9. \A t \in tokens : {t.expires, t.used, t.pair} \subseteq Nat /\ t.kind \in {"access", "refresh"}
  <2>1. \A t \in tokens : {t.expires, t.used} \subseteq Times /\ t.pair \in 1 .. MaxPairs
    BY <1>5 DEF Tokens
  <2>2. \A t \in tokens : t.kind \in {"access", "refresh"}
    BY <1>5 DEF Tokens
  <2>3. 1 .. MaxPairs \subseteq Nat
    BY Constants
  <2> QED
    BY <1>1, <2>1, <2>2, <2>3
<1> QED
  BY <1>2, <1>5, <1>6, <1>7, <1>8, <1>9

\* A step that prunes, and may put new requests into the table.
LEMMA PruningKeepsApprovals ==
  ASSUME ApprovalInv, TypeOK', drawn \subseteq drawn', UNCHANGED <<now, revokedAt, unfinished>>,
         \A r \in DOMAIN requests' :
           \/ r \in DOMAIN requests /\ requests'[r] = requests[r]
           \/ r \in drawn' \ drawn /\ \E c \in Clients : requests'[r] = NewRequest(c),
         \A g \in DOMAIN grants' : g \in DOMAIN grants /\ grants'[g] = grants[g]
  PROVE  ApprovalInv'
<1> USE DEF ApprovalInv
<1>1. \A r \in DOMAIN requests' :
        \/ r \in DOMAIN requests /\ requests'[r] = requests[r]
        \/ /\ r \in drawn' \ drawn
           /\ requests'[r].status = "pending"
           /\ requests'[r].created = now
           /\ requests'[r].expires = now + RequestTTL
           /\ requests'[r].codeExpires = 0
  BY DEF NewRequest
<1>2. ApprovedByDevice' /\ RequestsInTime'
  BY <1>1, Numbers, Constants DEF ApprovedByDevice, RequestsInTime, Active
<1>3. NothingIsForgotten' /\ ThePastIsPast'
  BY <1>1 DEF NothingIsForgotten, ThePastIsPast
<1>4. \A g \in DOMAIN grants' : grants'[g].request \in drawn
  BY DEF NothingIsForgotten
<1>5. ApprovalsAreSpent' /\ DecidedByTheLastToLook'
  BY <1>1, <1>4 DEF ApprovalsAreSpent, DecidedByTheLastToLook
<1>6. OneGrantPerApproval' /\ LateGrantsAreBounded'
  BY DEF OneGrantPerApproval, LateGrantsAreBounded, ActiveGrants, Active
<1> QED
  BY <1>2, <1>3, <1>5, <1>6

LEMMA ClientKeepsApprovals ==
  ASSUME ApprovalInv, TypeOK', NEW c \in Clients, CreateClient(c)
  PROVE  ApprovalInv'
<1>1. /\ \A r \in DOMAIN requests' : r \in DOMAIN requests /\ requests'[r] = requests[r]
      /\ \A g \in DOMAIN grants' : g \in DOMAIN grants /\ grants'[g] = grants[g]
  <2>1. CASE UNCHANGED tables
    BY <2>1 DEF tables
  <2>2. CASE requests' = Restrict(requests, KeptRequests) /\ grants' = Restrict(grants, KeptGrants)
    BY <2>2, Pruned DEF Restrict, ApprovalInv
  <2> QED
    BY <2>1, <2>2 DEF CreateClient
<1> QED
  BY <1>1, PruningKeepsApprovals DEF CreateClient

LEMMA RequestKeepsApprovals ==
  ASSUME ApprovalInv, TypeOK', NEW r \in Requests, NEW c \in Clients, CreateRequest(r, c)
  PROVE  ApprovalInv'
<1>1. /\ \A q \in DOMAIN requests' :
           \/ q \in DOMAIN requests /\ requests'[q] = requests[q]
           \/ q = r /\ requests'[r] = NewRequest(c)
      /\ \A g \in DOMAIN grants' : g \in DOMAIN grants /\ grants'[g] = grants[g]
  <2>1. CASE UNCHANGED tables
    BY <2>1 DEF tables
  <2>2. CASE /\ requests' = Put(Restrict(requests, KeptRequests), r, NewRequest(c))
             /\ grants' = Restrict(grants, KeptGrants)
    BY <2>2, Pruned DEF Put, Restrict, ApprovalInv
  <2> QED
    BY <2>1, <2>2 DEF CreateRequest
<1>2. /\ r \in drawn' \ drawn /\ drawn \subseteq drawn'
      /\ UNCHANGED <<now, revokedAt, unfinished>>
  BY DEF CreateRequest
<1> QED
  BY <1>1, <1>2, PruningKeepsApprovals

\* A step that changes one request, within what the invariant says of requests.
LEMMA SetRequestKeepsApprovals ==
  ASSUME ApprovalInv, TypeOK', NEW r \in DOMAIN requests, NEW row, SetRequest(r, row),
         requests[r].status # "exchanged",
         row.created = requests[r].created, row.expires = requests[r].expires,
         row.codeExpires < row.expires + CodeTTL,
         row.status # "pending" =>
           /\ row.decidedBy \in Devices
           /\ row.decidedBy = row.lookedUpBy
           /\ row.decidedBy # requests[r].decidedBy \/ requests[r].status = "pending" => Active(row.decidedBy)
  PROVE  ApprovalInv'
<1> USE DEF ApprovalInv
<1>1. /\ DOMAIN requests' = DOMAIN requests
      /\ requests'[r] = row
      /\ \A q \in DOMAIN requests : q # r => requests'[q] = requests[q]
      /\ UNCHANGED <<now, drawn, clients, grants, tokens, revokedAt, unfinished>>
  BY DEF SetRequest, TypeOK
<1>2. ApprovedByDevice' /\ NothingIsForgotten' /\ ThePastIsPast'
  BY <1>1 DEF ApprovedByDevice, NothingIsForgotten, ThePastIsPast
<1>3. RequestsInTime'
  BY <1>1, Numbers, Constants DEF RequestsInTime, Active
<1>4. \A g \in DOMAIN grants : grants[g].request # r
  BY DEF ApprovalsAreSpent
<1>5. ApprovalsAreSpent' /\ DecidedByTheLastToLook'
  BY <1>1, <1>4 DEF ApprovalsAreSpent, DecidedByTheLastToLook
<1>6. OneGrantPerApproval' /\ LateGrantsAreBounded'
  BY <1>1 DEF OneGrantPerApproval, LateGrantsAreBounded, ActiveGrants, Active
<1> QED
  BY <1>2, <1>3, <1>5, <1>6

LEMMA DecisionsKeepApprovals ==
  ASSUME ApprovalInv, TypeOK', NEW r \in Requests,
         \/ \E d \in Devices : LookupRequest(d, r)
         \/ \E d \in Devices, approve \in BOOLEAN : DecideRequest(d, r, approve)
         \/ IssueCode(r)
  PROVE  ApprovalInv'
<1> USE DEF ApprovalInv
<1>0. r \in DOMAIN requests /\ requests[r] \in RequestRows
  BY DEF TypeOK, LookupRequest, DecideRequest, IssueCode
<1>1. ASSUME NEW d \in Devices, LookupRequest(d, r) PROVE ApprovalInv'
  <2> DEFINE row == [requests[r] EXCEPT !.lookedUpBy = d]
  <2>1. /\ row.created = requests[r].created /\ row.expires = requests[r].expires
        /\ row.codeExpires = requests[r].codeExpires /\ row.status = "pending"
    BY <1>0, <1>1 DEF RequestRows, LookupRequest
  <2> QED
    BY <1>0, <1>1, <2>1, SetRequestKeepsApprovals DEF LookupRequest, RequestsInTime
<1>2. ASSUME NEW d \in Devices, NEW approve \in BOOLEAN, DecideRequest(d, r, approve)
      PROVE  ApprovalInv'
  <2> DEFINE row == [requests[r] EXCEPT !.status = IF approve THEN "approved" ELSE "denied", !.decidedBy = d]
  <2>1. /\ row.created = requests[r].created /\ row.expires = requests[r].expires
        /\ row.codeExpires = requests[r].codeExpires
        /\ row.decidedBy = d /\ row.lookedUpBy = d
    BY <1>0, <1>2 DEF RequestRows, DecideRequest
  <2> QED
    BY <1>0, <1>2, <2>1, SetRequestKeepsApprovals DEF DecideRequest, RequestsInTime
<1>3. ASSUME IssueCode(r) PROVE ApprovalInv'
  <2> DEFINE row == [requests[r] EXCEPT !.codeExpires = now + CodeTTL]
  <2>1. /\ row.created = requests[r].created /\ row.expires = requests[r].expires
        /\ row.codeExpires = now + CodeTTL
        /\ row.decidedBy = requests[r].decidedBy /\ row.lookedUpBy = requests[r].lookedUpBy
        /\ row.status = "approved" /\ requests[r].status = "approved"
    BY <1>0, <1>3 DEF RequestRows, IssueCode
  <2>2. row.codeExpires < row.expires + CodeTTL
    BY <1>0, <1>3, <2>1, Numbers, Constants DEF IssueCode
  <2> QED
    BY <1>0, <1>3, <2>1, <2>2, SetRequestKeepsApprovals DEF IssueCode, ApprovedByDevice,
       DecidedByTheLastToLook
<1> QED
  BY <1>1, <1>2, <1>3

LEMMA ExchangeKeepsApprovals ==
  ASSUME ApprovalInv, TypeOK', NEW r \in Requests, NEW g \in Grants, ExchangeCode(r, g)
  PROVE  ApprovalInv'
<1> USE DEF ApprovalInv
<1>1. /\ r \in DOMAIN requests /\ requests[r] \in RequestRows
      /\ requests[r].status = "approved" /\ requests[r].codeExpires > now
      /\ g \notin drawn /\ drawn' = drawn \cup {g}
      /\ UNCHANGED <<now, clients, revokedAt, unfinished>>
  BY DEF ExchangeCode, Redeemable, TypeOK
<1>2. /\ DOMAIN requests' = DOMAIN requests
      /\ \A q \in DOMAIN requests : q # r => requests'[q] = requests[q]
  BY <1>1 DEF ExchangeCode, TypeOK
<1>3. /\ requests'[r].status = "exchanged"
      /\ requests'[r].created = requests[r].created /\ requests'[r].expires = requests[r].expires
      /\ requests'[r].codeExpires = requests[r].codeExpires
      /\ requests'[r].lookedUpBy = requests[r].lookedUpBy /\ requests'[r].decidedBy = requests[r].decidedBy
  <2>1. requests'[r] = [requests[r] EXCEPT !.status = "exchanged"]
    BY <1>1 DEF ExchangeCode, TypeOK
  <2> QED
    BY <1>1, <2>1 DEF RequestRows
<1>4. /\ DOMAIN grants' = DOMAIN grants \cup {g}
      /\ \A h \in DOMAIN grants : h # g /\ grants'[h] = grants[h]
      /\ grants'[g].device = requests[r].decidedBy
      /\ grants'[g].created = now
      /\ grants'[g].request = r
  BY <1>1 DEF ExchangeCode, Put, NothingIsForgotten
<1>5. ApprovedByDevice' /\ RequestsInTime'
  <2>1. ApprovedByDevice'
    BY <1>1, <1>2, <1>3 DEF ApprovedByDevice
  <2>2. \A q \in DOMAIN requests :
          /\ requests'[q].created = requests[q].created /\ requests'[q].expires = requests[q].expires
          /\ requests'[q].codeExpires = requests[q].codeExpires
          /\ requests'[q].decidedBy = requests[q].decidedBy
          /\ requests'[q].status # "pending" <=> requests[q].status # "pending"
    BY <1>1, <1>2, <1>3
  <2>3. RequestsInTime'
    BY <1>1, <1>2, <2>2 DEF RequestsInTime, Active
  <2> QED
    BY <2>1, <2>3
<1>6. NothingIsForgotten' /\ ThePastIsPast'
  BY <1>1, <1>2, <1>4, Numbers DEF NothingIsForgotten, ThePastIsPast
<1>7. \A h \in DOMAIN grants : grants[h].request # r
  BY <1>1 DEF ApprovalsAreSpent
<1>8. ApprovalsAreSpent' /\ OneGrantPerApproval' /\ DecidedByTheLastToLook'
  <2>1. ApprovalsAreSpent'
    BY <1>1, <1>2, <1>3, <1>4, <1>7 DEF ApprovalsAreSpent
  <2>2. OneGrantPerApproval'
    BY <1>4, <1>7 DEF OneGrantPerApproval
  <2>3. requests[r].decidedBy = requests[r].lookedUpBy
    BY <1>1 DEF DecidedByTheLastToLook
  <2>4. \A q \in DOMAIN requests' :
          requests'[q].status # "pending" => requests'[q].decidedBy = requests'[q].lookedUpBy
    BY <1>1, <1>2, <1>3, <2>3 DEF DecidedByTheLastToLook
  <2>5. \A q \in DOMAIN requests', h \in DOMAIN grants' :
          grants'[h].request = q => grants'[h].device = requests'[q].lookedUpBy
    BY <1>1, <1>2, <1>3, <1>4, <1>7, <2>3 DEF DecidedByTheLastToLook
  <2> QED
    BY <2>1, <2>2, <2>4, <2>5 DEF DecidedByTheLastToLook
<1>9. LateGrantsAreBounded'
  <2>1. LET d == grants'[g].device IN
          ~Active(d) => now >= revokedAt[d] /\ now < revokedAt[d] + RequestTTL + CodeTTL
    BY <1>1, <1>4, Numbers, Constants DEF ApprovedByDevice, RequestsInTime, ThePastIsPast
  <2> QED
    BY <1>1, <1>4, <2>1 DEF LateGrantsAreBounded, ActiveGrants, Active
<1> QED
  BY <1>5, <1>6, <1>8, <1>9

\* A step after which every grant is the same but for its revocation and the
\* number of its pairs.
GrantsKept ==
  /\ DOMAIN grants' = DOMAIN grants
  /\ \A g \in DOMAIN grants :
       /\ grants'[g].device = grants[g].device
       /\ grants'[g].request = grants[g].request
       /\ grants'[g].created = grants[g].created
       /\ grants[g].revoked # 0 => grants'[g].revoked = grants[g].revoked

LEMMA RevokeKeepsGrants ==
  ASSUME TypeOK, NEW g \in DOMAIN grants, RevokeGrantTx(g)
  PROVE  /\ GrantsKept
         /\ grants'[g].revoked # 0
         /\ UNCHANGED <<now, drawn, clients, requests, revokedAt, unfinished>>
<1>1. grants[g] \in GrantRows /\ now # 0
  BY Numbers DEF TypeOK
<1>2. \A h \in DOMAIN grants :
        grants'[h] = IF h = g /\ grants[g].revoked = 0 THEN [grants[g] EXCEPT !.revoked = now] ELSE grants[h]
  BY DEF RevokeGrantTx, TypeOK
<1>3. LET row == [grants[g] EXCEPT !.revoked = now] IN
        /\ row.device = grants[g].device /\ row.request = grants[g].request
        /\ row.created = grants[g].created /\ row.revoked = now
  BY <1>1 DEF GrantRows
<1>4. DOMAIN grants' = DOMAIN grants /\ UNCHANGED <<now, drawn, clients, requests, revokedAt, unfinished>>
  BY DEF RevokeGrantTx, TypeOK
<1> QED
  BY <1>1, <1>2, <1>3, <1>4 DEF GrantsKept

LEMMA RotateKeepsGrants ==
  ASSUME TypeOK, NEW t \in tokens, Rotate(t)
  PROVE  /\ GrantsKept
         /\ \A g \in DOMAIN grants : grants'[g].revoked = grants[g].revoked
         /\ UNCHANGED <<now, drawn, clients, requests, revokedAt, unfinished>>
<1> DEFINE g == t.grant
           row == [grants[g] EXCEPT !.pairs = grants[g].pairs + 1]
<1>1. g \in DOMAIN grants /\ grants[g] \in GrantRows
  BY DEF TypeOK
<1>2. /\ row.device = grants[g].device /\ row.request = grants[g].request
      /\ row.created = grants[g].created /\ row.revoked = grants[g].revoked
  BY <1>1 DEF GrantRows
<1>3. /\ DOMAIN grants' = DOMAIN grants
      /\ \A h \in DOMAIN grants : grants'[h] = IF h = g THEN row ELSE grants[h]
      /\ UNCHANGED <<now, drawn, clients, requests, revokedAt, unfinished>>
  BY DEF Rotate, TypeOK
<1> QED
  BY <1>2, <1>3 DEF GrantsKept

LEMMA RevokeDeviceKeepsGrants ==
  ASSUME TypeOK, NEW d \in Devices, RevokeDeviceGrants(d)
  PROVE  /\ GrantsKept
         /\ \A g \in GrantsApprovedBy(d) : grants'[g].revoked # 0
BY Numbers DEF GrantsKept, RevokeDeviceGrants, GrantsApprovedBy, TypeOK, GrantRows

LEMMA GrantsKeepApprovals ==
  ASSUME ApprovalInv, TypeOK', GrantsKept, UNCHANGED <<now, drawn, requests, revokedAt, unfinished>>
  PROVE  ApprovalInv'
<1> USE DEF ApprovalInv, GrantsKept
<1>1. ApprovedByDevice' /\ NothingIsForgotten' /\ RequestsInTime' /\ ThePastIsPast'
  BY DEF ApprovedByDevice, NothingIsForgotten, RequestsInTime, ThePastIsPast, Active
<1>2. ApprovalsAreSpent' /\ OneGrantPerApproval' /\ DecidedByTheLastToLook'
  BY DEF ApprovalsAreSpent, OneGrantPerApproval, DecidedByTheLastToLook
<1>3. LateGrantsAreBounded'
  BY DEF LateGrantsAreBounded, ActiveGrants, Active
<1> QED
  BY <1>1, <1>2, <1>3

LEMMA RemovalKeepsApprovals ==
  ASSUME ApprovalInv, TypeOK', NEW by \in Devices, NEW d \in Devices, NEW failed \in BOOLEAN,
         RevokeDevice(by, d, failed)
  PROVE  ApprovalInv'
<1> USE DEF ApprovalInv
<1>1. /\ revokedAt[d] = 0 /\ revokedAt'[d] = now
      /\ \A e \in Devices : e # d => revokedAt'[e] = revokedAt[e]
      /\ unfinished \subseteq unfinished'
      /\ UNCHANGED <<now, drawn, clients, requests>>
  BY DEF RevokeDevice, Active, TypeOK
<1>2. GrantsKept
  <2>1. CASE failed
    BY <2>1 DEF RevokeDevice, GrantsKept
  <2>2. CASE ~failed
    BY <2>2, RevokeDeviceKeepsGrants DEF RevokeDevice
  <2> QED
    BY <2>1, <2>2
<1>3. \A g \in DOMAIN grants : grants[g].device = d => d \in unfinished' \/ grants'[g].revoked # 0
  <2>1. CASE failed
    BY <2>1 DEF RevokeDevice
  <2>2. CASE ~failed
    BY <2>2, RevokeDeviceKeepsGrants DEF RevokeDevice, GrantsApprovedBy
  <2> QED
    BY <2>1, <2>2
<1>4. ApprovedByDevice' /\ NothingIsForgotten'
  BY <1>1, <1>2 DEF ApprovedByDevice, NothingIsForgotten, GrantsKept
<1>5. RequestsInTime'
  BY <1>1, Numbers DEF ApprovedByDevice, RequestsInTime, Active
<1>6. ThePastIsPast'
  BY <1>1, <1>2, Numbers DEF ThePastIsPast, GrantsKept
<1>7. ApprovalsAreSpent' /\ OneGrantPerApproval' /\ DecidedByTheLastToLook'
  BY <1>1, <1>2 DEF ApprovalsAreSpent, OneGrantPerApproval, DecidedByTheLastToLook, GrantsKept
<1>8. LateGrantsAreBounded'
  BY <1>1, <1>2, <1>3, Numbers DEF LateGrantsAreBounded, ActiveGrants, Active, GrantsKept
<1> QED
  BY <1>4, <1>5, <1>6, <1>7, <1>8

LEMMA StepApprovals == ApprovalInv /\ [Next]_vars => ApprovalInv'
<1> SUFFICES ASSUME ApprovalInv, [Next]_vars PROVE ApprovalInv'
  OBVIOUS
<1>0. TypeOK /\ TypeOK'
  BY StepTypes DEF ApprovalInv
<1>1. ASSUME NEW c \in Clients, CreateClient(c) PROVE ApprovalInv'
  BY <1>0, <1>1, ClientKeepsApprovals
<1>2. ASSUME NEW r \in Requests, NEW c \in Clients, CreateRequest(r, c) PROVE ApprovalInv'
  BY <1>0, <1>2, RequestKeepsApprovals
<1>3. ASSUME NEW r \in Requests,
             \/ \E d \in Devices : LookupRequest(d, r)
             \/ \E d \in Devices, approve \in BOOLEAN : DecideRequest(d, r, approve)
             \/ IssueCode(r)
      PROVE  ApprovalInv'
  BY <1>0, <1>3, DecisionsKeepApprovals
<1>4. ASSUME NEW r \in Requests, NEW g \in Grants, ExchangeCode(r, g) PROVE ApprovalInv'
  BY <1>0, <1>4, ExchangeKeepsApprovals
<1>5. ASSUME NEW g \in DOMAIN grants, RevokeGrantTx(g) PROVE ApprovalInv'
  BY <1>0, <1>5, RevokeKeepsGrants, GrantsKeepApprovals
<1>6. ASSUME NEW t \in tokens, RefreshTokens(t) PROVE ApprovalInv'
  BY <1>0, <1>5, <1>6, RotateKeepsGrants, GrantsKeepApprovals, Numbers DEF RefreshTokens
<1>7. ASSUME NEW t \in tokens, RevokeToken(t) PROVE ApprovalInv'
  BY <1>0, <1>5, <1>7, Numbers DEF RevokeToken
<1>8. ASSUME NEW d \in Devices, NEW g \in Grants, RevokeGrant(d, g) PROVE ApprovalInv'
  BY <1>5, <1>8 DEF RevokeGrant
<1>9. ASSUME NEW by \in Devices, NEW d \in Devices, NEW failed \in BOOLEAN, RevokeDevice(by, d, failed)
      PROVE  ApprovalInv'
  BY <1>0, <1>9, RemovalKeepsApprovals
<1>10. CASE Tick
  BY <1>0, <1>10, Numbers DEF Tick, tables, ApprovalInv, ApprovedByDevice, NothingIsForgotten, RequestsInTime,
     ApprovalsAreSpent, ThePastIsPast, OneGrantPerApproval, DecidedByTheLastToLook, LateGrantsAreBounded,
     ActiveGrants, Active
<1>11. CASE UNCHANGED vars
  BY <1>11 DEF vars, tables, ApprovalInv, TypeOK, ApprovedByDevice, NothingIsForgotten, RequestsInTime,
     ApprovalsAreSpent, ThePastIsPast, OneGrantPerApproval, DecidedByTheLastToLook, LateGrantsAreBounded,
     ActiveGrants, Active
<1> QED
  BY <1>1, <1>2, <1>3, <1>4, <1>6, <1>7, <1>8, <1>9, <1>10, <1>11 DEF Next

-----------------------------------------------------------------------------
(* Tokens *)

\* A pair of a grant has one token of each kind, and a grant with tokens is not
\* revoked.
TokensFit ==
  /\ \A t, u \in tokens : t.grant = u.grant /\ t.pair = u.pair /\ t.kind = u.kind => t = u
  /\ \A t \in tokens : t.pair <= grants[t.grant].pairs /\ grants[t.grant].revoked = 0

TokensInTime ==
  \A t \in tokens :
    /\ t.kind = "access" => t.used = 0 /\ t.expires <= now + AccessTTL
    /\ t.kind = "refresh" => t.expires <= now + RefreshTTL

\* A used token is followed by one that is good for at least as long, ...
UsedAreFollowed ==
  \A t \in tokens : t.used # 0 =>
    \E u \in tokens : u.grant = t.grant /\ u.kind = "refresh" /\ u.used = 0 /\ u.expires >= t.expires

\* ... and among the access tokens of a grant the latest one ends last.
LatestEndsLast ==
  \A t \in tokens : t.kind = "access" =>
    \E u \in tokens : /\ u.grant = t.grant /\ u.kind = "access"
                      /\ u.pair = grants[t.grant].pairs /\ u.expires >= t.expires

TokenInv ==
  /\ TokensFit
  /\ TokensInTime
  /\ UsedAreFollowed
  /\ LatestEndsLast
  /\ OneLiveRefreshToken
  /\ AccessIsBounded

LEMMA InitTokens == Init => TokenInv
BY DEF Init, TokenInv, TokensFit, TokensInTime, UsedAreFollowed, LatestEndsLast, OneLiveRefreshToken,
   AccessIsBounded

\* A step that issues no token and removes none that another one needs.
LEMMA FewerTokens ==
  ASSUME TypeOK, TypeOK', TokenInv, tokens' \subseteq tokens, now <= now',
         \A t \in tokens' : /\ grants'[t.grant].pairs = grants[t.grant].pairs
                            /\ grants'[t.grant].revoked = grants[t.grant].revoked
                            /\ grants'[t.grant].created = grants[t.grant].created,
         UsedAreFollowed', LatestEndsLast'
  PROVE  TokenInv'
<1> USE DEF TokenInv
<1>1. TokensFit' /\ OneLiveRefreshToken' /\ AccessIsBounded'
  BY DEF TokensFit, OneLiveRefreshToken, AccessIsBounded
<1>2. now \in Nat /\ now' \in Nat /\ \A t \in tokens : t.expires \in Nat
  BY Numbers, Constants DEF TypeOK
<1>3. TokensInTime'
  BY <1>2, Constants DEF TokensInTime
<1> QED
  BY <1>1, <1>3

\* What is pruned of the tokens of a grant leaves the ones that follow.
LEMMA PruningKeepsTokens ==
  ASSUME TypeOK, TypeOK', TokenInv, tokens' = KeptTokens, now' = now,
         \A g \in KeptGrants : grants'[g] = grants[g]
  PROVE  TokenInv'
<1>1. \A t \in tokens' : t \in tokens /\ t.grant \in KeptGrants /\ t.expires >= now
  BY DEF KeptTokens, UnexpiredTokens
<1>2. ASSUME NEW t \in tokens', NEW u \in tokens, u.grant = t.grant, u.used = 0, u.expires >= t.expires
      PROVE  u \in tokens'
  BY <1>1, <1>2, Numbers DEF KeptTokens, UnexpiredTokens
<1>3. UsedAreFollowed'
  BY <1>1, <1>2 DEF UsedAreFollowed, TokenInv
<1>4. LatestEndsLast'
  <2> SUFFICES ASSUME NEW t \in tokens', t.kind = "access"
               PROVE  \E u \in tokens' : /\ u.grant = t.grant /\ u.kind = "access"
                                         /\ u.pair = grants'[t.grant].pairs /\ u.expires >= t.expires
    BY DEF LatestEndsLast
  <2>1. PICK u \in tokens : /\ u.grant = t.grant /\ u.kind = "access"
                            /\ u.pair = grants[t.grant].pairs /\ u.expires >= t.expires
    BY <1>1 DEF LatestEndsLast, TokenInv
  <2>2. u.used = 0
    BY <2>1 DEF TokensInTime, TokenInv
  <2> QED
    BY <1>1, <1>2, <2>1, <2>2
<1> QED
  BY <1>1, <1>3, <1>4, Numbers, FewerTokens

\* So does a revocation, which leaves all tokens of a grant or none.
LEMMA RevokingKeepsTokens ==
  ASSUME TypeOK, TypeOK', TokenInv, now' = now, NEW G, tokens' = {t \in tokens : t.grant \notin G},
         \A g \in DOMAIN grants \ G : grants'[g] = grants[g]
  PROVE  TokenInv'
<1>1. \A t \in tokens' : t \in tokens /\ grants'[t.grant] = grants[t.grant]
  BY Numbers
<1>2. UsedAreFollowed'
  BY <1>1 DEF UsedAreFollowed, TokenInv
<1>3. LatestEndsLast'
  BY <1>1 DEF LatestEndsLast, TokenInv
<1> QED
  BY <1>1, <1>2, <1>3, Numbers, FewerTokens

LEMMA RevokeTxKeepsTokens ==
  ASSUME TypeOK, TypeOK', TokenInv, NEW g \in DOMAIN grants, RevokeGrantTx(g)
  PROVE  TokenInv'
<1>1. tokens' = {t \in tokens : t.grant \notin {g}} /\ now' = now
  BY DEF RevokeGrantTx
<1>2. \A h \in DOMAIN grants \ {g} : grants'[h] = grants[h]
  BY DEF RevokeGrantTx, TypeOK
<1> QED
  BY <1>1, <1>2, RevokingKeepsTokens

LEMMA PairFields ==
  ASSUME NEW g, NEW n
  PROVE  \E a, b : /\ TokenPair(g, n) = {a, b}
                   /\ a.grant = g /\ a.pair = n /\ a.kind = "access" /\ a.used = 0
                   /\ a.expires = now + AccessTTL
                   /\ b.grant = g /\ b.pair = n /\ b.kind = "refresh" /\ b.used = 0
                   /\ b.expires = now + RefreshTTL
<1> DEFINE a == [grant |-> g, pair |-> n, kind |-> "access", expires |-> now + AccessTTL, used |-> 0]
           b == [grant |-> g, pair |-> n, kind |-> "refresh", expires |-> now + RefreshTTL, used |-> 0]
<1>1. TokenPair(g, n) = {a, b}
  BY DEF TokenPair
<1>2. /\ a.grant = g /\ a.pair = n /\ a.kind = "access" /\ a.used = 0 /\ a.expires = now + AccessTTL
      /\ b.grant = g /\ b.pair = n /\ b.kind = "refresh" /\ b.used = 0 /\ b.expires = now + RefreshTTL
  OBVIOUS
<1> QED
  BY <1>1, <1>2

LEMMA ExchangeKeepsTokens ==
  ASSUME ApprovalInv, TypeOK, TypeOK', TokenInv, NEW r \in Requests, NEW g \in Grants, ExchangeCode(r, g)
  PROVE  TokenInv'
<1> USE DEF TokenInv
<1>1. PICK a, b : /\ TokenPair(g, 1) = {a, b}
                  /\ a.grant = g /\ a.pair = 1 /\ a.kind = "access" /\ a.used = 0
                  /\ a.expires = now + AccessTTL
                  /\ b.grant = g /\ b.pair = 1 /\ b.kind = "refresh" /\ b.used = 0
                  /\ b.expires = now + RefreshTTL
  BY PairFields
<1>2. tokens' = tokens \cup {a, b} /\ now' = now
  BY <1>1 DEF ExchangeCode
<1>3. g \notin DOMAIN grants
  BY DEF ExchangeCode, ApprovalInv, NothingIsForgotten
<1>4. /\ \A h \in DOMAIN grants : grants'[h] = grants[h]
      /\ grants'[g].created = now /\ grants'[g].revoked = 0 /\ grants'[g].pairs = 1
  BY <1>3 DEF ExchangeCode, Put
<1>5. \A t \in tokens : t.grant # g /\ grants'[t.grant] = grants[t.grant]
  BY <1>3, <1>4, Numbers
<1>6. TokensFit' /\ OneLiveRefreshToken'
  BY <1>1, <1>2, <1>4, <1>5 DEF TokensFit, OneLiveRefreshToken
<1>7. TokensInTime' /\ AccessIsBounded'
  BY <1>1, <1>2, <1>4, <1>5, Numbers, Constants DEF TokensInTime, AccessIsBounded
<1>8. UsedAreFollowed'
  BY <1>1, <1>2 DEF UsedAreFollowed
<1>9. LatestEndsLast'
  <2>1. ASSUME NEW t \in tokens, t.kind = "access"
        PROVE  \E u \in tokens' : /\ u.grant = t.grant /\ u.kind = "access"
                                  /\ u.pair = grants'[t.grant].pairs /\ u.expires >= t.expires
    BY <1>2, <1>5, <2>1 DEF LatestEndsLast
  <2>2. a \in tokens' /\ a.expires >= a.expires
    BY <1>1, <1>2, Numbers, Constants
  <2> QED
    BY <1>1, <1>2, <1>4, <2>1, <2>2 DEF LatestEndsLast
<1> QED
  BY <1>6, <1>7, <1>8, <1>9

LEMMA RotateKeepsTokens ==
  ASSUME ApprovalInv, TypeOK, TypeOK', TokenInv, NEW t \in tokens,
         t.kind = "refresh", t.used = 0, Renewable(t), Rotate(t)
  PROVE  TokenInv'
<1> USE DEF TokenInv
<1> DEFINE g == t.grant
           n == grants[g].pairs + 1
           old == [t EXCEPT !.used = now]
<1>1. PICK a, b : /\ TokenPair(g, n) = {a, b}
                  /\ a.grant = g /\ a.pair = n /\ a.kind = "access" /\ a.used = 0
                  /\ a.expires = now + AccessTTL
                  /\ b.grant = g /\ b.pair = n /\ b.kind = "refresh" /\ b.used = 0
                  /\ b.expires = now + RefreshTTL
  BY PairFields
<1>2. /\ old.grant = g /\ old.pair = t.pair /\ old.kind = "refresh" /\ old.used = now
      /\ old.expires = t.expires
  <2>1. t \in Tokens
    BY DEF TypeOK
  <2> QED
    BY <2>1 DEF Tokens
<1>3. /\ tokens' = {u \in (tokens \ {t}) \cup {old} : u.grant = g => u.expires > now} \cup {a, b}
      /\ now' = now
  BY <1>1 DEF Rotate
<1> HIDE DEF old
<1>4. /\ \A h \in DOMAIN grants : h # g => grants'[h] = grants[h]
      /\ grants'[g].created = grants[g].created /\ grants'[g].revoked = grants[g].revoked
      /\ grants'[g].pairs = n
  <2>1. grants[g] \in GrantRows
    BY DEF TypeOK
  <2> QED
    BY <2>1 DEF Rotate, TypeOK, GrantRows
<1>5. /\ g \in DOMAIN grants /\ n \in Nat /\ n > grants[g].pairs /\ now \in Nat \ {0}
      /\ grants[g].revoked = 0 /\ \A u \in tokens : u.grant = g => u.pair < n
  BY Numbers DEF TokensFit
<1> HIDE DEF n
<1>6. \A u \in tokens' : u \in {a, b, old} \/ u \in tokens \ {t}
  BY <1>3
<1>7. TokensFit'
  <2>1. \A u \in tokens' : u.pair <= grants'[u.grant].pairs /\ grants'[u.grant].revoked = 0
    BY <1>1, <1>2, <1>4, <1>5, <1>6, Numbers DEF TokensFit
  <2>2. \A u, v \in tokens' : u.grant = v.grant /\ u.pair = v.pair /\ u.kind = v.kind => u = v
    BY <1>1, <1>2, <1>5, <1>6, Numbers DEF TokensFit
  <2> QED
    BY <2>1, <2>2 DEF TokensFit
<1>8. OneLiveRefreshToken'
  <2>1. \A u \in tokens \ {t} : u.grant = g /\ u.kind = "refresh" => u.used # 0
    BY DEF TokensFit, OneLiveRefreshToken
  <2> QED
    BY <1>1, <1>2, <1>4, <1>5, <1>6, <2>1, Numbers DEF OneLiveRefreshToken
<1>9. TokensInTime' /\ AccessIsBounded'
  BY <1>1, <1>2, <1>3, <1>4, <1>5, <1>6, Numbers, Constants DEF TokensInTime, AccessIsBounded, Renewable
<1>10. UsedAreFollowed'
  <2>1. b \in tokens' /\ b.expires >= t.expires
    BY <1>1, <1>3, Numbers DEF TokensInTime
  <2>2. ASSUME NEW u \in tokens \ {t}, u \in tokens', u.used # 0
        PROVE  \E v \in tokens' : v.grant = u.grant /\ v.kind = "refresh" /\ v.used = 0 /\ v.expires >= u.expires
    <3>1. PICK v \in tokens : v.grant = u.grant /\ v.kind = "refresh" /\ v.used = 0 /\ v.expires >= u.expires
      BY <2>2 DEF UsedAreFollowed
    <3>2. CASE v = t
      BY <1>1, <2>1, <3>1, <3>2, Numbers, Constants
    <3>3. CASE v # t
      <4>1. u.grant = g => u.expires > now
        BY <1>1, <1>2, <1>3, <1>5, <2>2, Numbers
      <4> QED
        BY <1>3, <3>1, <3>3, <4>1, Numbers
    <3> QED
      BY <3>2, <3>3
  <2> QED
    BY <1>1, <1>2, <1>6, <2>1, <2>2 DEF UsedAreFollowed
<1>11. LatestEndsLast'
  <2>1. a \in tokens' /\ a.expires >= a.expires /\ \A u \in tokens : u.kind = "access" => a.expires >= u.expires
    BY <1>1, <1>3, Numbers, Constants DEF TokensInTime
  <2>2. ASSUME NEW u \in tokens, u.grant # g, u.kind = "access"
        PROVE  \E v \in tokens' : /\ v.grant = u.grant /\ v.kind = "access"
                                  /\ v.pair = grants'[u.grant].pairs /\ v.expires >= u.expires
    BY <1>3, <1>4, <2>2, Numbers DEF LatestEndsLast
  <2> QED
    BY <1>1, <1>2, <1>4, <1>6, <2>1, <2>2 DEF LatestEndsLast
<1> QED
  BY <1>7, <1>8, <1>9, <1>10, <1>11

LEMMA StepTokens == ApprovalInv /\ TokenInv /\ [Next]_vars => TokenInv'
<1> SUFFICES ASSUME ApprovalInv, TokenInv, [Next]_vars PROVE TokenInv'
  OBVIOUS
<1>0. TypeOK /\ TypeOK'
  BY StepTypes DEF ApprovalInv
<1>u. CASE UNCHANGED <<now, grants, tokens>>
  BY <1>u DEF TokenInv, TokensFit, TokensInTime, UsedAreFollowed, LatestEndsLast, OneLiveRefreshToken,
     AccessIsBounded
<1>p. CASE tokens' = KeptTokens /\ grants' = Restrict(grants, KeptGrants) /\ now' = now
  <2>1. \A g \in KeptGrants : grants'[g] = grants[g]
    BY <1>p DEF Restrict
  <2> QED
    BY <1>0, <1>p, <2>1, PruningKeepsTokens
<1>1. ASSUME NEW c \in Clients, CreateClient(c) PROVE TokenInv'
  BY <1>1, <1>u, <1>p DEF CreateClient, tables
<1>2. ASSUME NEW r \in Requests, NEW c \in Clients, CreateRequest(r, c) PROVE TokenInv'
  BY <1>2, <1>u, <1>p DEF CreateRequest, tables
<1>3. ASSUME NEW r \in Requests,
             \/ \E d \in Devices : LookupRequest(d, r)
             \/ \E d \in Devices, approve \in BOOLEAN : DecideRequest(d, r, approve)
             \/ IssueCode(r)
      PROVE  TokenInv'
  BY <1>3, <1>u DEF LookupRequest, DecideRequest, IssueCode, SetRequest
<1>4. ASSUME NEW r \in Requests, NEW g \in Grants, ExchangeCode(r, g) PROVE TokenInv'
  BY <1>0, <1>4, ExchangeKeepsTokens
<1>5. ASSUME NEW g \in DOMAIN grants, RevokeGrantTx(g) PROVE TokenInv'
  BY <1>0, <1>5, RevokeTxKeepsTokens
<1>6. ASSUME NEW t \in tokens, RefreshTokens(t) PROVE TokenInv'
  BY <1>0, <1>5, <1>6, RotateKeepsTokens, Numbers DEF RefreshTokens
<1>7. ASSUME NEW t \in tokens, RevokeToken(t) PROVE TokenInv'
  BY <1>0, <1>5, <1>7, Numbers DEF RevokeToken
<1>8. ASSUME NEW d \in Devices, NEW g \in Grants, RevokeGrant(d, g) PROVE TokenInv'
  BY <1>5, <1>8 DEF RevokeGrant
<1>9. ASSUME NEW by \in Devices, NEW d \in Devices, NEW failed \in BOOLEAN, RevokeDevice(by, d, failed)
      PROVE  TokenInv'
  <2>1. CASE failed
    BY <1>9, <1>u, <2>1 DEF RevokeDevice
  <2>2. CASE ~failed
    <3>1. tokens' = {t \in tokens : t.grant \notin GrantsApprovedBy(d)} /\ now' = now
      BY <1>9, <2>2 DEF RevokeDevice, RevokeDeviceGrants
    <3>2. \A g \in DOMAIN grants \ GrantsApprovedBy(d) : grants'[g] = grants[g]
      BY <1>9, <2>2 DEF RevokeDevice, RevokeDeviceGrants
    <3> QED
      BY <1>0, <3>1, <3>2, RevokingKeepsTokens
  <2> QED
    BY <2>1, <2>2
<1>10. CASE Tick
  <2>1. UNCHANGED <<grants, tokens>> /\ now <= now'
    BY <1>0, <1>10, Numbers DEF Tick, tables
  <2>2. UsedAreFollowed' /\ LatestEndsLast'
    BY <2>1 DEF TokenInv, UsedAreFollowed, LatestEndsLast
  <2> QED
    BY <1>0, <2>1, <2>2, FewerTokens
<1>11. CASE UNCHANGED vars
  BY <1>11, <1>u DEF vars, tables
<1> QED
  BY <1>1, <1>2, <1>3, <1>4, <1>6, <1>7, <1>8, <1>9, <1>10, <1>11 DEF Next

-----------------------------------------------------------------------------
(* The theorems *)

\* The invariant: rows keep their references, approvals are decided once and
\* spent once, tokens of a grant form one line, whatever is pruned, renewed,
\* presented again or revoked around them.
THEOREM GrantsInvariant == Spec => [](ApprovalInv /\ TokenInv)
<1>1. Init => ApprovalInv /\ TokenInv
  BY InitApprovals, InitTokens
<1>2. ApprovalInv /\ TokenInv /\ [Next]_vars => (ApprovalInv /\ TokenInv)'
  BY StepApprovals, StepTokens
<1> QED
  BY <1>1, <1>2, PTL DEF Spec

\* From an approval there is one line of tokens that can be renewed
\* (exchangeCode() and refreshTokens()).
THEOREM OneLine == Spec => []OneLinePerApproval
<1>1. ApprovalInv /\ TokenInv => OneLinePerApproval
  BY DEF ApprovalInv, TokenInv, OneLinePerApproval
<1> QED
  BY <1>1, GrantsInvariant, PTL

\* A request is decided by the device that had last seen it, and its grant is
\* that device's (lookupRequest(), decideRequest(), exchangeCode()).
THEOREM Decisions == Spec => []DecidedByTheLastToLook
<1>1. ApprovalInv /\ TokenInv => DecidedByTheLastToLook
  BY DEF ApprovalInv
<1> QED
  BY <1>1, GrantsInvariant, PTL

\* What a removed device approved takes effect within the life of its request
\* and code, and no later (revokeDeviceGrants() against exchangeCode()).
THEOREM LateGrants == Spec => []LateGrantsAreBounded
<1>1. ApprovalInv /\ TokenInv => LateGrantsAreBounded
  BY DEF ApprovalInv
<1> QED
  BY <1>1, GrantsInvariant, PTL

LEMMA StepRevocation ==
  ASSUME ApprovalInv, TokenInv, [Next]_vars, NEW g \in DOMAIN grants, grants[g].revoked # 0
  PROVE  /\ g \in DOMAIN grants' => grants'[g].revoked = grants[g].revoked
         /\ \A t \in tokens' : t.grant # g
<1> DEFINE Final == /\ g \in DOMAIN grants' => grants'[g].revoked = grants[g].revoked
                    /\ \A t \in tokens' : t.grant # g
<1>0. TypeOK /\ \A t \in tokens : t.grant # g
  BY DEF ApprovalInv, TokenInv, TokensFit
<1>u. CASE UNCHANGED <<grants, tokens>>
  BY <1>0, <1>u
<1>1. CASE tokens' = KeptTokens /\ grants' = Restrict(grants, KeptGrants)
  BY <1>0, <1>1, Pruned DEF Restrict
<1>2. ASSUME NEW r \in Requests, NEW h \in Grants, ExchangeCode(r, h) PROVE Final
  <2>1. h # g /\ g \in DOMAIN grants' /\ grants'[g] = grants[g]
    BY <1>2 DEF ExchangeCode, ApprovalInv, NothingIsForgotten, Put
  <2>2. tokens' = tokens \cup TokenPair(h, 1)
    BY <1>2 DEF ExchangeCode
  <2>3. \A t \in TokenPair(h, 1) : t.grant = h
    BY DEF TokenPair
  <2> QED
    BY <1>0, <2>1, <2>2, <2>3
<1>3. ASSUME NEW h \in DOMAIN grants, RevokeGrantTx(h) PROVE Final
  <2>1. tokens' \subseteq tokens
    BY <1>3 DEF RevokeGrantTx
  <2> QED
    BY <1>0, <1>3, <2>1, RevokeKeepsGrants DEF GrantsKept
<1>4. ASSUME NEW t \in tokens, Rotate(t) PROVE Final
  <2> DEFINE n == grants[t.grant].pairs + 1
  <2>1. \A u \in TokenPair(t.grant, n) : u.grant = t.grant
    BY DEF TokenPair
  <2>2. [t EXCEPT !.used = now].grant = t.grant
    BY <1>0 DEF TypeOK, Tokens
  <2>3. tokens' \subseteq tokens \cup {[t EXCEPT !.used = now]} \cup TokenPair(t.grant, n)
    BY <1>4 DEF Rotate
  <2> QED
    BY <1>0, <1>4, <2>1, <2>2, <2>3, RotateKeepsGrants
<1>5. ASSUME NEW by \in Devices, NEW d \in Devices, NEW failed \in BOOLEAN, RevokeDevice(by, d, failed)
      PROVE  Final
  <2>1. CASE failed
    BY <1>5, <1>u, <2>1 DEF RevokeDevice
  <2>2. CASE ~failed
    <3>1. tokens' \subseteq tokens
      BY <1>5, <2>2 DEF RevokeDevice, RevokeDeviceGrants
    <3> QED
      BY <1>0, <1>5, <2>2, <3>1, RevokeDeviceKeepsGrants DEF RevokeDevice, GrantsKept
  <2> QED
    BY <2>1, <2>2
<1> HIDE DEF Final
<1>6. CASE UNCHANGED vars
  BY <1>u, <1>6 DEF Final, vars, tables
<1>7. ASSUME NEW c \in Clients, CreateClient(c) PROVE Final
  BY <1>1, <1>7, <1>u DEF Final, CreateClient, tables
<1>8. ASSUME NEW r \in Requests, NEW c \in Clients, CreateRequest(r, c) PROVE Final
  BY <1>1, <1>8, <1>u DEF Final, CreateRequest, tables
<1>9. ASSUME NEW r \in Requests,
             \/ \E d \in Devices : LookupRequest(d, r)
             \/ \E d \in Devices, approve \in BOOLEAN : DecideRequest(d, r, approve)
             \/ IssueCode(r)
      PROVE  Final
  BY <1>9, <1>u DEF Final, LookupRequest, DecideRequest, IssueCode, SetRequest
<1>10. ASSUME NEW t \in tokens, RefreshTokens(t) \/ RevokeToken(t) PROVE Final
  BY <1>0, <1>3, <1>4, <1>10, Numbers DEF RefreshTokens, RevokeToken
<1>11. ASSUME NEW d \in Devices, NEW h \in Grants, RevokeGrant(d, h) PROVE Final
  BY <1>3, <1>11 DEF RevokeGrant
<1>12. CASE Tick
  BY <1>u, <1>12 DEF Final, Tick, tables
<1> QED
  BY <1>2, <1>5, <1>6, <1>7, <1>8, <1>9, <1>10, <1>11, <1>12 DEF Next, Final

\* A revoked grant never comes back, and no token is issued for it again
\* (revokeGrantTx(), revokeDeviceGrants()).
THEOREM Revocation == Spec => RevocationIsFinal
<1>1. ApprovalInv /\ TokenInv /\ [Next]_vars =>
        [\A g \in DOMAIN grants :
           grants[g].revoked # 0 =>
             /\ g \in DOMAIN grants' => grants'[g].revoked = grants[g].revoked
             /\ \A t \in tokens' : t.grant # g]_vars
  BY StepRevocation
<1> QED
  BY <1>1, GrantsInvariant, PTL DEF Spec, RevocationIsFinal

-----------------------------------------------------------------------------
(* The list of grants *)

LEMMA LatestIsGreatest ==
  ASSUME NEW times \in SUBSET Nat, NEW m \in times, \A x \in times : x <= m
  PROVE  Latest(times) = m
<1> DEFINE c == CHOOSE x \in times : \A y \in times : y <= x
<1>1. c \in times /\ \A y \in times : y <= c
  OBVIOUS
<1>2. Latest(times) = c
  BY DEF Latest
<1> HIDE DEF c
<1> QED
  BY <1>1, <1>2

LEMMA LatestOfTwo ==
  ASSUME NEW x \in Nat, NEW y \in Nat
  PROVE  Latest({x, y}) = IF x < y THEN y ELSE x
<1>1. CASE x < y
  BY <1>1, LatestIsGreatest, {x, y} \in SUBSET Nat, y \in {x, y}, \A z \in {x, y} : z <= y
<1>2. CASE ~(x < y)
  BY <1>2, LatestIsGreatest, {x, y} \in SUBSET Nat, x \in {x, y}, \A z \in {x, y} : z <= x
<1> QED
  BY <1>1, <1>2

\* When the last refresh token expires, and when the last access token does.
LEMMA LatestExpiries ==
  ASSUME ApprovalInv, TokenInv, NEW g \in DOMAIN grants, NEW kind \in {"access", "refresh"}
  PROVE  LET good == {u \in tokens : u.grant = g /\ u.kind = kind /\ u.used = 0 /\ u.expires > now}
             l == Latest(Expiries(g, kind))
         IN  /\ good = {} => l = 0
             /\ \A t \in good : t.expires <= l
             /\ good # {} => \E t \in good : t.expires = l
<1> DEFINE good == {u \in tokens : u.grant = g /\ u.kind = kind /\ u.used = 0 /\ u.expires > now}
<1>0. TypeOK
  BY DEF ApprovalInv
<1>1. Expiries(g, kind) = {t.expires : t \in good} /\ Expiries(g, kind) \in SUBSET Nat
  BY <1>0, Numbers DEF Expiries
<1>2. CASE good = {}
  BY <1>1, <1>2 DEF Latest
<1>3. CASE good # {}
  <2>1. PICK m \in good : \A t \in good : t.expires <= m.expires
    <3>1. CASE kind = "refresh"
      <4>1. PICK t \in good : TRUE
        BY <1>3
      <4>2. \A u \in good : u = t
        BY <1>0, <3>1, Numbers DEF TokenInv, TokensFit, OneLiveRefreshToken
      <4> QED
        BY <1>0, <4>1, <4>2, Numbers
    <3>2. CASE kind = "access"
      <4>1. \A t \in good : \E u \in good : u.pair = grants[g].pairs /\ u.expires >= t.expires
        <5> SUFFICES ASSUME NEW t \in good
                     PROVE  \E u \in good : u.pair = grants[g].pairs /\ u.expires >= t.expires
          OBVIOUS
        <5>1. PICK u \in tokens : /\ u.grant = g /\ u.kind = "access"
                                  /\ u.pair = grants[g].pairs /\ u.expires >= t.expires
          BY <3>2 DEF TokenInv, LatestEndsLast
        <5>2. u.used = 0 /\ u.expires > now
          BY <1>0, <5>1, Numbers DEF TokenInv, TokensInTime
        <5> QED
          BY <3>2, <5>1, <5>2
      <4>2. PICK m \in good : m.pair = grants[g].pairs
        BY <1>3, <4>1
      <4>3. \A u \in good : u.pair = grants[g].pairs => u = m
        BY <4>2 DEF TokenInv, TokensFit
      <4> QED
        BY <4>1, <4>2, <4>3
    <3> QED
      BY <3>1, <3>2
  <2>2. Latest(Expiries(g, kind)) = m.expires
    BY <1>1, <2>1, LatestIsGreatest
  <2> QED
    BY <1>3, <2>1, <2>2
<1> QED
  BY <1>2, <1>3

LEMMA Listing == ApprovalInv /\ TokenInv => ListingIsComplete
<1> SUFFICES ASSUME ApprovalInv, TokenInv, NEW g \in DOMAIN grants
             PROVE  /\ Listed(g) => Usable(g)
                    /\ Usable(g) => Listed(g) \/ now = grants[g].created + MaxLifetime
  BY DEF ListingIsComplete
<1> DEFINE r == Latest(Expiries(g, "refresh"))
           a == Latest(Expiries(g, "access"))
           end == grants[g].created + MaxLifetime
<1>0. TypeOK /\ now \in Nat \ {0} /\ end \in Nat
  BY Numbers, Constants DEF ApprovalInv
<1>1. /\ r \in Nat
      /\ r > now => \E t \in tokens : t.grant = g /\ t.kind = "refresh" /\ t.used = 0 /\ t.expires > now
      /\ \A t \in tokens : t.grant = g /\ t.kind = "refresh" /\ t.used = 0 /\ t.expires > now => r > now
  BY <1>0, LatestExpiries, Numbers
<1>2. /\ a \in Nat
      /\ a > now => \E t \in tokens : t.grant = g /\ t.kind = "access" /\ t.used = 0 /\ t.expires > now
      /\ \A t \in tokens : t.grant = g /\ t.kind = "access" /\ t.used = 0 /\ t.expires > now => a > now
  BY <1>0, LatestExpiries, Numbers
<1>3. UsableUntil(g) = Latest({Earlier(r, end), a})
  BY DEF UsableUntil
<1> HIDE DEF r, a, end
<1>4. UsableUntil(g) > now <=> (r > now /\ end > now) \/ a > now
  <2>1. Earlier(r, end) \in Nat /\ (Earlier(r, end) > now <=> r > now /\ end > now)
    BY <1>0, <1>1 DEF Earlier
  <2> QED
    BY <1>0, <1>2, <1>3, <2>1, LatestOfTwo
<1>5. Listed(g) <=> grants[g].revoked = 0 /\ ((r > now /\ end > now) \/ a > now)
  BY <1>4 DEF Listed, ActiveGrants
<1>6. \A t \in tokens : t.kind = "access" => t.used = 0
  BY DEF TokenInv, TokensInTime
<1>7. /\ grants[g].revoked = 0 /\ a > now => Usable(g)
      /\ \A t \in tokens : t.grant = g /\ Admits(t) => grants[g].revoked = 0 /\ a > now
  BY <1>2, <1>6 DEF Usable, Admits
<1>8. /\ grants[g].revoked = 0 /\ r > now /\ end >= now => Usable(g)
      /\ \A t \in tokens : t.grant = g /\ t.kind = "refresh" /\ t.used = 0 /\ Renewable(t) /\ g \in ActiveGrants =>
           grants[g].revoked = 0 /\ r > now /\ end >= now
  BY <1>0, <1>1 DEF Usable, Renewable, ActiveGrants, end
<1>9. Listed(g) => Usable(g)
  BY <1>0, <1>5, <1>7, <1>8
<1>10. Usable(g) => Listed(g) \/ now = end
  BY <1>0, <1>5, <1>7, <1>8 DEF Usable
<1> QED
  BY <1>9, <1>10 DEF end

\* Access ends, and until then the person who gave it sees it in the list
\* (refreshTokens(), listGrants()).
THEOREM Access == Spec => []AccessIsAccountedFor
<1>1. ApprovalInv /\ TokenInv => AccessIsAccountedFor
  BY Listing DEF TokenInv, AccessIsAccountedFor
<1> QED
  BY <1>1, GrantsInvariant, PTL

-----------------------------------------------------------------------------
(* Pruning *)

\* One step of PruningIsHarmless.
LiveStays ==
  /\ \A r \in DOMAIN requests : Awaited(r) => r \in DOMAIN requests' /\ requests[r].client \in DOMAIN clients'
  /\ \A t \in tokens :
       t.used = 0 /\ t.expires > now /\ t \notin tokens' =>
          \/ t.kind = "refresh" /\ [t EXCEPT !.used = now] \in tokens'
          \/ t.grant \in DOMAIN grants' /\ grants'[t.grant].revoked # 0

EvidenceStays ==
  \A t \in tokens :
    t.used # 0 /\ t \notin tokens' =>
       \/ t.expires <= now
       \/ now > t.used + UsedRetention
       \/ t.grant \in DOMAIN grants' /\ grants'[t.grant].revoked # 0

\* The rows that pruning leaves: a code ends within PruneSlack of its request,
\* and a grant with a used token that counts has one that is not used.
LEMMA PrunedWell ==
  ASSUME ApprovalInv, TokenInv
  PROVE  /\ \A r \in DOMAIN requests : Awaited(r) => r \in KeptRequests /\ requests[r].client \in KeptClients
         /\ \A t \in tokens : t.used = 0 /\ t.expires > now => t \in KeptTokens
         /\ \A t \in tokens : t.used # 0 /\ t.expires > now /\ ~(now > t.used + UsedRetention) => t \in KeptTokens
<1>0. TypeOK /\ now \in Nat
  BY Numbers DEF ApprovalInv
<1>1. ASSUME NEW r \in DOMAIN requests, Awaited(r)
      PROVE  r \in KeptRequests /\ requests[r].client \in KeptClients
  <2>1. requests[r].codeExpires < requests[r].expires + CodeTTL
    BY DEF ApprovalInv, RequestsInTime
  <2>2. r \in KeptRequests
    BY <1>0, <1>1, <2>1, Numbers, Constants DEF Awaited, KeptRequests
  <2> QED
    BY <1>0, <2>2, Pruned
<1>2. ASSUME NEW t \in tokens, t.used = 0, t.expires > now PROVE t \in KeptTokens
  <2>1. t \in UnexpiredTokens
    BY <1>0, <1>2, Numbers DEF UnexpiredTokens
  <2>2. t.grant \in KeptGrants
    BY <1>0, <1>2, <2>1, Numbers DEF KeptGrants, TokenInv, TokensFit
  <2> QED
    BY <2>1, <2>2 DEF KeptTokens
<1>3. ASSUME NEW t \in tokens, t.used # 0, t.expires > now, ~(now > t.used + UsedRetention)
      PROVE  t \in KeptTokens
  <2>1. t \in UnexpiredTokens
    BY <1>0, <1>3, Numbers, Constants DEF UnexpiredTokens
  <2>2. PICK u \in tokens : u.grant = t.grant /\ u.used = 0 /\ u.expires >= t.expires
    BY <1>3 DEF TokenInv, UsedAreFollowed
  <2>3. u \in KeptTokens
    BY <1>0, <1>2, <1>3, <2>2, Numbers
  <2> QED
    BY <2>1, <2>2, <2>3 DEF KeptTokens
<1> QED
  BY <1>1, <1>2, <1>3

LEMMA StepPruning ==
  ASSUME ApprovalInv, TokenInv, [Next]_vars
  PROVE  LiveStays /\ EvidenceStays
<1> DEFINE Harmless == LiveStays /\ EvidenceStays
<1>0. TypeOK /\ now \in Nat \ {0}
  BY Numbers DEF ApprovalInv
<1>1. \A r \in DOMAIN requests : requests[r].client \in DOMAIN clients
  BY <1>0 DEF TypeOK
<1>u. CASE UNCHANGED tokens /\ DOMAIN requests' = DOMAIN requests /\ DOMAIN clients \subseteq DOMAIN clients'
  BY <1>1, <1>u DEF LiveStays, EvidenceStays
<1>p. CASE KeptRequests \subseteq DOMAIN requests' /\ KeptClients \subseteq DOMAIN clients' /\ tokens' = KeptTokens
  BY <1>0, <1>p, PrunedWell, Numbers, Constants DEF LiveStays, EvidenceStays
<1>2. ASSUME NEW h \in DOMAIN grants, RevokeGrantTx(h) PROVE Harmless
  <2>1. tokens' = {t \in tokens : t.grant # h} /\ UNCHANGED <<requests, clients>>
    BY <1>2 DEF RevokeGrantTx
  <2>2. h \in DOMAIN grants' /\ grants'[h].revoked # 0
    BY <1>0, <1>2, RevokeKeepsGrants DEF GrantsKept
  <2> QED
    BY <1>1, <2>1, <2>2 DEF LiveStays, EvidenceStays
<1>3. ASSUME NEW t \in tokens, t.kind = "refresh", t.used = 0, Renewable(t), Rotate(t) PROVE Harmless
  <2> DEFINE old == [t EXCEPT !.used = now]
  <2>1. old.grant = t.grant /\ old.expires = t.expires
    BY <1>0 DEF TypeOK, Tokens
  <2>2. /\ \A u \in tokens \ {t} : (u.grant = t.grant => u.expires > now) => u \in tokens'
        /\ (old.grant = t.grant => old.expires > now) => old \in tokens'
        /\ UNCHANGED <<requests, clients>>
    BY <1>3 DEF Rotate
  <2>3. old \in tokens'
    BY <1>3, <2>1, <2>2 DEF Renewable
  <2> HIDE DEF old
  <2>4. LiveStays
    BY <1>1, <1>3, <2>2, <2>3 DEF LiveStays, old
  <2>5. EvidenceStays
    BY <1>0, <1>3, <2>2, Numbers DEF EvidenceStays
  <2> QED
    BY <2>4, <2>5
<1>4. ASSUME NEW by \in Devices, NEW d \in Devices, NEW failed \in BOOLEAN, RevokeDevice(by, d, failed)
      PROVE  Harmless
  <2>1. CASE failed
    BY <1>4, <1>u, <2>1 DEF RevokeDevice
  <2>2. CASE ~failed
    <3>1. /\ tokens' = {t \in tokens : t.grant \notin GrantsApprovedBy(d)}
          /\ UNCHANGED <<requests, clients>>
      BY <1>4, <2>2 DEF RevokeDevice, RevokeDeviceGrants
    <3>2. \A g \in GrantsApprovedBy(d) : g \in DOMAIN grants' /\ grants'[g].revoked # 0
      BY <1>0, <1>4, <2>2, RevokeDeviceKeepsGrants DEF RevokeDevice, GrantsKept, GrantsApprovedBy
    <3> QED
      BY <1>1, <3>1, <3>2 DEF LiveStays, EvidenceStays
  <2> QED
    BY <2>1, <2>2
<1> HIDE DEF Harmless
<1>5. CASE UNCHANGED vars
  BY <1>u, <1>5 DEF Harmless, vars, tables
<1>6. ASSUME NEW c \in Clients, CreateClient(c) PROVE Harmless
  <2>1. CASE UNCHANGED tables
    BY <1>u, <2>1 DEF Harmless, tables
  <2>2. CASE /\ clients' = Put(Restrict(clients, KeptClients), c, now)
             /\ requests' = Restrict(requests, KeptRequests) /\ tokens' = KeptTokens
    BY <1>p, <2>2 DEF Harmless, Put, Restrict
  <2> QED
    BY <1>6, <2>1, <2>2 DEF CreateClient
<1>7. ASSUME NEW r \in Requests, NEW c \in Clients, CreateRequest(r, c) PROVE Harmless
  <2>1. CASE UNCHANGED tables
    BY <1>u, <2>1 DEF Harmless, tables
  <2>2. CASE /\ requests' = Put(Restrict(requests, KeptRequests), r, NewRequest(c))
             /\ clients' = Restrict(clients, KeptClients) /\ tokens' = KeptTokens
    BY <1>p, <2>2 DEF Harmless, Put, Restrict
  <2> QED
    BY <1>7, <2>1, <2>2 DEF CreateRequest
<1>8. ASSUME NEW r \in Requests,
             \/ \E d \in Devices : LookupRequest(d, r)
             \/ \E d \in Devices, approve \in BOOLEAN : DecideRequest(d, r, approve)
             \/ IssueCode(r)
      PROVE  Harmless
  <2>1. DOMAIN requests' = DOMAIN requests /\ UNCHANGED <<clients, tokens>>
    BY <1>8 DEF LookupRequest, DecideRequest, IssueCode, SetRequest
  <2> QED
    BY <1>u, <2>1 DEF Harmless
<1>9. ASSUME NEW r \in Requests, NEW g \in Grants, ExchangeCode(r, g) PROVE Harmless
  <2>1. DOMAIN requests' = DOMAIN requests /\ UNCHANGED clients /\ tokens \subseteq tokens'
    BY <1>9 DEF ExchangeCode
  <2> QED
    BY <1>1, <2>1 DEF Harmless, LiveStays, EvidenceStays
<1>10. ASSUME NEW t \in tokens, RefreshTokens(t) \/ RevokeToken(t) PROVE Harmless
  BY <1>0, <1>2, <1>3, <1>10, Numbers DEF RefreshTokens, RevokeToken
<1>11. ASSUME NEW d \in Devices, NEW h \in Grants, RevokeGrant(d, h) PROVE Harmless
  BY <1>2, <1>11 DEF RevokeGrant
<1>12. CASE Tick
  BY <1>u, <1>12 DEF Harmless, Tick, tables
<1> QED
  BY <1>4, <1>5, <1>6, <1>7, <1>8, <1>9, <1>10, <1>11, <1>12 DEF Next, Harmless

\* Pruning deletes nothing of use, neither to the one who holds it nor against
\* the one who stole it (pruneTx).
THEOREM Pruning == Spec => PruningIsHarmless
<1>1. ApprovalInv /\ TokenInv /\ [Next]_vars => [LiveStays /\ EvidenceStays]_vars
  BY StepPruning
<1>2. Spec => [][LiveStays /\ EvidenceStays]_vars
  BY <1>1, GrantsInvariant, PTL DEF Spec
<1>3. Spec => [][LiveStays]_vars /\ [][EvidenceStays]_vars
  BY <1>2, PTL
<1> QED
  BY <1>3 DEF PruningIsHarmless, NothingLiveIsPruned, ReuseStaysDetectable, LiveStays, EvidenceStays
=============================================================================
