----------------------------- MODULE OAuthGrants -----------------------------
(***************************************************************************)
(* relay/src/oauth-store.mjs with its callers in oauth.mjs (the HTTP       *)
(* endpoints) and plugin-gateway.mjs (the plugin's calls): how an AI app   *)
(* registers, asks for access, is approved from a Figma plugin, exchanges  *)
(* its code for tokens, refreshes them, and loses access again.            *)
(*                                                                         *)
(* Every operation is a synchronous SQLite transaction inside one handler, *)
(* so it is one action. Time is in whole seconds of an arbitrary size and  *)
(* starts at 1: 0 is the database's "not set". A random identifier or hash *)
(* is a model value that is drawn once. What a caller must know to make a  *)
(* call (a secret, a code, a PKCE verifier) is known to the right caller,  *)
(* and the rate limits only refuse calls, so they are left out, as is      *)
(* last_used_at, which nothing but the order of the listing depends on.    *)
(***************************************************************************)
EXTENDS Naturals, FiniteSets, Functions

CONSTANTS
  Clients,          \* client ids of registered AI apps
  Requests,         \* authorization requests
  Grants,           \* grant ids
  Devices,          \* plugin installations of the relay
  Accounts,
  AccountOf,        \* the account each device belongs to
  Addresses,
  AddressOf,        \* the network address each request is made from
  NoDevice,         \* '' in looked_up_by_device and decided_by_device
  MaxClients, MaxPending, MaxPendingPerAddress,
  RequestTTL, CodeTTL, AccessTTL, RefreshTTL, MaxLifetime, ReuseGrace,
  PruneSlack,       \* HOUR_SECONDS in pruneTx
  UsedRetention, RevokedRetention, ClientRetention,
  MaxTime,          \* bound: the last moment of the model
  MaxPairs          \* bound: token pairs per grant

ASSUME OAuthAssumption ==
  /\ AccountOf \in [Devices -> Accounts]
  /\ AddressOf \in [Requests -> Addresses]
  /\ NoDevice \notin Devices
  /\ {MaxClients, MaxPending, MaxPendingPerAddress} \subseteq Nat
  /\ {RequestTTL, CodeTTL, AccessTTL, RefreshTTL, MaxTime, MaxPairs} \subseteq Nat \ {0}
  /\ {MaxLifetime, ReuseGrace, PruneSlack, UsedRetention, RevokedRetention,
      ClientRetention} \subseteq Nat
  /\ CodeTTL <= PruneSlack
  /\ IsFiniteSet(Requests) /\ IsFiniteSet(Clients)

VARIABLES
  now,
  drawn,      \* the identifiers that were ever drawn
  clients,    \* oauth_clients: created_at by client_id
  requests,   \* oauth_requests by id
  grants,     \* oauth_grants by id
  tokens,     \* oauth_tokens
  revokedAt,  \* relay_devices.revoked_at, 0 while the device is active
  unfinished  \* history: devices whose removal failed before their grants were revoked

tables == <<clients, requests, grants, tokens>>
vars == <<now, drawn, tables, revokedAt, unfinished>>

Times == 0 .. MaxTime + RequestTTL + CodeTTL + AccessTTL + RefreshTTL

RequestRows ==
  [client : Clients, status : {"pending", "approved", "denied", "exchanged"},
   lookedUpBy : Devices \cup {NoDevice}, decidedBy : Devices \cup {NoDevice},
   codeExpires : Times, created : Times, expires : Times]

\* request and pairs are history: which request the grant came from, and how
\* many token pairs were issued for it.
GrantRows ==
  [client : Clients, device : Devices, created : Times, revoked : Times,
   request : Requests, pairs : 0 .. MaxPairs]

\* pair tells a token from the others of its grant, as its hash does.
Tokens ==
  [grant : Grants, pair : 1 .. MaxPairs, kind : {"access", "refresh"}, expires : Times, used : Times]

Init ==
  /\ now = 1
  /\ drawn = {}
  /\ clients = <<>>
  /\ requests = <<>>
  /\ grants = <<>>
  /\ tokens = {}
  /\ revokedAt = [d \in Devices |-> 0]
  /\ unfinished = {}

Put(table, key, row) == [k \in DOMAIN table \cup {key} |-> IF k = key THEN row ELSE table[k]]

Active(d) == revokedAt[d] = 0

-----------------------------------------------------------------------------
(* pruneTx: every row it leaves. Its deletions run in this order, each on   *)
(* what the earlier ones left, and deleting a grant deletes its tokens.      *)

\* Mutant: the HOUR that is left to redeem a code is forgotten.
KeptRequests_NoSlack ==
  {r \in DOMAIN requests :
     /\ requests[r].expires > now
     /\ requests[r].status \in {"denied", "exchanged"} => requests[r].created + PruneSlack >= now}

KeptRequests ==
  {r \in DOMAIN requests :
     /\ requests[r].expires + PruneSlack >= now
     /\ requests[r].status \in {"denied", "exchanged"} => requests[r].created + PruneSlack >= now}

UnexpiredTokens ==
  {t \in tokens : t.expires >= now /\ (t.used # 0 => t.used + UsedRetention >= now)}

KeptGrants ==
  {g \in DOMAIN grants :
     IF grants[g].revoked = 0
     THEN \E t \in UnexpiredTokens : t.grant = g /\ t.used = 0
     ELSE grants[g].revoked + RevokedRetention >= now}

KeptTokens == {t \in UnexpiredTokens : t.grant \in KeptGrants}

KeptClients ==
  {c \in DOMAIN clients :
     \/ clients[c] + ClientRetention >= now
     \/ \E g \in KeptGrants : grants[g].client = c /\ grants[g].revoked = 0
     \/ \E r \in KeptRequests : requests[r].client = c}

-----------------------------------------------------------------------------
(* The AI app registers and asks for access *)

\* createClient(), from the registration endpoint: it prunes, and rolls that
\* back too when the limit is reached.
CreateClient(c) ==
  /\ c \notin drawn
  /\ drawn' = drawn \cup {c}
  /\ IF Cardinality(KeptClients) < MaxClients
     THEN /\ clients' = Put(Restrict(clients, KeptClients), c, now)
          /\ requests' = Restrict(requests, KeptRequests)
          /\ grants' = Restrict(grants, KeptGrants)
          /\ tokens' = KeptTokens
     ELSE UNCHANGED tables
  /\ UNCHANGED <<now, revokedAt, unfinished>>

PendingAmong(rs) == {r \in rs : requests[r].status = "pending" /\ requests[r].expires > now}

WithinLimits(r) ==
  /\ Cardinality(PendingAmong(KeptRequests)) < MaxPending
  /\ Cardinality({q \in PendingAmong(KeptRequests) : AddressOf[q] = AddressOf[r]}) < MaxPendingPerAddress

NewRequest(c) ==
  [client |-> c, status |-> "pending", lookedUpBy |-> NoDevice, decidedBy |-> NoDevice,
   codeExpires |-> 0, created |-> now, expires |-> now + RequestTTL]

\* createRequest(), from the authorization endpoint, which found the client
\* registered. The same transaction prunes first, and when that removes the
\* very client, the insert breaks its foreign key: everything is rolled back.
CreateRequest(r, c) ==
  /\ c \in DOMAIN clients
  /\ r \notin drawn
  /\ drawn' = drawn \cup {r}
  /\ IF WithinLimits(r) /\ c \in KeptClients
     THEN /\ requests' = Put(Restrict(requests, KeptRequests), r, NewRequest(c))
          /\ clients' = Restrict(clients, KeptClients)
          /\ grants' = Restrict(grants, KeptGrants)
          /\ tokens' = KeptTokens
     ELSE UNCHANGED tables
  /\ UNCHANGED <<now, revokedAt, unfinished>>

-----------------------------------------------------------------------------
(* A person approves it from the plugin *)

SetRequest(r, row) ==
  /\ requests' = [requests EXCEPT ![r] = row]
  /\ UNCHANGED <<now, drawn, clients, grants, tokens, revokedAt, unfinished>>

\* Mutant: a request that was decided is looked up.
LookupRequest_Decided(d, r) ==
  /\ Active(d)
  /\ r \in DOMAIN requests
  /\ requests[r].expires > now
  /\ SetRequest(r, [requests[r] EXCEPT !.lookedUpBy = d])

\* lookupRequest(), approval.lookup: someone typed the code the page shows.
\* Any device may, and the last one to do so may decide.
LookupRequest(d, r) ==
  /\ Active(d)
  /\ r \in DOMAIN requests
  /\ requests[r].status = "pending"
  /\ requests[r].expires > now
  /\ SetRequest(r, [requests[r] EXCEPT !.lookedUpBy = d])

\* decideRequest(), approval.decide.
DecideRequest(d, r, approve) ==
  /\ Active(d)
  /\ r \in DOMAIN requests
  /\ requests[r].status = "pending"
  /\ requests[r].expires > now
  /\ requests[r].lookedUpBy = d
  /\ SetRequest(r, [requests[r] EXCEPT !.status = IF approve THEN "approved" ELSE "denied",
                                       !.decidedBy = d])

\* Mutant: a code is issued for a request that expired.
IssueCode_Late(r) ==
  /\ r \in DOMAIN requests
  /\ requests[r].status = "approved"
  /\ requests[r].codeExpires = 0
  /\ SetRequest(r, [requests[r] EXCEPT !.codeExpires = now + CodeTTL])

\* issueCode(), when the page that polls finds its request approved.
IssueCode(r) ==
  /\ r \in DOMAIN requests
  /\ requests[r].status = "approved"
  /\ requests[r].codeExpires = 0
  /\ requests[r].expires > now
  /\ SetRequest(r, [requests[r] EXCEPT !.codeExpires = now + CodeTTL])

-----------------------------------------------------------------------------
(* The AI app uses its access *)

\* newTokenPair()
TokenPair(g, n) ==
  {[grant |-> g, pair |-> n, kind |-> "access", expires |-> now + AccessTTL, used |-> 0],
   [grant |-> g, pair |-> n, kind |-> "refresh", expires |-> now + RefreshTTL, used |-> 0]}

\* authenticateClient(): whose row was pruned cannot make any call.
Authenticates(c) == c \in DOMAIN clients

\* What the token endpoint checks of a code before it opens the transaction,
\* which checks the same again.
Redeemable(r) ==
  /\ r \in DOMAIN requests
  /\ Authenticates(requests[r].client)
  /\ requests[r].status = "approved"
  /\ requests[r].codeExpires > now

\* exchangeCode(): the app presents the code, at any time and any number of
\* times; all but the first are refused.
ExchangeCode(r, g) ==
  /\ Redeemable(r)
  /\ g \notin drawn
  /\ drawn' = drawn \cup {g}
  /\ requests' = [requests EXCEPT ![r].status = "exchanged"]
  /\ grants' = Put(grants, g, [client |-> requests[r].client, device |-> requests[r].decidedBy,
                               created |-> now, revoked |-> 0, request |-> r, pairs |-> 1])
  /\ tokens' = tokens \cup TokenPair(g, 1)
  /\ UNCHANGED <<now, clients, revokedAt, unfinished>>

\* Mutant: only the access tokens are deleted.
RevokeGrantTx_KeepsRefresh(g) ==
  /\ grants' = IF grants[g].revoked = 0 THEN [grants EXCEPT ![g].revoked = now] ELSE grants
  /\ tokens' = {t \in tokens : t.grant # g \/ t.kind = "refresh"}
  /\ UNCHANGED <<now, drawn, clients, requests, revokedAt, unfinished>>

\* revokeGrantTx()
RevokeGrantTx(g) ==
  /\ grants' = IF grants[g].revoked = 0 THEN [grants EXCEPT ![g].revoked = now] ELSE grants
  /\ tokens' = {t \in tokens : t.grant # g}
  /\ UNCHANGED <<now, drawn, clients, requests, revokedAt, unfinished>>

\* Mutant: renewals have no end.
Renewable_ForEver(t) == t.expires > now

\* refreshTokens() refuses a token that is too old, or whose grant is.
Renewable(t) ==
  /\ t.expires > now
  /\ now <= grants[t.grant].created + MaxLifetime

\* Mutant: the presented token is not used up.
Rotate_KeepsOld(t) ==
  LET g == t.grant
      n == grants[g].pairs + 1
  IN
  /\ n <= MaxPairs
  /\ grants' = [grants EXCEPT ![g].pairs = n]
  /\ tokens' = {u \in tokens : u.grant = g => u.expires > now} \cup TokenPair(g, n)
  /\ UNCHANGED <<now, drawn, clients, requests, revokedAt, unfinished>>

Rotate(t) ==
  LET g == t.grant
      n == grants[g].pairs + 1
  IN
  /\ n <= MaxPairs
  /\ grants' = [grants EXCEPT ![g].pairs = n]
  /\ tokens' = {u \in (tokens \ {t}) \cup {[t EXCEPT !.used = now]} : u.grant = g => u.expires > now}
               \cup TokenPair(g, n)
  /\ UNCHANGED <<now, drawn, clients, requests, revokedAt, unfinished>>

\* refreshTokens(): any refresh token the store still knows may be presented,
\* a used one again, by the app or by whoever copied it.
RefreshTokens(t) ==
  /\ t \in tokens
  /\ t.kind = "refresh"
  /\ Authenticates(grants[t.grant].client)
  /\ grants[t.grant].revoked = 0
  /\ IF t.used # 0
     THEN /\ now > t.used + ReuseGrace
          /\ RevokeGrantTx(t.grant)
     ELSE /\ Renewable(t)
          /\ Rotate(t)

\* revokeToken(), from the revocation endpoint.
RevokeToken(t) ==
  /\ t \in tokens
  /\ Authenticates(grants[t.grant].client)
  /\ RevokeGrantTx(t.grant)

\* verifyAccessToken(), which admits an MCP request.
Admits(t) ==
  /\ t \in tokens
  /\ t.kind = "access"
  /\ t.expires > now
  /\ grants[t.grant].revoked = 0

-----------------------------------------------------------------------------
(* The account's devices take access back *)

\* revokeGrant(), grants.revoke: from any device of the grant's account.
RevokeGrant(d, g) ==
  /\ Active(d)
  /\ g \in DOMAIN grants
  /\ AccountOf[grants[g].device] = AccountOf[d]
  /\ grants[g].revoked = 0
  /\ RevokeGrantTx(g)

GrantsApprovedBy(d) == {g \in DOMAIN grants : grants[g].device = d}

\* revokeDeviceGrants()
RevokeDeviceGrants(d) ==
  /\ tokens' = {t \in tokens : t.grant \notin GrantsApprovedBy(d)}
  /\ grants' = [g \in DOMAIN grants |->
                  IF g \in GrantsApprovedBy(d) /\ grants[g].revoked = 0
                  THEN [grants[g] EXCEPT !.revoked = now] ELSE grants[g]]

\* devices.revoke: the device and its grants are revoked in two transactions.
\* The second may fail, or the process may end before it; it is then never made
\* up for, because revoking the device again changes no row.
RevokeDevice(by, d, failed) ==
  /\ Active(by)
  /\ Active(d)
  /\ AccountOf[by] = AccountOf[d]
  /\ revokedAt' = [revokedAt EXCEPT ![d] = now]
  /\ IF failed
     THEN /\ unfinished' = unfinished \cup {d}
          /\ UNCHANGED <<grants, tokens>>
     ELSE /\ RevokeDeviceGrants(d)
          /\ UNCHANGED unfinished
  /\ UNCHANGED <<now, drawn, clients, requests>>

-----------------------------------------------------------------------------

Tick ==
  /\ now < MaxTime
  /\ now' = now + 1
  /\ UNCHANGED <<drawn, tables, revokedAt, unfinished>>

Next ==
  \/ \E c \in Clients : CreateClient(c)
  \/ \E r \in Requests, c \in Clients : CreateRequest(r, c)
  \/ \E d \in Devices, r \in Requests : LookupRequest(d, r)
  \/ \E d \in Devices, r \in Requests, approve \in BOOLEAN : DecideRequest(d, r, approve)
  \/ \E r \in Requests : IssueCode(r)
  \/ \E r \in Requests, g \in Grants : ExchangeCode(r, g)
  \/ \E t \in tokens : RefreshTokens(t)
  \/ \E t \in tokens : RevokeToken(t)
  \/ \E d \in Devices, g \in Grants : RevokeGrant(d, g)
  \/ \E by, d \in Devices, failed \in BOOLEAN : RevokeDevice(by, d, failed)
  \/ Tick

Spec == Init /\ [][Next]_vars

-----------------------------------------------------------------------------
(* Properties *)

\* The type invariant, with the foreign keys of the schema.
TypeOK ==
  /\ now \in 1 .. MaxTime
  /\ drawn \subseteq Clients \cup Requests \cup Grants
  /\ clients \in [DOMAIN clients -> Times] /\ DOMAIN clients \subseteq Clients
  /\ requests \in [DOMAIN requests -> RequestRows] /\ DOMAIN requests \subseteq Requests
  /\ grants \in [DOMAIN grants -> GrantRows] /\ DOMAIN grants \subseteq Grants
  /\ tokens \subseteq Tokens
  /\ revokedAt \in [Devices -> Times]
  /\ unfinished \subseteq Devices
  /\ \A t \in tokens : t.grant \in DOMAIN grants
  /\ \A r \in DOMAIN requests : requests[r].client \in DOMAIN clients

ActiveGrants == {g \in DOMAIN grants : grants[g].revoked = 0}

\* A code buys one grant (oauth-store.mjs:254): however often the app presents
\* it, before or after the grant is revoked, no two grants come from one
\* approval.
OneGrantPerApproval ==
  \A g, h \in DOMAIN grants : grants[g].request = grants[h].request => g = h

\* A grant is renewed along a single line: it holds at most one refresh token
\* that is not yet used, and that is the latest one issued. A copied token and
\* the original can therefore never both be renewed.
OneLiveRefreshToken ==
  \A t \in tokens :
    t.kind = "refresh" /\ t.used = 0 => t.pair = grants[t.grant].pairs

\* From an approval there is one line of tokens that can be renewed, whatever is
\* presented twice, by its owner or by a thief.
OneLinePerApproval == OneGrantPerApproval /\ OneLiveRefreshToken

\* What is decided was decided by the device that had last seen the request,
\* and the grant goes to that device's account: another device that types the
\* code after the decision changes nothing, and one that types it before takes
\* the decision over (oauth-store.mjs:232).
DecidedByTheLastToLook ==
  /\ \A r \in DOMAIN requests :
       requests[r].status # "pending" => requests[r].decidedBy = requests[r].lookedUpBy
  /\ \A r \in DOMAIN requests, g \in DOMAIN grants :
       grants[g].request = r => grants[g].device = requests[r].lookedUpBy

\* No access outlives the lifetime of the grant by more than one access token:
\* renewals do not push the end of a grant back.
AccessIsBounded ==
  \A t \in tokens :
    t.kind = "access" => t.expires <= grants[t.grant].created + MaxLifetime + AccessTTL

\* When the tokens of a grant that are still good expire.
Expiries(g, kind) == {t.expires : t \in {u \in tokens : u.grant = g /\ u.kind = kind /\ u.used = 0 /\ u.expires > now}}

Latest(times) == IF times = {} THEN 0 ELSE CHOOSE x \in times : \A y \in times : y <= x

Earlier(x, y) == IF x < y THEN x ELSE y

\* listGrants(): when the grant stops yielding valid tokens, 0 if it has.
UsableUntil(g) ==
  Latest({Earlier(Latest(Expiries(g, "refresh")), grants[g].created + MaxLifetime), Latest(Expiries(g, "access"))})

Listed(g) == g \in ActiveGrants /\ UsableUntil(g) > now

Usable(g) ==
  \E t \in tokens :
    /\ t.grant = g
    /\ \/ Admits(t)
       \/ t.kind = "refresh" /\ t.used = 0 /\ Renewable(t) /\ g \in ActiveGrants

\* The list a person revokes from shows every grant that still gives access or
\* can be renewed, and no other (oauth-store.mjs:317). In the last instant of
\* its lifetime a grant can be renewed and is not listed (:287 and :338 compare
\* differently).
ListingIsComplete ==
  \A g \in DOMAIN grants :
    /\ Listed(g) => Usable(g)
    /\ Usable(g) => Listed(g) \/ now = grants[g].created + MaxLifetime

\* Access has an end, and a person who looks at the list before then sees it and
\* can take it back.
AccessIsAccountedFor == AccessIsBounded /\ ListingIsComplete

\* A grant that was made for a removed device although its removal went through
\* was already approved then, so it comes within the life of the request and of
\* the code: from then on the device cannot bring any access about.
LateGrantsAreBounded ==
  \A g \in ActiveGrants :
    LET d == grants[g].device IN
    ~Active(d) /\ d \notin unfinished =>
      /\ grants[g].created >= revokedAt[d]
      /\ grants[g].created < revokedAt[d] + RequestTTL + CodeTTL

\* A revoked grant is final: it never comes back and no token is ever issued
\* for it again, whatever is redeemed, renewed or revoked around it.
RevocationIsFinal ==
  [][\A g \in DOMAIN grants :
       grants[g].revoked # 0 =>
         /\ g \in DOMAIN grants' => grants'[g].revoked = grants[g].revoked
         /\ \A t \in tokens' : t.grant # g]_vars

\* Someone may yet decide the request, or the app redeem its code.
Awaited(r) ==
  \/ requests[r].status \in {"pending", "approved"} /\ requests[r].expires > now
  \/ requests[r].status = "approved" /\ requests[r].codeExpires > now

\* Pruning, which happens behind the back of every registration and every new
\* request (oauth-store.mjs:109), costs nobody anything that still works: a
\* request someone may yet approve or a code the app may yet redeem, a token
\* that is still good, or the client either of them needs.
NothingLiveIsPruned ==
  [][/\ \A r \in DOMAIN requests :
          Awaited(r) => r \in DOMAIN requests' /\ requests[r].client \in DOMAIN clients'
     /\ \A t \in tokens :
          t.used = 0 /\ t.expires > now /\ t \notin tokens' =>
             \/ t.kind = "refresh" /\ [t EXCEPT !.used = now] \in tokens'
             \/ t.grant \in DOMAIN grants' /\ grants'[t.grant].revoked # 0]_vars

\* A used refresh token is remembered for as long as it could be mistaken for a
\* good one or until the retention is over, so that presenting it again still
\* gives the theft away (oauth-store.mjs:6).
ReuseStaysDetectable ==
  [][\A t \in tokens :
       t.used # 0 /\ t \notin tokens' =>
          \/ t.expires <= now
          \/ now > t.used + UsedRetention
          \/ t.grant \in DOMAIN grants' /\ grants'[t.grant].revoked # 0]_vars

\* Pruning deletes nothing that is of use, neither to the one who holds it nor
\* against the one who stole it (oauth-store.mjs:109).
PruningIsHarmless == NothingLiveIsPruned /\ ReuseStaysDetectable

\* oauth-store.mjs:369: "Revokes the grants a removed device approved, so its
\* approvals do not outlive it." Stated for devices whose removal went through.
ApprovalsDoNotOutliveTheirDevice ==
  \A g \in ActiveGrants : Active(grants[g].device) \/ grants[g].device \in unfinished

\* plugin-gateway.mjs:179: "A removed device keeps neither its link codes nor
\* the connections it approved." Stated for what was approved and connected
\* before the removal.
RemovedDevicesKeepNoConnections ==
  \A g \in ActiveGrants :
    Active(grants[g].device) \/ grants[g].created >= revokedAt[grants[g].device]
=============================================================================
