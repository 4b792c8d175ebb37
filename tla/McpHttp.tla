------------------------------- MODULE McpHttp -------------------------------
(***************************************************************************)
(* relay/src/mcp-http.mjs on the rate limiter and the asset store, with    *)
(* prepareSwiftUIHandoff() of plugins/figma-bridge/mcp/tools.mjs: the      *)
(* POSTs of AI apps, each answered once, from its token to the last        *)
(* message of its batch. A POST waits for its body and for every answer of *)
(* the plugin, and other POSTs run meanwhile; what lies between two waits  *)
(* is one action. The plugin gateway is RelayGateway: here it answers or   *)
(* fails. A message that is no handoff only makes one call.                *)
(***************************************************************************)
EXTENDS AssetStore, Sequences

CONSTANTS
  Posts,
  Grants, GrantOf,     \* the grant whose token a POST carries
  Accounts, AccountOf, \* the account of each grant
  LimitOf, Window, MaxKeys,
  MaxInFlight,         \* MAX_IN_FLIGHT_PER_ACCOUNT
  MaxHandoff,          \* maxTotalAssetBytes, in assets
  Names,               \* file names the plugin gives its assets
  MaxAssets,           \* bound: assets the plugin lists
  MaxMessages,         \* bound: messages of a batch
  MaxTime              \* bound: the last moment of the model

ASSUME McpAssumption ==
  /\ IsFiniteSet(Posts)
  /\ GrantOf \in [Posts -> Grants]
  /\ AccountOf \in [Grants -> Accounts]
  /\ Grants \cap Accounts = {}
  /\ LimitOf \in [Grants \cup Accounts -> Nat]
  /\ {TTL, Window} \subseteq Nat \ {0}
  /\ {MaxBytes, MaxBytesPerAccount, MaxSessionsPerAccount, MaxKeys, MaxInFlight,
      MaxHandoff, MaxAssets, MaxMessages, MaxTime} \subseteq Nat

VARIABLES
  windows,    \* the limiter's table
  inFlight,   \* admitted POSTs by account
  posts,      \* how far each POST is
  granted,    \* history: the moments the limiter let each key go on
  links       \* history: the downloads that were answered, with what they are for

vars == <<now, sessions, listed, windows, inFlight, posts, granted, links>>
store == <<sessions, listed>>

Limiter == INSTANCE RateLimiter

Account(p) == AccountOf[GrantOf[p]]

\* at: where the POST waits; left: messages not yet handled; token and assets
\* belong to the handoff under way: files maps each saved asset to its name.
Idle == [at |-> "new", left |-> 0, token |-> "", todo |-> 0, files |-> <<>>]

Init ==
  /\ now = 1
  /\ sessions = <<>> /\ listed = {}
  /\ windows = <<>>
  /\ inFlight = [a \in Accounts |-> 0]
  /\ posts = [p \in Posts |-> Idle]
  /\ granted = [k \in Grants \cup Accounts |-> <<>>]
  /\ links = {}

Goes(p, post) == posts' = [posts EXCEPT ![p] = post]

Answered(p) == Goes(p, [Idle EXCEPT !.at = "answered"])

-----------------------------------------------------------------------------

\* The grant's window is counted first, and the account's only when that allows it.
AfterGrant(p) == Limiter!Counted(windows, now, GrantOf[p])

MayGoOn(p) ==
  /\ Limiter!Allowed(windows, now, GrantOf[p])
  /\ Limiter!Allowed(AfterGrant(p), now, Account(p))

CountEvent(p) ==
  /\ windows' = IF Limiter!Allowed(windows, now, GrantOf[p])
                THEN Limiter!Counted(AfterGrant(p), now, Account(p)) ELSE AfterGrant(p)
  /\ granted' = [k \in DOMAIN granted |->
                   IF \/ k = GrantOf[p] /\ Limiter!Allowed(windows, now, k)
                      \/ k = Account(p) /\ MayGoOn(p)
                   THEN Append(granted[k], now) ELSE granted[k]]

\* handle(), from the verified token to the wait for the body. A POST from a
\* foreign origin, of another method or without a valid token changes nothing.
Admit(p) ==
  /\ posts[p].at = "new"
  /\ CountEvent(p)
  /\ IF MayGoOn(p) /\ inFlight[Account(p)] < MaxInFlight
     THEN /\ inFlight' = [inFlight EXCEPT ![Account(p)] = @ + 1]
          /\ Goes(p, [Idle EXCEPT !.at = "body"])
     ELSE /\ Answered(p)
          /\ UNCHANGED inFlight
  /\ UNCHANGED <<now, store, links>>

\* Mutant: the place is returned only by a POST that ends well.
Finish_OnlyWell(p) ==
  /\ Answered(p)
  /\ inFlight' = IF posts[p].at = "body" THEN inFlight ELSE [inFlight EXCEPT ![Account(p)] = @ - 1]
  /\ UNCHANGED <<now, windows, granted>>

\* The finally of handle(): whatever ended the POST, its place is free again.
Finish(p) ==
  /\ Answered(p)
  /\ inFlight' = [inFlight EXCEPT ![Account(p)] = @ - 1]
  /\ UNCHANGED <<now, windows, granted>>

\* readBody() rejects, or what it read is no JSON, or an empty or too long batch.
BadBody(p) ==
  /\ posts[p].at = "body"
  /\ Finish(p)
  /\ UNCHANGED <<store, links>>

Body(p, messages) ==
  /\ posts[p].at = "body"
  /\ Goes(p, [Idle EXCEPT !.at = "message", !.left = messages])
  /\ UNCHANGED <<now, store, windows, inFlight, granted, links>>

\* The message is done, well or with an error, and the next one is handled.
NextMessage(p) ==
  IF posts[p].left > 1
  THEN /\ Goes(p, [Idle EXCEPT !.at = "message", !.left = posts[p].left - 1])
       /\ UNCHANGED <<now, windows, inFlight, granted>>
  ELSE Finish(p)

\* A message with one call, or the first call of a handoff, which failed.
Call(p) ==
  /\ posts[p].at = "message"
  /\ NextMessage(p)
  /\ UNCHANGED <<store, links>>

\* The plugin described the screens and listed its assets: open() may throw.
PrepareHandoff(p, t, assets) ==
  /\ posts[p].at = "message"
  /\ IF MayOpen(Account(p))
     THEN /\ Open(t, Account(p))
          /\ Goes(p, [posts[p] EXCEPT !.at = "assets", !.token = t, !.todo = assets])
          /\ UNCHANGED <<now, windows, inFlight, granted, links>>
     ELSE /\ listed' = Unexpired
          /\ NextMessage(p)
          /\ UNCHANGED <<sessions, links>>

Saved(p) == Cardinality(DOMAIN posts[p].files)

\* What a download holds: the handoff of the POST, and which of its assets; the
\* manifest is number 0.
Content(p, asset) == <<p, posts[p].left, asset>>

\* One asset was exported; it is saved, or skipped with a warning: the handoff
\* is too large, or save() threw.
SaveAsset(p, name) ==
  LET asset == posts[p].todo
      t == posts[p].token
  IN
  /\ posts[p].at = "assets" /\ asset > 0
  /\ IF Saved(p) < MaxHandoff /\ Fits(Account(p), 1)
     THEN /\ Save(t, name, Content(p, asset))
          /\ Goes(p, [posts[p] EXCEPT !.todo = asset - 1,
                        !.files = Put(@, asset, FileName(t, name))])
     ELSE /\ Goes(p, [posts[p] EXCEPT !.todo = asset - 1])
          /\ UNCHANGED store
  /\ UNCHANGED <<now, windows, inFlight, granted, links>>

\* The plugin could not export it.
SkipAsset(p) ==
  /\ posts[p].at = "assets" /\ posts[p].todo > 0
  /\ Goes(p, [posts[p] EXCEPT !.todo = @ - 1])
  /\ UNCHANGED <<now, store, windows, inFlight, granted, links>>

\* The answer carries a link per saved asset and one to the manifest.
LinksOf(p) ==
  LET t == posts[p].token IN
  {[token |-> t, file |-> posts[p].files[asset], serves |-> Content(p, asset)] : asset \in DOMAIN posts[p].files}
  \cup {[token |-> t, file |-> FileName(t, "handoff.json"), serves |-> Content(p, 0)]}

FinishHandoff(p) ==
  /\ posts[p].at = "assets" /\ posts[p].todo = 0
  /\ IF Fits(Account(p), 0)
     THEN /\ SaveManifest(posts[p].token, Content(p, 0))
          /\ links' = links \cup LinksOf(p)
     ELSE UNCHANGED <<store, links>>
  /\ NextMessage(p)

Tick ==
  /\ now < MaxTime
  /\ now' = now + 1
  /\ UNCHANGED <<store, windows, inFlight, posts, granted, links>>

PruneAssets ==
  /\ listed # Unexpired
  /\ Prune
  /\ UNCHANGED <<windows, inFlight, posts, granted, links>>

Next ==
  \/ \E p \in Posts : Admit(p) \/ BadBody(p) \/ Call(p) \/ SkipAsset(p) \/ FinishHandoff(p)
  \/ \E p \in Posts, messages \in 1 .. MaxMessages : Body(p, messages)
  \/ \E p \in Posts, t \in Tokens \ DOMAIN sessions, n \in 0 .. MaxAssets : PrepareHandoff(p, t, n)
  \/ \E p \in Posts, name \in Names : SaveAsset(p, name)
  \/ Tick
  \/ PruneAssets

Spec == Init /\ [][Next]_vars

-----------------------------------------------------------------------------
(* Properties *)

\* The in-flight counter of an account is the number of its POSTs that were
\* admitted and not yet answered, however each of the others ended
\* (mcp-http.mjs:57), and within its limit.
InFlightIsExact ==
  \A a \in Accounts :
    /\ inFlight[a] = Cardinality({p \in Posts : Account(p) = a /\ posts[p].at \notin {"new", "answered"}})
    /\ inFlight[a] <= MaxInFlight

Manifests(tokens) ==
  Cardinality({t \in tokens : \E file \in DOMAIN sessions[t].files : sessions[t].files[file][3] = 0})

\* The sessions that were pruned while their handoff still writes to them.
Pruned == {posts[p].token : p \in {q \in Posts : posts[q].at = "assets"}} \ listed
PrunedOf(a) == {t \in Pruned : sessions[t].account = a}

\* The relay's memory and each account's share of it are bounded by the limits,
\* one manifest per listed session, which is added past them (assets.mjs:86), and
\* one handoff's assets for each session that a handoff outlives: usage() no
\* longer counts those (assets.mjs:41), and only the handoff's own limit holds it
\* back (tools.mjs:494).
StorageIsBounded ==
  /\ Bytes(listed \cup Pruned) <= MaxBytes + Manifests(listed) + MaxHandoff * Cardinality(Pruned)
  /\ \A a \in Accounts :
       Bytes(ListedOf(a) \cup PrunedOf(a)) <=
         MaxBytesPerAccount + Manifests(ListedOf(a)) + MaxHandoff * Cardinality(PrunedOf(a))

\* What assets.mjs:3 says, "Assets live in memory with global and per-account
\* caps", of the first cap: false, and checked by no run. A session that was pruned
\* during its handoff is past the cap with the ones that were opened since.
MemoryIsCapped == Bytes(listed \cup Pruned) <= MaxBytes + Manifests(listed)

\* Until the moment the handoff says its downloads expire, a link it returned
\* serves the very asset it was returned for, though names repeat and the
\* manifest's name may be an asset's (assets.mjs:70, 85).
LinksServeTheirAsset ==
  \A l \in links : sessions[l.token].expires > now => Served(l.token, l.file) = l.serves

\* The limiter never lets a key go on more often than its limit within one
\* length of window from the moment the key's window began, and so never more
\* than twice the limit in any stretch that long, though the table fills up
\* with other keys (rate-limit.mjs:24).
FloodsResetNoCounter ==
  \A k \in DOMAIN granted : \A i \in DOMAIN granted[k] :
    i + 2 * LimitOf[k] \in DOMAIN granted[k] => granted[k][i + 2 * LimitOf[k]] >= granted[k][i] + Window
=============================================================================
