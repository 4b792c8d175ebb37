# Figma Bridge in TLA+

Figma Bridge lets AI agents work in open Figma files. This directory holds TLA+
models of its parts, the configurations that check them with TLC, and proofs
that TLAPS checks. Paths are relative to the repository; `src/` in
`PROJECT.json` is the repository root.

## 1. The system

```
 AI agent --MCP/stdio--> mcp/server.mjs --control socket--> companion --WebSocket--> plugin window --> plugin
 AI app   --MCP/HTTP---> relay (OAuth, accounts)          ------------WebSocket--> (ui.html)          (code.ts)
```

| Component | State it keeps | Operations | Modelled in |
|---|---|---|---|
| FigmaHub (`companion/src/hub.mjs`), one in the companion, one per account in the relay | `clients` map, `pending` map, `waiters`, `activeClientId` | register, client.update, rpc.response, unregister, request, closeAll | `FigmaHub`, `RpcContract` |
| Companion server (`companion/src/server.mjs`) | per connection: authenticated client, pairing, timer; `pairingStarts`, `pairingInProgress`; the loopback port, the control socket | auth, pair, pair.proof, dialog answer, timeout, close; start, shutdown | `CompanionPairing` (connections), `ControlChannel` (start and end) |
| OAuth server (`relay/src/oauth.mjs`, `oauth-store.mjs`) | SQLite tables of clients, requests, grants, tokens | register, authorize, status, token, revoke; approval and grant calls of plugins | `OAuthGrants` |
| Undo transactions (`figma-plugin/src/undo-transaction.ts`, `code.ts`) | the document, Figma's undo history, a boundary marker | begin, edits, commit or undo | `UndoTransaction` |
| Plugin commands (`figma-plugin/src/code.ts`, `structure-operations.ts`, `design-operations.ts`, `document-operations.ts`, `shader-operations.ts`) | the document; while a batch runs, the results of its steps | every command that changes the document, alone or in a batch; plans | `FigmaDocument`, `PluginOperations`, `PluginCommands` |
| Relay gateway (`relay/src/plugin-gateway.mjs`) | hubs by account, unauthenticated socket counts | upgrade, hello, register, calls, revoke, heartbeat | `RelayGateway` |
| Accounts store (`relay/src/accounts-store.mjs`) | devices, invites, link codes | register, link, revoke, prune | `AccountsStore`, under `RelayGateway` |
| Asset store (`relay/src/assets.mjs`) | download sessions, byte counts | open, save, saveManifest, fetch, prune | `AssetStore`, under `McpHttp` |
| Rate limiter (`relay/src/rate-limit.mjs`) | fixed windows by key | allow | `RateLimiter`, under `McpHttp` |
| Control channel (`mcp/control.mjs`, `autostart.mjs`) | state file, control socket, remembered nonces | ensureState, rotateControlId, requestControl, verifyRequest, autostartRequest | `ControlChannel` |
| MCP over HTTP (`relay/src/mcp-http.mjs`), the handoff of `mcp/tools.mjs` | requests in flight by account; the handoff under way | admit, read, handle each message, finish | `McpHttp` |
| Plugin window (`figma-plugin/src/ui.html`) | socket, generation, mode, session, calls | connect, pair, register, retry, switch mode, disconnect | `PluginUi` |
| Marketplace (`scripts/lib/agent-marketplace.mjs`) | shared and older marketplace directory, two agents' registrations | install, migrate, uninstall, restore | `AgentMarketplace` |

The components run in three processes (companion, relay, plugin) and an agent's.
All of them are JavaScript: a handler runs to its end or to its next `await`
before another one starts, so a handler between two awaits is one action of a
model. What is hard is the order in which handlers run: messages of a
connection that was replaced, revoked or is closing, timers against answers,
the continuation of an await that reads what others have changed, and, in the
relay, rows that expire without anyone noticing. `PROJECT.json` lists these
hazards at their lines.

What makes each component correct:

- *Hub*: registry and pending map agree with the connections there are; a call
  is answered by the connection it was sent on, and always settles.
- *Companion*: one pairing dialog at a time, few of them, one guess each; every
  connection authenticates or ends.
- *OAuth*: an approval gives one grant, a grant is renewed along one line, for a
  bounded time, and revocation is final; pruning costs nobody anything live.
- *Undo*: a failed transaction leaves nothing, a finished one is one undo step.
- *Gateway and accounts*: a removed device can do nothing any more; counters and
  limits balance; link codes and invites are used once.
- *MCP over HTTP, asset store, limiter*: counters are given back on every way out
  of a request; storage is bounded; a link serves what it was returned for; a
  flood of keys resets nobody's window.
- *Control channel*: one state file whatever processes race, the endpoint leads
  to the companion that listens, unless one that ends took it away from its heir; a
  command is dispatched once; a companion accepts no request twice (a later one
  has no memory of it: nonces are kept in memory).
- *Plugin commands*: a batch is all or nothing, its references resolve, a plan
  names what the execution changes, but for groups that are left empty, and nodes
  that are moved, though not into a group, stay where they are seen.
- *Marketplace*: wherever an installation ends, Codex works and sibling plugins
  survive.
- *Plugin window*: one live socket; nothing of a replaced one takes effect.

## 2. Modules

| Module | Extends | Content |
|---|---|---|
| `RpcContract` | | abstract: what a caller of `request()` is promised |
| `FigmaHub` | | the hub with its connections and callers; `ImplementsContract` maps it to `RpcContract` |
| `FigmaHubProofs` | `FigmaHub` | theorems |
| `CompanionPairing` | | the handshake of the companion's connections |
| `AccountsStore` | | the tables of accounts, devices, invites and link codes |
| `RelayGateway` | `AccountsStore` | the relay's sockets and the hubs of its accounts, on those tables |
| `RelayGatewayProofs` | `RelayGateway`, `Sums` | theorems |
| `MCRelayGateway` | `RelayGateway` | symmetry |
| `OAuthGrants` | | the OAuth store under its callers, with time and pruning |
| `OAuthGrantsProofs` | `OAuthGrants` | theorems |
| `MCOAuthGrants` | `OAuthGrants` | accounts, addresses, symmetry |
| `UndoTransaction` | | commands of the plugin and the undo history |
| `FigmaDocument` | | the tree of nodes the plugin works on, and the Plugin API's operations on it |
| `PluginOperations` | `FigmaDocument` | what each operation does to a document, item by item |
| `PluginCommands` | `PluginOperations` | a command: plan, references, steps, failure, undo |
| `MCPluginCommands` | `PluginCommands` | a document and the commands for it |
| `PluginUi` | | the plugin's window: connections, pairing, registration, retries |
| `PluginProofs` | `PluginUi`, `UndoTransaction`, `PluginCommands` | theorems about each of the three; lemmas about trees, folds and the operations on a document |
| `MCPluginUi` | `PluginUi` | symmetry |
| `RateLimiter` | | fixed windows, as functions of a table |
| `AssetStore` | | download sessions and their limits |
| `McpHttp` | `AssetStore`, an instance of `RateLimiter` | the relay's POSTs from token to answer |
| `McpHttpProofs` | `McpHttp`, `Sums` | theorems |
| `MCMcpHttp` | `McpHttp` | POSTs, grants, accounts, symmetry |
| `ControlChannel` | | companions, tools and adapters around one state file and one endpoint |
| `CompanionProofs` | `ControlChannel`, `CompanionPairing` | theorems about each of the two |
| `MCControlChannel` | `ControlChannel` | symmetry |
| `AgentMarketplace` | | installation for Codex and Claude Code, step by step |
| `AgentMarketplaceProofs` | `AgentMarketplace` | theorems |
| `MCAgentMarketplace` | `AgentMarketplace` | the machines an installer may find |
| `Sums` | | lemmas: the sum of a function over a finite set |

Operators named `X_Something` under a comment "Mutant" are variants of the
operator that follows them, each with a plausible bug: `PROJECT.json` pairs
every checked property with the variant that breaks it.

### FigmaHub

`clients` is the key order of the map (a key that is set again keeps its place),
`websocketOf` and `infoOf` its values. `pending` is the set of keys of the
pending map and `entry` what it holds; `promise` follows each call of
`request()` from "idle" over "waiting" (in `waitForClient`), "woken" (its await
is over, its continuation has not run) and "sent" to "resolved" or "rejected".
`readyState`, `authenticated` and `reported` are the connection's side.

| Code | Action |
|---|---|
| `register()` from `server.mjs:168`, `plugin-gateway.mjs:203` | `Register` |
| `handleMessage()`, client.update / rpc.response | `ClientUpdate` / `RpcResponse` |
| `unregister()` from the close event | `Close` |
| a close that begins, `closeAll()` | `BeginClose`, `CloseAll` |
| `request()` up to its await / from there | `Request` / `Resume`, both through `Dispatch` |
| the two timers | `WaitTimeout`, `RpcTimeout` |

A client id is chosen by the plugin, so any connection may register any client.
A closing socket still delivers messages, and a response may name any id ever
issued. `congested` chooses freely whether the socket's buffer is full.
`reported`, `joined`, `answeredOn` and `entry` after deletion are history: the
code's behaviour does not depend on them.

### CompanionPairing

`readyState` tells "closing" (asked to close, still delivers) from "terminated"
(destroyed). `pairing` is the closure's `pairing.code`: not there, there, or
compared and nulled. `prompts` is the history of starts, which `pairingStarts`
forgets. A proof is right or wrong, an origin allowed or not, a dialog shown or
not: all free choices.

### AccountsStore and RelayGateway

`AccountsStore` has the tables and one action per operation of
`accounts-store.mjs`; it says nothing of who calls. `RelayGateway` extends it and
puts the operations into the handlers of the WebSocket endpoint. The tables have
no clock: a live code may expire at any moment (`ExpireLink`, `ExpireInvite`),
and pruning deletes any rows that are no longer live. That is more than the code
does, which waits for the time to pass, and never less. A drawn code is not
drawn again.

| Code | Action |
|---|---|
| `handleUpgrade()`, `onConnection()` | `Connect` |
| hello / register | `Hello` / `Register` with `JoinWithLink`, `JoinWithInvite`, `JoinOpenly`, all through `Attach` |
| `hub.request()`, rpc.response, its timer | `Request`, `RpcResponse`, `RpcTimeout` |
| devices.link / devices.revoke | `LinkDevice` / `RevokeDevice` |
| heartbeat, authentication timer, bad messages, peer | `BeginClose` |
| the close event | `Close`, with `Unregister` |
| end of the process and its next start | `Restart` |
| `prune()`, every ten minutes; the command line's invites | `Prune`; `CreateInvite` |

`deviceOf` and `clientOf` are the closure's `device` and `clientId`, until the
close event. `hubs` and `websocketOf` are the hubs' registries; which client a
command goes to is the subject of `FigmaHub` and any registered one here. A
socket that was asked to close still delivers, so every handler may run on a
socket of a removed device: `Admitted` is what stands in its way.
`RevokeDevice` ends after its first step when the revocation of grants throws;
`unfinished` remembers for which devices.

One consequence, modelled and not judged: when the serving socket of the last
client closes, the gateway forgets the hub with the calls that were sent on
sockets it had replaced. No answer and no close reaches those calls
("orphaned"); their timers settle them.

Left out: rate limits and origins (they only refuse), `approval.*` and
`grants.*` (transactions of `OAuthGrants`), `notifyAccount` (sends only).

### OAuthGrants

One action per transaction, with the checks its caller makes before it. Rows
are functions from ids to records; `drawn` keeps an id from being drawn twice.
The handler's early refusals leave everything as it was and are the disabled
action or the stutter. `pruneTx` is given by what it leaves (`KeptRequests`,
`UnexpiredTokens`, `KeptGrants`, `KeptTokens`, `KeptClients`), each computed
from what the earlier deletions left, as the statements run in that order. It
runs only inside `CreateClient` and `CreateRequest`: the store's `prune()` has
no caller in the relay (`app.mjs:102` prunes the accounts only). One
consequence, modelled and not judged: a client that has no grant and whose day
is over cannot ask for access, because its own request prunes it first and then
breaks its foreign key, until another registration removes it.

`RevokeDevice` is `devices.revoke`: two transactions, of which the second may
not happen. `unfinished` remembers for which devices it did not.

Left out: rate limits (they only refuse), secrets, codes and PKCE (a caller who
needs one has it), `last_used_at` (only the order of a listing depends on it),
the account of a row (that of its device) and `revokeAccountGrants` (no caller).

### UndoTransaction

A command makes `Edits` edits with awaits between them and may fail at any
point. `undo` is Figma's history of committed states. What Figma's
`triggerUndo` does when changes are not yet committed is external; it is
modelled as the return to the last committed state, which is what the code
relies on in both of its uses. Commands overlap as they please: nothing in the
code makes one wait for another. A transaction sets its boundary, edits and
commits; a plain command only edits; `document.searchReplaceText`, outside of a
batch, replaces without an await and commits what it did, which is `Replace`.
`met` remembers which commands ran at the same time, for the properties: no guard
reads it.

### PluginUi

`generation` is there as `current`, the attempt of the present generation, which
stays when its socket is gone: the close event is the current attempt's whether
or not `socket` still is. `readyState` tells "closing" from "closed", so a close
event comes long after its socket was replaced. `session` is the object that
`connectLocal()` keeps for each attempt. Proofs are plain JavaScript and await
nothing that another event could precede, so a message's handler is one action,
even where it is `async`. Two things do span events: the call of Disconnect
(`waiting`, then `woken`) and a token stored by the plugin's main thread
(`saving`). `Attempts` are the sockets there may be at a time, not in all: one
of which nothing is left (no close event to come, no timer, no session) is used
again.

| Code | Action |
|---|---|
| click on a tab, Connect, Unpair, Disconnect | `SelectMode`, `ClickConnect`, `Unpair`, `Forget` and `ForgetContinues` |
| code form, pasted token, registration | `SubmitCode`, `SaveToken` and `TokenSaved`, `SubmitRegistration` |
| bridge-init | `BridgeInit` |
| messages of the companion | `HelloMessage`, `PairCode`, `PairOk`, `AuthOk` |
| messages of the relay | `RelayOk`, `RegisterError`, `CallResult` |
| open and close events, the peer or the network | `SocketOpens`, `CloseEvent`, `PeerCloses` |
| hello timer, retry timer | `HelloTimer`, `RetryFires` |

The companion proves itself when `server.mjs` does; anything else that listens
has no secret, its proofs are wrong, and it may send the other messages at any
time. A proof of a token that is not there needs no secret: in an attempt to pair
that has not been given a token yet, `auth.ok` is compared with a proof of the
empty string (`ui.html:302`), which whoever was sent the client's nonce, with the
proof of the code, can make. `AuthOk` accepts it and does not add the socket to
`proven`.

Left out: approvals, lists and notices (they read the connection and change
nothing of it), the forwarding of commands, the growth of the retry delay.

Observed and not judged: Disconnect goes on after its call whatever tab is shown
by then, and closes a local connection that was opened meanwhile (`ui.html:595`);
a token that is stored while the tab changes connects locally behind the relay's
tab (`ui.html:617`); "retrying" is shown to a window that has no token and tries
nothing (`ui.html:322`); when a registration's socket fails, "Checking code"
stays (`ui.html:375`).

### FigmaDocument, PluginOperations, PluginCommands

A document is a record of functions over node numbers; a new node takes the next
number. Places are in one dimension and without rotation, which is enough to tell
a node that stayed from one that moved. As in Figma, a place is an offset from the
nearest node above that is no group (`Absolute`); a group has no coordinates of
its own, is seen where the first of the nodes in it is (`Seen`), and is moved by
moving those (`Carried`, `MovedTo`). `look` stands for every field that only
decorates a node. The Plugin API (`insertChild`, `remove`, `group`, the two
transforms) is external, modelled from how `structure-operations.ts` uses it. A
group whose last node leaves or is removed disappears: `Tidied` takes such groups
away at the end of each item, and no operation looks at them before. A document is
a tree (`IsTree`): every node but the page is the child of one other node, once,
and no group of nodes is without a way up to the page.

| Code | Definition |
|---|---|
| `createComponents()` ... `deleteDesignTokens()`, `createNodes()`, `updateNodes()`, `deleteNodes()`, `applyAutoLayout()`, `applyVisualProperties()`, `applyShader()`, `searchAndReplaceText()` | an operator of the same name: a document and an item give a document, its result, and whether it threw |
| `planOperation()`, `batchHandlers()`, `planCreateNodes()`, `planUpdateNodes()` | `Plannable`, `Names`, `PlanFits` |
| `parseBatchOperations()`, `validateReferences()`, `resolveReferences()` | `IdsAreUnique`, `ReferencesEarlier`, `Available`, `PathsExist`, `Resolved` |
| `dispatch()`, `planStructureBatch()` | `Receive` |
| a step of `executeStructureBatch()`, well or not | `Execute`, `Throws` |
| the end of `withUndoTransaction()` | `Finish` |

`Dispatched` pairs the name of a command with the operation `dispatch()` calls for
it. `CommandsAssumption` says that a command which is not a batch has that one
operation, and no reference: only `parseBatchOperations()` makes lists of
operations and only a batch resolves references. `ItemsAssumption` says what
`records()`, `strings()` and `optionalIndex()` let through: arguments are lists,
indices are natural numbers, and an operation that takes its nodes as a whole
(`WholeKinds`) has at least one. `DocumentAssumption` says that what the plugin
finds open is a tree without empty groups, in which neither the page nor a group
has an offset, and that a search's limit is not negative. A batch with a
kind that `batchHandlers()` does not have is refused (`BatchKinds`).

An operation works on its items one after another, each looked up when its turn
comes, which is a fold over them (`ItemsDone`, by `OneMore`); after the first that
throws nothing more is done. Any call of the Plugin API may fail, after any number of items
(`Broken`). One command runs here at a time: what happens when several do is the
subject of `UndoTransaction`.

Left out: what is inside a clone, but for one node in a clone of a group, which
would not be there without; moves with `preserveAbsolutePosition: false`; variant
names, colour values and modes, the
parsing of single values, and the commands that only read.

Observed and not judged: the plan of a search names only its first matches and
the execution rewrites all of them (`document-operations.ts:126`); the
replacement is computed before fonts are loaded and overwrites what was typed
meanwhile (`document-operations.ts:141`); a colour that is named twice in one
call gets one variable and two paint styles (`structure-operations.ts:224`);
`ensureModes` renames the only mode of a collection of the user's
(`structure-operations.ts:674`).

### AssetStore, RateLimiter, McpHttp

A POST goes from "new" over "body", "message" and "assets" to "answered"; the
steps are what `handle()` does between two awaits. `Finish` is its `finally`. A
message is a single call, or a handoff: `PrepareHandoff`, then `SaveAsset` or
`SkipAsset` for each asset while other POSTs run, then `FinishHandoff`. The gateway
answers or fails; it is `RelayGateway`'s subject. Every size is one, so limits are
counted in assets; what a set of sessions holds (`Bytes`) is the sum of what each
of them does, as in the code. `listed` is the map of sessions: a handoff keeps writing to
its session after it was pruned, as the closure of the code does. `Pruned` are
those: `usage()` walks the map and no longer counts what they hold, so memory is
bounded by more than the two caps, and `StorageIsBounded` says by how much.

`granted` (when the limiter let a key go on) and `links` (what an answer
promised) are history. A token is drawn once.

### ControlChannel

Companions, `figma-bridge pair` (a tool) and calls of adapters share one state
file and one endpoint. A step is what a process does between two places where it
waits or between two accesses to the file: `ensureState()` is `Read`, `Create`,
`Repair`, because another process may act between them. `link()` creates the file
only if there is none. Where the order of a companion's own calls matters to
another process they are steps of their own: the port is released before the
control server is closed, and a companion that starts in between finds the port
free and the path taken.

| Code | Action |
|---|---|
| `listenHttp()` on the port | `Bind`: the lock, or the end of a second companion |
| `ensureState()`, `rotateControlId()` | `Read`, `Create`, `Repair`, `Rotate` |
| `rmSync()` of the former socket and `listen()`; `chmodSync()` and `statSync()` | `Listen`; `Secure` |
| a start that fails before it listens | `FailToStart` |
| one that fails after; the end of its connections, `controlServer.close()` | `FailAfterListen`; `EndFailed` |
| `close()`: the servers on the port; the control server; the comparison of the inode | `Close`; `CloseControl`; `Exit` |
| a kill | `Crash` |
| `requestControl()` under `autostartRequest()` | `Ask`, `NotRunning`, `Connect`, `Reset`, `TimeOut`, `Answer` |
| `handleLine()` with `verifyRequest()` | `Handle` |
| a line that arrives again | `Replay` |

`platform` is chosen at the beginning: a socket at a fixed path that a killed
process leaves behind, or a pipe that goes with it and whose name is in the
state file. When the server of a socket is closed, Node removes what is at the
path, whoever made it (`WithoutPath`, external), so `close()` and a start that
fails after `listen()` may remove the socket of a companion that got the port
meanwhile. `heirs` remembers which companions that can happen to; one of them
runs, holds the port, and is reached by nobody. That the inode of a socket is
given to a later one is left out.

A connection that a closing control server has not taken yet is reset, a line it
has not read is lost with the process. `IsBusy` keeps requests out of a step
without an `await`. `Ahead` is how far the clock of the clients is ahead; only
its difference to the companions' is ever looked at. `pair` keeps only the token
it prints. A line comes again only at a companion that has accepted one
(`MaxReplays`), as the others remember nothing. When a companion is launched, and how
often (no more than once in 15 seconds), is abstracted to companions that start
whenever they like.

Observed and not judged: two processes that find the same older state without
credentials both add their own, and the first then holds what nobody reads
(`control.mjs:79`). `StateIsShared` is stated for at most one such repair.

### AgentMarketplace

An installation is a sequence of file operations and commands; each is an action
that moves `at` on, may fail (`Fails`, with the restoration of Codex), or may be
where the process is killed (`IsKilled`). `MaxRuns` installations or removals
follow each other on the same machine. A manifest is the set of plugins it
names, a registration a root and its plugins. `linked` tells that the older root is a
symbolic link, which is not migrated. Codex breaks on a registered root
without a manifest, Claude Code uninstalls what it has from a marketplace that
is removed: both are external and said so in the code's comments.
`MarketAssumption` says what an installer may find: any two roots, with a
directory that is not there holding nothing, any registrations, also with a root
that has no manifest (`"gone"`, or one of the two), as long as only an agent
that is there has one.

`hurt` and `lost` are history, for what the code does not promise. `hurt` tells
that a registration was not released, or a sibling not installed again, because
that very step failed, or that Codex had a root without a manifest from the
beginning. `lost` are siblings whose copies were in the shared root
when an uninstallation removed it.

Left out: an installation across file systems, where a move is a copy and a
removal, the launcher commands' text, the obsolete registrations of one early
repository.

Observed and not judged: an installation that is killed after it has moved a
sibling's copy to the shared root (`agent-marketplace.mjs:112`) and before it
has written the merged manifest leaves a copy there that nobody is entered for; an uninstallation that
follows finds the shared manifests empty and removes the root with that copy
(`:191`), and the sibling is gone for good. The attempt to prove
`SiblingsSurvive` without `lost` met this; the tests' title "uninstall removes
only this plugin and releases empty registrations"
(`agent-marketplace.test.mjs:196`) is about a root without such a copy. An
uninstallation removes the root before it releases the registration, and when it
ends in between, running it again finds no root and releases nothing
(`:77`); a failed merge may register a root whose manifest
does not yet name a sibling that has moved there (`:65`); an installation that
ends between the removal and the reinstallation of Claude Code's siblings
forgets which they were (`:217`); a move across file systems that is interrupted
leaves half a root (`:362`).

## 3. What TLC checks

| Run | Instance | Shows |
|---|---|---|
| `Hub` | two connections, three calls, two places, two pages | the newest connection serves, nobody waits in vain, `RpcContract` is implemented, every call settles |
| `PairingSafety` | three connections, three moments, two prompts | dialogs are serialized and rate limited, one guess each; every connection is decided |
| `GatewaySafety` | two accounts of two places, three devices, an invite, two link codes, three sockets, two addresses, one call | what removed devices, replaced sockets, spent codes and anonymous connections can still do |
| `OAuthTokens` | one approval, three token pairs, nine moments, two clients | the life of a grant with reuse, revocation and pruning |
| `OAuthRequests` | two devices of one account, three requests from two addresses, two clients for one place, four moments | who decides a request, and for how long a removed device's approval has an effect |
| `WindowSafety` | two sockets at a time, without end | one connection at a time, proven peers, codes, retries and timers while connections replace each other |
| `UndoTransactions` | two transactions, a replacement and a plain command of two edits each, in every overlap | rollback and undo steps |
| `PluginCommands` | a document of nine nodes; every batch of two of a hundred operations, batches of three with references, the other commands | atomicity, references, plans, places |
| `McpHttp` | four POSTs of three grants and two accounts, two assets a handoff, two places in the limiter's table, four moments | counters, limits, links and windows |
| `ControlChannel` | two companions, a tool, two calls of two attempts, a replay, both platforms, both kinds of state file | one owner, one state, one dispatch, no replay |
| `AgentMarketplace` | every combination of ten disks, with the older root a link or not, three registrations of Claude Code and one or two agents; three runs, each failing or killed anywhere | Codex and the siblings survive |

`UndoInterleaved` shows a disagreement between the code and what it says
(`findings` in `PROJECT.json`): the plugin starts every command as it arrives, a
second transaction commits the first one's partial edits, and these then survive
its rollback.

Nine more disagreements are stated in the modules and checked by no run; adding
them to a configuration as INVARIANTs shows the behaviour:

- `ApprovalsDoNotOutliveTheirDevice` in `OAuthRequests.cfg`: a device approves,
  is removed, and the code is exchanged, which makes an active grant of a removed
  device (`oauth-store.mjs:369`). `LateGrantsAreBounded` is what does hold.
- `RemovedDevicesKeepNoConnections` in `OAuthRequests.cfg`: the removal of a
  device stops between its two transactions; its grants stay, and removing it
  again does not reach them (`plugin-gateway.mjs:179`).
- `TryingAgainIsPossible` in `WindowSafety.cfg`: a companion cannot prove the
  code, the window asks to try again, and Connect stays disabled, because the
  close event that enables it is that of an earlier generation (`ui.html:297`).
- `EveryPeerIsProven` in `WindowSafety.cfg`: "Commands run only after the peer
  proved who it is" (`ui.html:224`; `SECURITY.md:9` says the same). A window
  without a token sends the proof of a code, and is connected by an `auth.ok`
  with a proof of the empty token. `ConnectedIsProven` is what does hold: the
  sentence is true of every window that has a token or uses the relay.
- `MemoryIsCapped` in `McpHttp.cfg`: "Assets live in memory with global and
  per-account caps" (`assets.mjs:3`). A session is pruned during its handoff, which
  goes on saving; its bytes are counted no more, and new sessions fill the cap
  again. `StorageIsBounded` is what does hold: a handoff's own limit for each such
  session, of which there are no more than POSTs in flight.
- `SuccessorsAreReached` in `ControlChannel.cfg`: the companion that ends compares
  the inode so as to leave its successor's socket alone (`server.mjs:259`), but
  its control server was closed before (`:258`, and `:87` when a start fails), by
  path, after the port was free. `EndpointStaysWithItsOwner` is what does hold: it
  happens to nobody else.
- `EverySiblingIsPreserved` in `AgentMarketplace.cfg`: "re-adding the shared
  marketplace at its new root preserves sibling bridge plugins"
  (`agent-marketplace.mjs:249`). An older root that is a symbolic link is left alone
  (`:90`, tested at `agent-marketplace.test.mjs:68`), but Codex is detached from it
  (`:266`) and gets the shared root, which has none of its plugins.
  `SiblingsSurvive` is what does hold: they stay in the link.

- `PreviewNamesGroups` in `PluginCommands.cfg`: "apply only with explicit `dryRun:
  false` after checking the returned targets" (`SKILL.md:30`). A batch that moves,
  groups or ungroups what is in a group of the user's may leave that group empty;
  Figma takes it away, and the targets do not name it
  (`structure-operations.ts:467`). `PreviewNamesTargets` is what does hold.
- `NothingIsSeenToMoveAtAll` in `PluginCommands.cfg`: `preserveAbsolutePosition` is
  the default, but a node that is moved into a group is placed as if its
  coordinates began where the group is seen (`structure-operations.ts:146`). In
  Figma they begin outside of the group, so the node is shifted by the group's
  place. `NothingIsSeenToMove` is what does hold: moves out of groups and through
  groups that come and go are not seen.

Observed while modelling and not judged, because nothing in the repository says
otherwise plainly (more under the modules above): the client that becomes active
by fallback is the last in order of first registration (`hub.mjs:51`), not the
last to connect; and a plugin that paired keeps `pairingInProgress` for as long
as it is connected (`server.mjs:179`).

**Bounds.** Every bound is a constant of a configuration. In the hub a
replacement needs two connections of one file, and the limit one call more than
places. In `OAuthGrants` the durations are shrunk to one to four moments and
keep the order the code gives them where a property depends on it: an access
token ends before its refresh token, a code within the slack of pruning
(`CodeTTL <= PruneSlack`), the grace of reuse before the retention of used
tokens. `MaxTime` lets a grant be made, live through `MaxLifetime`, and be
pruned; `MaxPairs` allows a token to be used, renewed and reused, and the action
stops there. In `CompanionPairing` the window closes and opens again within
`MaxClock`. In `RelayGateway` three sockets are one that serves, one that it
replaced and a stranger; three devices fill an account of two places with one
left over, for which two codes are out; the counters are at their limits with
two addresses; sockets, devices and codes are used once. In `PluginUi` two
sockets are the one there is and the one it replaced, and they are used again
without end. In `PluginCommands` the document has a node of every type that the
code tells apart, at depths that let one node be moved into another's subtree, and
a group of one node, which is left empty by moving, grouping or ungrouping it;
what three operations can do to each other, two mostly show, and references need
the third. In `McpHttp` a window of one event is exceeded twice over by the
POSTs of one grant, two of four keys fit the table, and two handoffs of two
assets reach every limit of the store. In `ControlChannel` the second companion
starts before, during and after the first one's end, the clients' clock is a
moment ahead, as far as `Skew` allows; nonces expire within
`MaxTime`, and two calls fill the cache of two. In `AgentMarketplace` a run that
ended early is followed by another, and that by a third.

Symmetry is used in `OAuthRequests`, `GatewaySafety`, `WindowSafety`, `McpHttp`
and `ControlChannel`, which have no liveness, over constants that the
specification does not tell apart. `Hub` and `PairingSafety` have liveness and
none.

Deadlock is checked in `Hub` and the two runs of `UndoTransaction`, whose
`Quiescent` says when everything is over, and in `WindowSafety`, which never
stops. The others stop where a bound does: a clock at its last moment, sockets, POSTs,
attempts or runs that are used up, a command that is done.

**Fairness.** `FigmaHub`: the two timers fire and the continuation of an await
runs; nothing is assumed about plugins or networks. `CompanionPairing`: timers
fire, and a connection that is being closed gets its close event (the
WebSocket library closes the socket itself after its own timeout). No liveness
is claimed elsewhere: there everything waits for a person, an app or a plugin.

## 4. What TLAPS proves

For every value of the constants that meets the named assumptions. Those about
the hub need `HubAssumption`, those about pairing `PairingAssumption`, which says
that prompts are closer to each other than a window is long, as the code's are:

- `HubInvariant`: `HubInv` holds. It is `TypeOK` and the safety properties with
  what they need to be inductive: keys are distinct and are exactly the
  registered clients, an entry exists for every call that was sent, a registered
  connection is authenticated for its client and not closed, and a set of
  pending calls is finite. From it follow `TypeCorrect`, `ActiveClient`,
  `PendingMap`, `Waiters` and `Answers`.
- `Newest`: `NewestConnectionServes`, by two more invariants over the history of
  registrations: a connection registers once (`JoinedInv`), and a client is
  served by the last of its connections or by none (`NewestInv`).
- `HubImplementsContract`: under the mapping of `FigmaHub!Seen` every step of
  the hub is a step of `RpcContract` or leaves it alone. `Close` is the one that
  needs the invariant: the calls it rejects are those the abstract `Lose` fails.
- `PairingInvariant`: `pairingInProgress` is a lock that a connection holds from
  the start of its pairing to its close event; dialogs are only shown by the
  holder, and a code that was compared is spent. `Dialogs`
  (`PairingIsSerialized`) and `Timers` follow.
- `GatewayInvariant`: `GatewayInv` holds. It ties the closure of each socket to
  the tables (an authenticated socket has a device that has a row, and a client
  of that device), the registry to the sockets (who serves is connected and of
  the account), calls to hubs, and counters to the set of anonymous sockets.
  From it follow `RemovedDevices` (`RemovedDevicesArePowerless`), `Hubs`,
  `PendingCalls`, `Counters`, and, for steps, `Places` and `Members`.
- `Limits` and `CodesAreUsedOnce`, together `Joining`, are about the tables
  alone: every step of the gateway is a step of the tables or leaves them
  (`GatewayStoreStep`). The first counts: a step adds at most one device, or one
  code, to the account whose limit it looked at. The second needs that no step
  brings a spent code back, and that every code a device joined with is spent.
- `UndoInvariant`: `UndoInv` holds, whichever commands overlap. Commands that run
  at the same time have met. A transaction that nothing committed into
  (`Uncrossed`) finds the newest committed state to be the document without what
  was done since its boundary; what is done is in the document, and in the newest
  committed state as long as a transaction can still be rolled back to it.
  `UncrossedRollbacks` and `FinishedWork` (`FinishedWorkStays`) follow.
  `UndoInterleaved` shows that `Uncrossed` cannot be left out.
- `WindowInvariant`: `CoreInv` holds. The socket there is belongs to the present
  generation and is not gone, and a device's connection still has its device;
  with them no other socket is open, retries and calls fit the connection, and
  who is connected proved it. `OneConnection`, `CommandsAreProven` and, for
  steps, `ReplacedTimers` follow.
- `TabsInvariant`: `CodeInv` holds. What is connected or tried again fits the tab
  and has its credentials; `Codes` and `Idle` are part of it.
- `GrantsInvariant`: `ApprovalInv` and `TokenInv` hold. The first ties requests,
  grants and devices together: a request whose grant exists is exchanged, so no
  second grant comes from it (`OneLine`, with the second); who decided is who looked
  last, which only `LookupRequest` changes and only before the decision
  (`Decisions`); a request that a removed device decided was created before the
  removal, and its code ends within the lifetimes of a request and a code
  (`LateGrants`). The second is about tokens: one unused refresh token a grant,
  which ends last; among access tokens the latest ends last; a revoked grant has
  none (`Revocation`). They make the listing, which looks at the latest expiry of
  either kind, show what is usable (`Access`). `Pruning` reads each deletion
  of `Prune` against what someone could still do; for it codes live within the
  slack of pruning (part of `OAuthAssumption`).
- `Prompts`: `pairingStarts` is the end of the history of prompts, and what it lost
  is older than a window (`RateInv`), so a prompt that the code's list no longer
  counts could not have been counted.
- `Endpoint`: the port is a lock that a companion holds from `Bind` until it is
  released, and only its holder makes a socket; whoever removes one without the
  port is lingering, and then the holder is an heir (`ProcessInv`, `HeirsAreKnown`). `Once`: a call's
  request is on its way to one companion before it is dispatched and to none
  after (`CallInv`). `Shared`: there is one token as long as nobody adds a second
  set of credentials, credentials never vanish from the file, and who adds a
  second set is counted (`SharedInv`). `Replays`: a companion's cache is the end
  of what it accepted, and what it lost had expired or made room
  (`LineInv`, `MemoryInv`).
- `InFlight`: each action moves one POST and the one counter of its account, and
  the set of POSTs that counts changes by that POST. `Links`: a file that a
  session holds is never overwritten, because the name that is chosen is free
  (that there is a free one among finitely many candidates is the pigeonhole
  principle, `IsFiniteSet` and cardinality), sessions only grow, and what has not
  expired is listed (`LinksInv`). `Floods`: a window that is in the table counts
  what its key did since it began, and what its key did before lies a window
  back; a key without a window did at most its limit within the last one
  (`LimiterInv`).
- `Unlisted` (`UnauthenticatedAreCounted`): the counters are exact (`Counters`), and
  the gateway compares their sum with the total limit, so the sum has to be the
  number of anonymous sockets. `LimitsInv` says that and the two limits; a counter
  that goes up or down by one takes the sum with it (`SumOfChange`), and only
  `Connect` raises one, after it has looked at both limits.
- `Storage` (`StorageIsBounded`): `open()` and `save()` look at what the listed
  sessions hold, in all and of the account; `saveManifest()` adds to that without
  looking. `StorageInv` holds the bound with one more for each session that has a
  manifest, and says why that is enough: a handoff under way has a session of its
  own, which has no manifest yet. A step changes the sum by what it changes of
  one session (`SumOfChange`), pruning takes whole sessions out of it
  (`SumOfParts`), each of which holds at least what its manifest added
  (`SumIsAtLeast`). A session that is no longer listed holds exactly the assets
  its handoff has saved so far, which the handoff limits (`SizesInv`), and so many
  of them hold at most so many times that limit (`SumIsAtMost`).
- `MarketInvariant`: `MarketInv` holds, of which each part says what an
  installation owes at each of its places. Codex has no root, or the shared one
  with a manifest, from its detachment on (`RootInv`), and there is a root to
  restore as long as it found one (`RestoreInv`); `CodexRoot` and `Restoring`
  follow. A sibling's copy and its entry are in the shared root, or its entry is in
  the older one and the copy in either; what the merge has entered is what it had
  found and no longer has to do (`SiblingsInv`, `Merged`). Claude Code has its
  siblings or will install them again (`ClaudeInv`); `Siblinghood` follows. Nothing
  is assumed about where earlier runs ended: the invariant holds between runs.
- `CommandInvariant`: `CommandInv` holds. While a transaction runs, the last undo
  boundary is the document it found, for no operation in it makes one of its own
  (`ReturnsTo`); every earlier named operation has its result, and a reference was
  checked to be to an earlier one (`ResultsAreThere`); what is created or updated
  was found to fit (`FitsBefore`). `Atomicity`, `ReferenceResults` and `Refusals`
  follow, for any document and any operations on it: no more is used of the
  operations by these three than that they give a document and a result.
- `Stillness` (`NothingIsSeenToMove`) and `Previews` (`PreviewNamesTargets`) are
  about what the operations do, in a document of any size and depth. `DocInv` says
  that, as long as nothing failed, the document is a tree with the older nodes of
  the one the command found, without those that are gone (`Grown`); that moving
  operations alone, none of them into a group, left every node where it was seen
  (`Still`); and that a batch that was planned throughout left every node as it was
  that its plan did not name, nor its parent, unless it is a group that is gone
  (`Foretold`, `Remains`). Each operation is one lemma on the way from `Converting`
  to `Doing`: the document remains a tree, and the operation touches only the
  nodes of its items and their children (`Affects`, `Touches`). A node that is
  reparented takes with it what is seen of it (`Carried`), which is shifted by the
  difference between the two parents (`Reparenting`); a group is made and dissolved
  by doing that to several (`Gathering`, `Dissolving`). To find that a moved node is
  put back where it was, one has to know where it is seen in between
  (`Displacing`), which is where the group of `NothingIsSeenToMoveAtAll` differs
  (`Moving`). Groups that are left empty are taken away one after another
  (`PruningOne`), and what is in them is nothing but groups (`Tidying`). That
  operations find what earlier ones left is where it could go wrong: a search, for
  one, looks at the document as it is by then, but what it finds among the nodes
  that were spared was there when it was planned (`ReachesNamed`, `LeavesOn`).

The sum over a set (`SumFunction` of the community modules) is a fold, which is
defined by recursion over the set. `Sums` proves what is needed of it without an
induction theorem: if the fold differed from the cardinality of `Units` for some
subset, it would for a smallest one (`SmallestSubset`), but for that one the two
are computed in the same way from a smaller one (`CountUnfolds`).

What is above a node, and where it is seen, is defined along the tree. That these
definitions have a solution, and so unfold, is proved without an induction
theorem, too (`TreeRecursion`): the nodes without a value would be a group without
a way to the page. Two solutions agree for the same reason. A fold over a list is
the last of as many stages as the list has members (`FoldStages`), and what
holds of the first stage and passes from each to the next holds of the last,
because among the naturals at which it does not there would be a least one.

The theorems about the gateway assume `AccountsAssumption` and
`GatewayAssumption`, those about undo `UndoAssumption`, those about commands
`CommandsAssumption`, and about what they do to the document `ItemsAssumption` and
`DocumentAssumption`, those about the window `UiAssumption`, those about grants
`OAuthAssumption`, those about the control channel `ControlAssumption`, those
about pairing `PairingAssumption`, those about POSTs `McpAssumption`, those about
the installer `MarketAssumption`. A module of proofs about several components
extends them all, so no two of these share a name (`UndoInit`, `CommandInit`,
`PairingInit`); each theorem is about the specification of one of them.

Some results are proved and have no run of their own (`PendingMap`, `Timers`,
`ReplacedTimers`, `Hubs`, `PendingCalls`, `Counters`): each was checked by TLC
before it was proved, and its place in the runs was given to another.

Only model-checked is liveness (`EveryCallSettles`, `ConnectionsAreDecided`): TLAPS
1.4.5 does not prove fairness properties. Every other property of a passing run is
a theorem.

## 5. What could come next

- `AgentMarketplace`: moves across file systems, which copy and then remove, and
  whose interruption leaves half a root.
- Places in two dimensions with rotation, as transforms that are multiplied:
  `Reparenting` would need their inverses, and nothing else of the argument.
- `PluginCommands`: several commands at a time, composed with `UndoTransaction`.
- The reading commands as they race with changing ones: a handoff reads a
  document that another command edits between two of its awaits.
- The approvals and lists of the plugin's window, with `OAuthGrants` behind them.

## 6. Not modelled

- `RelayProcess` (`relay/src/app.mjs`, `main.mjs`, `cli.mjs`): routing, configuration and
  pages; its two periodic prunings are `Prune` of `AccountsStore` and
  `PruneAssets` of `McpHttp`.
- `CompanionProcess` (`companion/src/cli.mjs`) and cryptography
  (`plugin-auth.mjs`, `bridge-auth.js`, `codes.mjs`): a proof, a signature or a
  secret is right or wrong in the models.
- `Installation` (`scripts/setup.mjs`, `dev.mjs`, `runtime/runtime-bootstrap.mjs`,
  `install.sh`, `install.ps1`) and `Checks` (`scripts/check.mjs`, `live-verify.mjs`):
  downloads, files and processes one after another; no state that two parties
  share.
- Reading commands of the plugin (inspection, export, audits, the collection of a
  handoff) and the tools of `tools.mjs` that only translate a call into a
  command: they keep no state and change none.
- The page of the plugin beyond its connections: approvals, lists, layout.
- In the relay's gateway and OAuth endpoints the rate limits, origins, methods
  and bodies that refuse a request before anything changes.

## 7. Running

```
tlc -workers 2 -config Hub.cfg FigmaHub             # any run of PROJECT.json
tlapm FigmaHubProofs.tla
```
