---------------------------- MODULE ControlChannel ----------------------------
(***************************************************************************)
(* How MCP adapters find and reach the local companion:                    *)
(* plugins/figma-bridge/mcp/control.mjs and autostart.mjs, and the start   *)
(* and the end of companion/src/server.mjs. Any number of processes may be *)
(* started at any time, by adapters, by the login service or by the user;  *)
(* the loopback port is their lock. They share the state file and, on      *)
(* macOS, the path of the control socket; on Windows the name of the pipe  *)
(* is in the state file.                                                   *)
(*                                                                         *)
(* A step is what a process does between two places where it waits, or     *)
(* between two accesses to the state file; and between two of its own      *)
(* calls, when what another process does there makes a difference. When a  *)
(* server is closed, Node removes what is at the path of its socket, its   *)
(* own or not; a killed process leaves it behind.                          *)
(***************************************************************************)
EXTENDS Integers, SequencesExt, FiniteSetsExt

CONSTANTS
  Companions,   \* processes that run the companion, each once
  Tools,        \* processes of `figma-bridge pair`, which prints the token
  Calls,        \* tool calls of adapters
  MaxAttempts,  \* attempts that fit into START_WAIT_MS
  Skew,         \* MAX_CLOCK_SKEW_MS
  MaxNonces,    \* MAX_REMEMBERED_NONCES
  Ahead,        \* how far the clock of the clients is ahead of the companions'
  MaxReplays,   \* bound: requests that are delivered once more
  MaxTime       \* bound

Processes == Companions \cup Tools
Nobody == "nobody"

ASSUME ControlAssumption ==
  /\ Companions \cap Tools = {}
  /\ {Nobody, "older"} \cap Processes = {}
  /\ {MaxAttempts, MaxNonces} \subseteq Nat \ {0}
  /\ {Skew, Ahead, MaxReplays, MaxTime} \subseteq Nat

Missing == [token |-> Nobody, secret |-> Nobody, id |-> Nobody]

\* A state that an older version wrote, without credentials.
Older == [token |-> "older", secret |-> Nobody, id |-> Nobody]

\* The path of the control socket.
Path == "control.sock"

NoLine == [nonce |-> <<>>]

VARIABLES
  platform,
  port,        \* the process that listens on the loopback port
  file,        \* state.json: who made its token, its secret and its pipe id
  endpoint,    \* the sockets and pipes there are, and who made them
  at,          \* where a process is
  mine,        \* the state a process has read or written
  repairs,     \* how many processes added credentials to an older state
  heirs,       \* history: who got the port from one that has yet to remove the socket
  seen,        \* seenNonces of a companion, oldest first
  accepted,    \* history: the requests a companion accepted
  call,        \* where a call is, its attempts, what it read, whom it reached
  wire,        \* the companion that has yet to handle the request of a call
  line,        \* the last request a call sent
  dispatched,  \* history: how often the request of a call was dispatched
  replays,
  now

lock == <<port, heirs>>
files == <<file, mine, repairs>>
client == <<call, wire, line>>
guard == <<seen, accepted, dispatched, replays>>
vars == <<platform, port, file, endpoint, at, mine, repairs, heirs, seen, accepted, call, wire, line, dispatched,
          replays, now>>

Idle == [at |-> "idle", attempt |-> 1, secret |-> Nobody, name |-> Nobody, to |-> Nobody]

Init ==
  /\ platform \in {"darwin", "win32"}
  /\ port = Nobody
  /\ file \in {Missing, Older}
  /\ endpoint = <<>>
  /\ at = [p \in Processes |-> "off"]
  /\ mine = [p \in Processes |-> Missing]
  /\ repairs = 0
  /\ heirs = {}
  /\ seen = [p \in Companions |-> <<>>]
  /\ accepted = [p \in Companions |-> <<>>]
  /\ call = [c \in Calls |-> Idle]
  /\ wire = [c \in Calls |-> Nobody]
  /\ line = [c \in Calls |-> NoLine]
  /\ dispatched = [c \in Calls |-> 0]
  /\ replays = 0
  /\ now = 0

-----------------------------------------------------------------------------
(* The state file *)

Put(f, k, v) == [x \in DOMAIN f \cup {k} |-> IF x = k THEN v ELSE f[x]]

HasCredentials(s) == s.secret # Nobody

\* The command that prints the token keeps nothing else.
Kept(p, s) == IF p \in Tools /\ HasCredentials(s) THEN [Missing EXCEPT !.token = s.token] ELSE s

\* readState() of ensureState(); a companion calls it when it has the port.
Read(p) ==
  /\ at[p] \in {"bound", "created"} \/ (p \in Tools /\ at[p] = "off")
  /\ mine' = [mine EXCEPT ![p] = Kept(p, file)]
  /\ at' = [at EXCEPT ![p] = IF file = Missing THEN "creating"
                              ELSE IF HasCredentials(file) THEN "ready" ELSE "repairing"]
  /\ UNCHANGED <<platform, lock, file, endpoint, repairs, client, guard, now>>

\* Mutant: the new state is renamed to its place.
Created_Renamed(p) == [token |-> p, secret |-> p, id |-> p]

\* link() fails when there is a state.
Created(p) == IF file = Missing THEN [token |-> p, secret |-> p, id |-> p] ELSE file

Create(p) ==
  /\ at[p] = "creating"
  /\ file' = Created(p)
  /\ at' = [at EXCEPT ![p] = "created"]
  /\ UNCHANGED <<platform, lock, endpoint, mine, repairs, client, guard, now>>

\* The credentials are added to the state that was read before.
Repair(p) ==
  /\ at[p] = "repairing"
  /\ mine' = [mine EXCEPT ![p] = [@ EXCEPT !.secret = p, !.id = p]]
  /\ file' = mine'[p]
  /\ repairs' = repairs + 1
  /\ at' = [at EXCEPT ![p] = "ready"]
  /\ UNCHANGED <<platform, lock, endpoint, client, guard, now>>

\* rotateControlId()
Rotate(p) ==
  /\ p \in Companions /\ at[p] = "ready"
  /\ mine' = [mine EXCEPT ![p] = [@ EXCEPT !.id = p]]
  /\ file' = mine'[p]
  /\ at' = [at EXCEPT ![p] = "rotated"]
  /\ UNCHANGED <<platform, lock, endpoint, repairs, client, guard, now>>

-----------------------------------------------------------------------------
(* The companion *)

\* controlEndpoint()
EndpointOf(s) == IF platform = "win32" THEN s.id ELSE Path

Starting == {"bound", "creating", "created", "repairing", "ready", "rotated", "opened"}

\* The port is released, and the control server still listens.
Lingering == {"released", "failing"}

Alive(p) == at[p] \in Starting \cup Lingering \cup {"listening", "closing"}

\* A step that does not look at the socket for connections or requests.
IsBusy(p) == at[p] \in {"opened", "released"}

\* EADDRINUSE: the companion is already running.
Bind(p) ==
  /\ p \in Companions /\ at[p] = "off"
  /\ IF port = Nobody
     THEN /\ port' = p /\ at' = [at EXCEPT ![p] = "bound"]
          /\ heirs' = IF platform # "win32" /\ \E q \in Companions : at[q] \in Lingering
                      THEN heirs \cup {p} ELSE heirs
     ELSE at' = [at EXCEPT ![p] = "exited"] /\ UNCHANGED lock
  /\ UNCHANGED <<platform, file, endpoint, mine, repairs, client, guard, now>>

\* The socket of whoever was there before is removed, and the server listens.
Listen(p) ==
  /\ at[p] = "rotated"
  /\ endpoint' = Put(endpoint, EndpointOf(mine[p]), p)
  /\ at' = [at EXCEPT ![p] = "opened"]
  /\ UNCHANGED <<platform, lock, files, client, guard, now>>

\* chmodSync() and statSync() of a socket.
Secure(p) ==
  /\ at[p] = "opened" /\ EndpointOf(mine[p]) \in DOMAIN endpoint
  /\ at' = [at EXCEPT ![p] = "listening"]
  /\ UNCHANGED <<platform, lock, files, endpoint, client, guard, now>>

WithoutOwn(p) == Restrict(endpoint, {name \in DOMAIN endpoint : endpoint[name] # p})

\* The server of a pipe takes its own pipe with it.
WithoutPath(p) == IF platform = "win32" THEN WithoutOwn(p) ELSE Restrict(endpoint, DOMAIN endpoint \ {Path})

Released(p) == IF port = p THEN Nobody ELSE port

\* What a process remembers is gone with it.
Gone(p) ==
  /\ at' = [at EXCEPT ![p] = "exited"]
  /\ mine' = [mine EXCEPT ![p] = Missing]
  /\ heirs' = heirs \ {p}
  /\ seen' = [seen EXCEPT ![p] = <<>>]
  /\ accepted' = [accepted EXCEPT ![p] = <<>>]
  /\ UNCHANGED <<file, repairs, dispatched, replays>>

\* And what it has not handled.
Dropped(p) == wire' = [c \in Calls |-> IF wire[c] = p THEN Nobody ELSE wire[c]]

\* The state is invalid, or a file cannot be written, or the server cannot listen,
\* when the former socket is gone already: the port is released.
FailToStart(p) ==
  /\ p \in Companions /\ at[p] \in Starting \ {"opened"}
  /\ port' = Released(p)
  /\ endpoint' \in {endpoint} \cup (IF at[p] = "rotated" THEN {WithoutPath(p)} ELSE {})
  /\ Gone(p)
  /\ UNCHANGED <<platform, client, now>>

\* The socket cannot be made private, or is no longer there: the port is released,
\* and the process waits for the end of its connections.
FailAfterListen(p) ==
  /\ at[p] = "opened" /\ platform # "win32"
  /\ port' = Released(p)
  /\ at' = [at EXCEPT ![p] = "failing"]
  /\ UNCHANGED <<platform, files, endpoint, heirs, client, guard, now>>

\* Then the control server is closed, and the error ends the process.
EndFailed(p) ==
  /\ at[p] = "failing"
  /\ endpoint' = WithoutPath(p)
  /\ Dropped(p)
  /\ Gone(p)
  /\ UNCHANGED <<platform, port, call, line, now>>

\* close(): the servers stop to listen, those on the port first.
Close(p) ==
  /\ at[p] = "listening"
  /\ port' = Released(p)
  /\ at' = [at EXCEPT ![p] = "released"]
  /\ UNCHANGED <<platform, files, endpoint, heirs, client, guard, now>>

\* With a result or an error.
Ended == [Idle EXCEPT !.at = "ended"]

\* autostartRequest(): the call is tried again until the time is up.
TriedAgain(r) ==
  IF r.attempt < MaxAttempts THEN [Idle EXCEPT !.at = "again", !.attempt = r.attempt + 1] ELSE Ended

\* Mutant: a reset connection is one more proof that nobody runs.
AfterReset_Again(r) == TriedAgain(r)

\* isNotRunningError(): a reset connection proves nothing.
AfterReset(r) == Ended

\* The control server is closed. Connections it has not taken yet are reset.
CloseControl(p) ==
  /\ at[p] = "released"
  /\ endpoint' = WithoutPath(p)
  /\ at' = [at EXCEPT ![p] = "closing"]
  /\ \E lost \in SUBSET {c \in Calls : wire[c] = p} :
       /\ wire' = [c \in Calls |-> IF c \in lost THEN Nobody ELSE wire[c]]
       /\ call' = [c \in Calls |-> IF c \in lost /\ call[c].at = "sent" THEN AfterReset(call[c]) ELSE call[c]]
  /\ UNCHANGED <<platform, lock, files, line, guard, now>>

\* Mutant: the control socket is removed whoever made it.
Unlinked_Any(p) == Restrict(endpoint, DOMAIN endpoint \ {EndpointOf(mine[p])})

\* The socket is removed if it is still the one this process made.
Unlinked(p) == WithoutOwn(p)

\* The control connections have ended.
Exit(p) ==
  /\ at[p] = "closing"
  /\ \A c \in Calls : wire[c] # p
  /\ \A c \in Calls : call[c].at \in {"sent", "handled"} => call[c].to # p
  /\ endpoint' = IF platform = "win32" THEN endpoint ELSE Unlinked(p)
  /\ Gone(p)
  /\ UNCHANGED <<platform, port, client, now>>

\* The process is killed; a pipe goes with it, a socket stays.
Crash(p) ==
  /\ p \in Companions /\ Alive(p)
  /\ port' = Released(p)
  /\ endpoint' = IF platform = "win32" THEN WithoutOwn(p) ELSE endpoint
  /\ Dropped(p)
  /\ Gone(p)
  /\ UNCHANGED <<platform, call, line, now>>

-----------------------------------------------------------------------------
(* A call of an adapter *)

\* requestControl() reads the state each time.
Ask(c) ==
  /\ call[c].at \in {"idle", "again"}
  /\ call' = [call EXCEPT ![c] =
       IF HasCredentials(file) THEN [@ EXCEPT !.at = "asking", !.secret = file.secret, !.name = EndpointOf(file)]
       ELSE TriedAgain(@)]
  /\ UNCHANGED <<platform, lock, files, endpoint, at, wire, line, guard, now>>

Reached(c) == {p \in Companions : /\ call[c].name \in DOMAIN endpoint
                                  /\ endpoint[call[c].name] = p
                                  /\ at[p] \in Lingering \cup {"opened", "listening"}}

\* ENOENT, or ECONNREFUSED by a socket nobody listens to.
NotRunning(c) ==
  /\ call[c].at = "asking" /\ Reached(c) = {}
  /\ call' = [call EXCEPT ![c] = TriedAgain(@)]
  /\ UNCHANGED <<platform, lock, files, endpoint, at, wire, line, guard, now>>

Connect(c) ==
  /\ call[c].at = "asking"
  /\ \E p \in Reached(c) :
       /\ call' = [call EXCEPT ![c].at = "sent", ![c].to = p]
       /\ line' = [line EXCEPT ![c] = [nonce |-> <<c, call[c].attempt>>, secret |-> call[c].secret, ts |-> now + Ahead]]
       /\ wire' = [wire EXCEPT ![c] = p]
  /\ UNCHANGED <<platform, lock, files, endpoint, at, guard, now>>

\* The companion is gone before its answer arrives.
Reset(c) ==
  /\ call[c].at \in {"sent", "handled"} /\ at[call[c].to] = "exited"
  /\ call' = [call EXCEPT ![c] = AfterReset(@)]
  /\ UNCHANGED <<platform, lock, files, endpoint, at, wire, line, guard, now>>

\* The call takes too long; what was sent is still handled.
TimeOut(c) ==
  /\ call[c].at = "sent"
  /\ call' = [call EXCEPT ![c] = Ended]
  /\ UNCHANGED <<platform, lock, files, endpoint, at, wire, line, guard, now>>

-----------------------------------------------------------------------------
(* verifyRequest() *)

IsFresh(m) == now - m.ts <= Skew /\ m.ts - now <= Skew

\* From the oldest on, until there is one that has not expired, and room.
Remembered(s) ==
  LET kept == {i \in 1 .. Len(s) + 1 :
                 /\ i <= Len(s) => s[i].expiresAt > now
                 /\ Len(s) - i + 1 < MaxNonces}
  IN SubSeq(s, Min(kept), Len(s))

\* Mutant: a nonce is remembered for as long as its own clock allows.
ExpiresAt_Once == now + Skew

ExpiresAt == now + 2 * Skew

IsAuthentic(p, m) == m.secret = mine[p].secret /\ IsFresh(m)

Accepts(p, m) == IsAuthentic(p, m) /\ \A e \in ToSet(Remembered(seen[p])) : e.nonce # m.nonce

Verify(p, m) ==
  /\ seen' = IF ~IsAuthentic(p, m) THEN seen
             ELSE [seen EXCEPT ![p] =
                     IF Accepts(p, m) THEN Append(Remembered(@), [nonce |-> m.nonce, expiresAt |-> ExpiresAt])
                     ELSE Remembered(@)]
  /\ accepted' = IF Accepts(p, m)
                 THEN [accepted EXCEPT ![p] = Append(@, [nonce |-> m.nonce, ts |-> m.ts, time |-> now])]
                 ELSE accepted

\* handleLine(): the request is dispatched, and answered if its sender is there.
\* An answer that says what was wrong with a request is not authentic.
Handle(c) ==
  /\ wire[c] # Nobody /\ ~IsBusy(wire[c])
  /\ Verify(wire[c], line[c])
  /\ dispatched' = [dispatched EXCEPT ![c] = @ + (IF Accepts(wire[c], line[c]) THEN 1 ELSE 0)]
  /\ call' = IF call[c].at # "sent" THEN call
             ELSE [call EXCEPT ![c] = IF Accepts(wire[c], line[c]) THEN [@ EXCEPT !.at = "handled"] ELSE Ended]
  /\ wire' = [wire EXCEPT ![c] = Nobody]
  /\ UNCHANGED <<platform, lock, files, endpoint, at, line, replays, now>>

\* The result reaches the adapter.
Answer(c) ==
  /\ call[c].at = "handled" /\ at[call[c].to] # "exited"
  /\ call' = [call EXCEPT ![c] = Ended]
  /\ UNCHANGED <<platform, lock, files, endpoint, at, wire, line, guard, now>>

\* A request is delivered once more, to a companion that has accepted one.
Replay(p, c) ==
  /\ replays < MaxReplays
  /\ p \in Companions /\ at[p] = "listening" /\ accepted[p] # <<>> /\ line[c] # NoLine
  /\ Verify(p, line[c])
  /\ replays' = replays + 1
  /\ UNCHANGED <<platform, lock, files, endpoint, at, client, dispatched, now>>

\* Nobody looks at the clock when no request is under way or can come again.
Tick ==
  /\ now < MaxTime
  /\ \E c \in Calls : wire[c] # Nobody \/ (line[c] # NoLine /\ replays < MaxReplays)
  /\ now' = now + 1
  /\ UNCHANGED <<platform, lock, files, endpoint, at, client, guard>>

Next ==
  \/ \E p \in Processes : Read(p) \/ Create(p) \/ Repair(p)
  \/ \E p \in Companions :
       \/ Rotate(p) \/ Bind(p) \/ Listen(p) \/ Secure(p) \/ FailToStart(p) \/ FailAfterListen(p) \/ EndFailed(p)
       \/ Close(p) \/ CloseControl(p) \/ Exit(p) \/ Crash(p)
  \/ \E c \in Calls :
       Ask(c) \/ NotRunning(c) \/ Connect(c) \/ Reset(c) \/ TimeOut(c) \/ Handle(c) \/ Answer(c)
  \/ \E p \in Companions, c \in Calls : Replay(p, c)
  \/ Tick

Spec == Init /\ [][Next]_vars

-----------------------------------------------------------------------------
(* Properties *)

\* However often an adapter tries, while companions start, end and are killed,
\* its command is dispatched once at most (autostart.mjs:15).
CalledAtMostOnce == \A c \in Calls : dispatched[c] <= 1

LeadsTo(name, p) == name \in DOMAIN endpoint /\ endpoint[name] = p

\* A companion that listens has the port, and its endpoint leads to no other, to
\* it unless it got the port from one whose control server was still open, which
\* then removed the path: neither one that starts, nor one that dies, nor one that
\* ended before takes its place (server.mjs:47).
EndpointStaysWithItsOwner ==
  \A p \in Companions : at[p] = "listening" =>
    /\ port = p
    /\ \/ LeadsTo(EndpointOf(mine[p]), p)
       \/ EndpointOf(mine[p]) \notin DOMAIN endpoint /\ p \in heirs

\* What the comparison of the inode is for (server.mjs:262), that a companion which
\* ends leaves the socket of its successor alone: false, and checked by no run.
\* close() and the failure after listen() release the port first, and then close
\* the control server, with which Node removes what is at the path.
SuccessorsAreReached ==
  \A p \in Companions : at[p] = "listening" => LeadsTo(EndpointOf(mine[p]), p)

\* What a running companion proves itself with is what adapters read from the
\* state file, and the token that `pair` prints is the one it accepts, whoever
\* created the file first (control.mjs:70), unless two processes have added
\* credentials to the same older state.
StateIsShared ==
  repairs <= 1 =>
    /\ \A p \in Companions : at[p] = "listening" => file = mine[p]
    /\ \A p \in Tools : at[p] = "ready" => mine[p].token = file.token

\* A companion accepts a request again only when as many others as it remembers
\* came in between, or in the very millisecond its timestamp turns stale, if it
\* was as far ahead as may be (control.mjs:185).
ReplaysAreRefused ==
  \A p \in Companions : \A i, j \in DOMAIN accepted[p] :
    i < j /\ accepted[p][i].nonce = accepted[p][j].nonce =>
      \/ j - i >= MaxNonces
      \/ accepted[p][j].time = accepted[p][j].ts + Skew /\ accepted[p][j].ts = accepted[p][i].time + Skew
=============================================================================
