---------------------------- MODULE CompanionProofs ----------------------------
(***************************************************************************)
(* Theorems about the companion: about ControlChannel, for any number of   *)
(* companions, tools and calls, on either platform; and, at the end, about *)
(* CompanionPairing, for any number of connections and any limits.         *)
(***************************************************************************)
EXTENDS ControlChannel, CompanionPairing, NaturalsInduction, WellFoundedInduction, TLAPS

Names == Processes \cup {Nobody}

States == [token : Names \cup {"older"}, secret : Names, id : Names]

Places == {"off", "bound", "creating", "created", "repairing", "ready", "rotated", "opened", "listening",
           "released", "failing", "closing", "exited"}

-----------------------------------------------------------------------------
(* The processes and their endpoint *)

ProcessTypes ==
  /\ platform \in {"darwin", "win32"}
  /\ port \in Companions \cup {Nobody}
  /\ file \in States
  /\ at \in [Processes -> Places]
  /\ mine \in [Processes -> States]
  /\ repairs \in Nat

\* The port is the lock of a companion, from its start to its end.
PortIsLock == \A p \in Companions : at[p] \in Starting \cup {"listening"} => port = p

\* Tools only read the state, or make it.
ToolsOnlyRead ==
  \A t \in Tools : at[t] \in {"off", "creating", "created", "repairing", "ready"}

\* Who starts, or listens, while another has yet to remove its socket got the port
\* from it.
HeirsAreKnown ==
  platform # "win32" =>
    \A q, p \in Companions : at[q] \in Lingering /\ at[p] \in Starting \cup {"listening"} => p \in heirs

\* The name of a companion that has made its endpoint leads to it, or nowhere.
OpenEndpoints ==
  \A p \in Companions : at[p] \in {"opened", "listening"} =>
    LeadsTo(EndpointOf(mine[p]), p) \/ (EndpointOf(mine[p]) \notin DOMAIN endpoint /\ p \in heirs)

ProcessInv == ProcessTypes /\ PortIsLock /\ ToolsOnlyRead /\ HeirsAreKnown /\ OpenEndpoints

LEMMA InitProcesses == Init => ProcessInv
BY ControlAssumption DEF Init, ProcessInv, ProcessTypes, PortIsLock, ToolsOnlyRead, HeirsAreKnown, OpenEndpoints,
   Starting, Lingering, States, Names, Places, Missing, Older, Processes

\* A step that neither moves a process nor touches what it has.
LEMMA ProcessesStay ==
  ASSUME ProcessInv, UNCHANGED <<platform, port, file, endpoint, at, mine, repairs, heirs>>
  PROVE  ProcessInv'
BY DEF ProcessInv, ProcessTypes, PortIsLock, ToolsOnlyRead, HeirsAreKnown, OpenEndpoints, EndpointOf, LeadsTo

\* The endpoints after a step of p that makes none: all, those of others, or, when
\* p has the port or is about to remove its socket, none at the path of a socket.
Spares(p) ==
  \/ endpoint' \in {endpoint, WithoutOwn(p)}
  \/ endpoint' = WithoutPath(p) /\ p \in Companions /\ (at[p] \in Lingering \/ port = p)

\* A step of a process that neither opens nor listens when it is done.
LEMMA ProcessMoves ==
  ASSUME ProcessInv, NEW p \in Processes, NEW place \in Places \ {"opened", "listening"},
         at' = [at EXCEPT ![p] = place], platform' = platform, Spares(p),
         file' \in States, mine' \in [Processes -> States], repairs' \in Nat,
         \A q \in Processes : q # p => mine'[q] = mine[q],
         \A q \in Companions : q # p => (q \in heirs' <=> q \in heirs),
         \/ port' = port /\ (p \in Companions /\ place \in Starting => at[p] \in Starting /\ heirs' = heirs)
         \/ /\ port = Nobody /\ port' = p /\ p \in Companions
            /\ platform # "win32" /\ (\E q \in Companions : at[q] \in Lingering) => p \in heirs'
         \/ port' = Released(p) /\ p \in Companions /\ place \notin Starting,
         place \in Lingering => port = p,
         p \in Tools => place \in {"off", "creating", "created", "repairing", "ready"}
  PROVE  ProcessInv'
<1> USE DEF ProcessInv
<1>1. /\ at'[p] = place /\ at' \in [Processes -> Places]
      /\ \A q \in Processes : q # p => at'[q] = at[q]
  BY DEF ProcessTypes
<1>2. Companions \subseteq Processes /\ Tools \subseteq Processes /\ p \notin Companions \cap Tools /\ Nobody \notin Companions
  BY ControlAssumption DEF Processes
<1>3. ProcessTypes'
  BY <1>1, <1>2 DEF ProcessTypes, Released
<1>4. PortIsLock'
  BY <1>1, <1>2 DEF PortIsLock, Released
<1>5. ToolsOnlyRead'
  BY <1>1, <1>2 DEF ToolsOnlyRead
<1>6. HeirsAreKnown'
  <2> SUFFICES ASSUME platform # "win32", NEW q \in Companions, NEW r \in Companions,
                      at'[q] \in Lingering, at'[r] \in Starting \cup {"listening"}
               PROVE  r \in heirs'
    BY DEF HeirsAreKnown
  <2>0. q # r /\ Lingering \cap (Starting \cup {"listening"}) = {}
    BY DEF Lingering, Starting
  <2>1. CASE q = p
    <3>1. port = p /\ at[r] = at'[r]
      BY <1>1, <1>2, <2>0, <2>1
    <3> QED
      BY <2>0, <2>1, <3>1 DEF PortIsLock
  <2>2. CASE r = p
    <3>1. at[q] \in Lingering /\ place \in Starting
      BY <1>1, <1>2, <2>0, <2>2
    <3> QED
      BY <2>2, <3>1 DEF HeirsAreKnown
  <2>3. CASE q # p /\ r # p
    <3>1. at[q] \in Lingering /\ at[r] \in Starting \cup {"listening"}
      BY <1>1, <1>2, <2>3
    <3> QED
      BY <2>3, <3>1 DEF HeirsAreKnown
  <2> QED
    BY <2>1, <2>2, <2>3
<1>7. OpenEndpoints'
  <2> SUFFICES ASSUME NEW q \in Companions, at'[q] \in {"opened", "listening"}
               PROVE  \/ LeadsTo(EndpointOf(mine[q]), q)'
                      \/ EndpointOf(mine[q])' \notin DOMAIN endpoint' /\ q \in heirs'
    BY DEF OpenEndpoints
  <2>1. q # p /\ at[q] = at'[q] /\ mine'[q] = mine[q] /\ (q \in heirs' <=> q \in heirs) /\ port = q
    BY <1>1, <1>2 DEF PortIsLock, Starting
  <2>2. PICK name : name = EndpointOf(mine[q])
    OBVIOUS
  <2>3. EndpointOf(mine[q])' = name
    BY <2>1, <2>2 DEF EndpointOf
  <2>4. (name \in DOMAIN endpoint /\ endpoint[name] = q) \/ (name \notin DOMAIN endpoint /\ q \in heirs)
    BY <2>1, <2>2 DEF OpenEndpoints, LeadsTo
  <2>5. CASE endpoint' \in {endpoint, WithoutOwn(p)}
    <3>1. /\ DOMAIN endpoint' \subseteq DOMAIN endpoint
          /\ name \in DOMAIN endpoint /\ endpoint[name] = q => name \in DOMAIN endpoint' /\ endpoint'[name] = q
      BY <2>1, <2>5 DEF WithoutOwn, Restrict
    <3> QED
      BY <2>1, <2>3, <2>4, <3>1 DEF LeadsTo
  <2>6. CASE endpoint' = WithoutPath(p) /\ platform # "win32" /\ at[p] \in Lingering /\ p \in Companions
    <3>1. q \in heirs
      BY <2>1, <2>6 DEF HeirsAreKnown, Starting
    <3>2. name = Path /\ Path \notin DOMAIN endpoint'
      BY <2>2, <2>6 DEF EndpointOf, WithoutPath, Restrict
    <3> QED
      BY <2>1, <2>3, <3>1, <3>2
  <2>7. platform = "win32" => WithoutPath(p) = WithoutOwn(p)
    BY DEF WithoutPath
  <2> QED
    BY <2>1, <2>5, <2>6, <2>7 DEF Spares
<1> QED
  BY <1>3, <1>4, <1>5, <1>6, <1>7

LEMMA StepProcesses == ProcessInv /\ [Next]_vars => ProcessInv'
<1> SUFFICES ASSUME ProcessInv, [Next]_vars PROVE ProcessInv'
  OBVIOUS
<1> USE DEF files, lock, client, guard
<1>0. /\ Companions \subseteq Processes /\ Tools \subseteq Processes /\ Companions \cap Tools = {}
      /\ Nobody \notin Processes
      /\ Missing \in States /\ file \in States
      /\ mine \in [Processes -> States] /\ repairs \in Nat /\ at \in [Processes -> Places]
      /\ \A p \in Processes : [token |-> p, secret |-> p, id |-> p] \in States
      /\ \A p \in Processes, s \in States : Kept(p, s) \in States
  <2>1. /\ Companions \subseteq Processes /\ Tools \subseteq Processes /\ Companions \cap Tools = {}
        /\ Nobody \notin Processes
        /\ Missing \in States /\ file \in States
        /\ mine \in [Processes -> States] /\ repairs \in Nat /\ at \in [Processes -> Places]
        /\ \A p \in Processes : [token |-> p, secret |-> p, id |-> p] \in States
    BY ControlAssumption DEF ProcessInv, ProcessTypes, Processes, States, Names, Missing
  <2>2. \A s \in States : [Missing EXCEPT !.token = s.token] \in States
    BY DEF States, Names, Missing
  <2> QED
    BY <2>1, <2>2 DEF Kept
<1>1. ASSUME NEW p \in Processes, Read(p) PROVE ProcessInv'
  <2> DEFINE place == IF file = Missing THEN "creating" ELSE IF HasCredentials(file) THEN "ready" ELSE "repairing"
  <2>1. place \in Places \ {"opened", "listening"} /\ place \in {"creating", "ready", "repairing"}
    BY DEF Places
  <2>2. /\ at' = [at EXCEPT ![p] = place] /\ mine' = [mine EXCEPT ![p] = Kept(p, file)]
        /\ UNCHANGED <<platform, port, file, endpoint, repairs, heirs>>
    BY <1>1 DEF Read
  <2>3. p \in Companions => at[p] \in Starting
    BY <1>0, <1>1 DEF Read, Starting
  <2> HIDE DEF place
  <2>4. place \notin Lingering /\ Spares(p)
    BY <2>1, <2>2 DEF Lingering, Spares
  <2> QED
    BY <1>0, <2>1, <2>2, <2>3, <2>4, ProcessMoves
<1>2. ASSUME NEW p \in Processes, Create(p) PROVE ProcessInv'
  <2>1. p \in Companions => at[p] \in Starting
    BY <1>2 DEF Create, Starting
  <2>2. file' \in States
    BY <1>0, <1>2 DEF Create, Created
  <2>3. /\ at' = [at EXCEPT ![p] = "created"] /\ Spares(p)
        /\ UNCHANGED <<platform, port, mine, repairs, heirs>>
    BY <1>2 DEF Create, Spares
  <2>4. mine' \in [Processes -> States] /\ repairs' \in Nat /\ \A q \in Processes : q # p => mine'[q] = mine[q]
    BY <1>0, <2>3
  <2>5. "created" \in Places \ {"opened", "listening"} /\ "created" \notin Lingering
    BY DEF Places, Lingering
  <2> QED
    BY <1>2, <2>1, <2>2, <2>3, <2>4, <2>5, ProcessMoves
<1>3. ASSUME NEW p \in Processes, Repair(p) PROVE ProcessInv'
  <2>1. p \in Companions => at[p] \in Starting
    BY <1>3 DEF Repair, Starting
  <2>2. [mine[p] EXCEPT !.secret = p, !.id = p] \in States
    <3>1. \A s \in States : [s EXCEPT !.secret = p] \in States /\ [s EXCEPT !.id = p] \in States
      BY <1>0 DEF States, Names
    <3>2. mine[p] \in States
      BY <1>0
    <3> HIDE DEF States
    <3> QED
      BY <3>1, <3>2, Zenon
  <2>3. /\ mine' = [mine EXCEPT ![p] = [mine[p] EXCEPT !.secret = p, !.id = p]]
        /\ file' = mine'[p] /\ repairs' = repairs + 1
    BY <1>3 DEF Repair
  <2>4. file' \in States /\ mine' \in [Processes -> States] /\ repairs' \in Nat
        /\ \A q \in Processes : q # p => mine'[q] = mine[q]
    BY <1>0, <2>2, <2>3
  <2>5. /\ at' = [at EXCEPT ![p] = "ready"] /\ Spares(p)
        /\ UNCHANGED <<platform, port, heirs>>
    BY <1>3 DEF Repair, Spares
  <2> QED
    BY <1>0, <2>1, <2>4, <2>5, ProcessMoves DEF Places, Lingering
<1>4. ASSUME NEW p \in Companions, Rotate(p) PROVE ProcessInv'
  <2>1. at[p] \in Starting
    BY <1>4 DEF Rotate, Starting
  <2>2. [mine[p] EXCEPT !.id = p] \in States
    BY <1>0 DEF States, Names
  <2>3. mine' = [mine EXCEPT ![p] = [mine[p] EXCEPT !.id = p]] /\ file' = mine'[p]
    BY <1>4 DEF Rotate
  <2>4. file' \in States /\ mine' \in [Processes -> States]
        /\ \A q \in Processes : q # p => mine'[q] = mine[q]
    BY <1>0, <2>2, <2>3
  <2>5. /\ at' = [at EXCEPT ![p] = "rotated"] /\ Spares(p)
        /\ UNCHANGED <<platform, port, repairs, heirs>>
    BY <1>4 DEF Rotate, Spares
  <2> QED
    BY <1>0, <2>1, <2>4, <2>5, ProcessMoves DEF Places, Lingering
<1>5. ASSUME NEW p \in Companions, Bind(p) PROVE ProcessInv'
  <2>1. at[p] = "off" /\ Spares(p) /\ UNCHANGED <<platform, file, mine, repairs>>
    BY <1>5 DEF Bind, Spares
  <2>2. CASE port = Nobody
    <3>1. /\ port' = p /\ at' = [at EXCEPT ![p] = "bound"] /\ heirs \subseteq heirs' /\ heirs' \subseteq heirs \cup {p}
          /\ platform # "win32" /\ (\E q \in Companions : at[q] \in Lingering) => p \in heirs'
      BY <1>5, <2>2 DEF Bind
    <3> QED
      BY <1>0, <2>1, <2>2, <3>1, ProcessMoves DEF Places, Lingering
  <2>3. CASE at' = [at EXCEPT ![p] = "exited"] /\ UNCHANGED lock
    BY <1>0, <2>1, <2>3, ProcessMoves DEF Places, Starting, Lingering
  <2> QED
    BY <1>5, <2>2, <2>3 DEF Bind
\* A process ends.
<1>6. ASSUME NEW p \in Companions, Gone(p), platform' = platform, Spares(p),
             port' = Released(p) \/ port' = port
      PROVE  ProcessInv'
  <2>1. /\ at' = [at EXCEPT ![p] = "exited"] /\ mine' = [mine EXCEPT ![p] = Missing]
        /\ heirs' = heirs \ {p} /\ UNCHANGED <<file, repairs>>
    BY <1>6 DEF Gone
  <2>2. "exited" \in Places \ {"opened", "listening"} /\ "exited" \notin Starting \cup Lingering
    BY DEF Places, Starting, Lingering
  <2> QED
    BY <1>0, <1>6, <2>1, <2>2, ProcessMoves
<1>7. ASSUME NEW p \in Companions, FailToStart(p) \/ EndFailed(p) \/ Exit(p) \/ Crash(p) PROVE ProcessInv'
  <2>1. CASE FailToStart(p)
    <3>1. port = p
      BY <2>1 DEF FailToStart, ProcessInv, PortIsLock
    <3> QED
      BY <1>6, <2>1, <3>1 DEF FailToStart, Spares
  <2>2. CASE EndFailed(p)
    BY <1>6, <2>2 DEF EndFailed, Spares, Lingering
  <2>3. CASE Exit(p) \/ Crash(p)
    <3>1. endpoint' \in {endpoint, WithoutOwn(p)}
      BY <2>3 DEF Exit, Crash, Unlinked
    <3> QED
      BY <1>6, <2>3, <3>1 DEF Exit, Crash, Spares
  <2> QED
    BY <1>7, <2>1, <2>2, <2>3
<1>8. ASSUME NEW p \in Companions, FailAfterListen(p) \/ Close(p) \/ CloseControl(p) PROVE ProcessInv'
  <2>1. CASE FailAfterListen(p) \/ Close(p)
    <3>1. /\ port = p /\ port' = Released(p) /\ Spares(p)
          /\ \E place \in {"failing", "released"} : at' = [at EXCEPT ![p] = place]
          /\ UNCHANGED <<platform, file, mine, repairs, heirs>>
      BY <2>1 DEF FailAfterListen, Close, Spares, ProcessInv, PortIsLock, Starting
    <3> QED
      BY <1>0, <3>1, ProcessMoves DEF Places, Starting
  <2>2. CASE CloseControl(p)
    <3>1. /\ at[p] = "released" /\ endpoint' = WithoutPath(p) /\ at' = [at EXCEPT ![p] = "closing"]
          /\ UNCHANGED <<platform, port, file, mine, repairs, heirs>>
      BY <2>2 DEF CloseControl
    <3> QED
      BY <1>0, <3>1, ProcessMoves DEF Spares, Places, Starting, Lingering
  <2> QED
    BY <1>8, <2>1, <2>2
<1>11. ASSUME NEW p \in Companions, Listen(p) \/ Secure(p) PROVE ProcessInv'
  <2>1. PICK place \in {"opened", "listening"} :
          /\ at' = [at EXCEPT ![p] = place] /\ at[p] \in {"rotated", "opened"}
          /\ place = "opened" => endpoint' = Put(endpoint, EndpointOf(mine[p]), p)
          /\ place = "listening" => endpoint' = endpoint /\ at[p] = "opened"
          /\ UNCHANGED <<platform, port, file, mine, repairs, heirs>>
    BY <1>11 DEF Listen, Secure
  <2>2. /\ at'[p] = place /\ at' \in [Processes -> Places]
        /\ \A q \in Processes : q # p => at'[q] = at[q]
    BY <1>0, <2>1 DEF Places
  <2>3. port = p /\ \A q \in Companions : q # p => at[q] \notin {"opened", "listening"}
    BY <2>1 DEF ProcessInv, PortIsLock, Starting
  <2>4. ProcessTypes' /\ ToolsOnlyRead' /\ PortIsLock'
    BY <1>0, <2>1, <2>2, <2>3 DEF ProcessInv, ProcessTypes, ToolsOnlyRead, PortIsLock
  <2>5. HeirsAreKnown'
    <3>1. \A q \in Companions : /\ at'[q] \in Lingering => at[q] \in Lingering
                                /\ at'[q] \in Starting \cup {"listening"} => at[q] \in Starting \cup {"listening"}
      BY <1>0, <2>1, <2>2 DEF Lingering, Starting
    <3> QED
      BY <2>1, <3>1 DEF ProcessInv, HeirsAreKnown
  <2>6. \/ LeadsTo(EndpointOf(mine[p]), p)'
        \/ EndpointOf(mine[p])' \notin DOMAIN endpoint' /\ p \in heirs'
    <3>1. EndpointOf(mine[p])' = EndpointOf(mine[p])
      BY <2>1 DEF EndpointOf
    <3>2. CASE place = "opened"
      BY <2>1, <3>1, <3>2 DEF Put, LeadsTo
    <3>3. CASE place = "listening"
      BY <2>1, <3>1, <3>3 DEF ProcessInv, OpenEndpoints, LeadsTo
    <3> QED
      BY <3>2, <3>3
  <2>7. OpenEndpoints'
    BY <1>0, <2>2, <2>3, <2>6 DEF OpenEndpoints
  <2> QED
    BY <2>4, <2>5, <2>7 DEF ProcessInv
<1>9. ASSUME NEW c \in Calls,
             Ask(c) \/ NotRunning(c) \/ Connect(c) \/ Reset(c) \/ TimeOut(c) \/ Handle(c) \/ Answer(c)
      PROVE  ProcessInv'
  <2>1. UNCHANGED <<platform, port, file, endpoint, at, mine, repairs, heirs>>
    BY <1>9 DEF Ask, NotRunning, Connect, Reset, TimeOut, Handle, Answer
  <2> QED
    BY <2>1, ProcessesStay
<1>10. CASE Tick \/ (\E p \in Companions, c \in Calls : Replay(p, c)) \/ UNCHANGED vars
  <2>1. UNCHANGED <<platform, port, file, endpoint, at, mine, repairs, heirs>>
    BY <1>10 DEF Tick, Replay, vars
  <2> QED
    BY <2>1, ProcessesStay
<1> QED
  BY <1>1, <1>2, <1>3, <1>4, <1>5, <1>7, <1>8, <1>9, <1>10, <1>11 DEF Next

\* A companion that listens has the port, and its endpoint leads to it, whatever
\* starts, fails or is killed meanwhile; unless it got the port from one that had
\* yet to close its control server, and so removed the socket of its successor:
\* then it leads nowhere, and never to another (startBridgeServer(), close()).
THEOREM Endpoint == Spec => []EndpointStaysWithItsOwner
<1>1. ProcessInv => EndpointStaysWithItsOwner
  BY DEF ProcessInv, PortIsLock, OpenEndpoints, EndpointStaysWithItsOwner
<1> QED
  BY <1>1, InitProcesses, StepProcesses, PTL DEF Spec

-----------------------------------------------------------------------------
(* A call is dispatched once *)

CallTypes ==
  /\ wire \in [Calls -> Companions \cup {Nobody}]
  /\ dispatched \in [Calls -> Nat]
  /\ \A c \in Calls : call[c].at \in {"idle", "again", "asking", "sent", "handled", "ended"}

\* A call that asks for the companion has sent nothing yet that anybody handles;
\* one whose request is on its way has not been dispatched, and asks no more.
CallsOnce ==
  \A c \in Calls :
    /\ dispatched[c] <= 1
    /\ call[c].at \in {"idle", "again", "asking"} => wire[c] = Nobody /\ dispatched[c] = 0
    /\ wire[c] # Nobody => dispatched[c] = 0

CallInv == CallTypes /\ DOMAIN call = Calls /\ CallsOnce

LEMMA InitCalls == Init => CallInv
BY DEF Init, CallInv, CallTypes, CallsOnce, Idle

LEMMA StepCalls == CallInv /\ [Next]_vars => CallInv'
<1> SUFFICES ASSUME CallInv, [Next]_vars PROVE CallInv'
  OBVIOUS
<1>0. Nobody \notin Companions
  BY ControlAssumption DEF Processes
<1>1. CASE UNCHANGED <<call, wire, dispatched>>
  BY <1>1 DEF CallInv, CallTypes, CallsOnce
\* Only the place of a call moves.
<1>2. ASSUME NEW c \in Calls, NEW r, call' = [call EXCEPT ![c] = r], UNCHANGED <<wire, dispatched>>,
             \/ r.at \in {"handled", "ended"}
             \/ r.at \in {"again", "asking"} /\ call[c].at \in {"idle", "again", "asking"}
      PROVE  CallInv'
  <2>1. /\ DOMAIN call' = Calls /\ call'[c] = r /\ \A d \in Calls : d # c => call'[d] = call[d]
    BY <1>2 DEF CallInv
  <2>2. CallTypes'
    BY <1>2, <2>1 DEF CallInv, CallTypes
  <2>3. CallsOnce'
    BY <1>2, <2>1 DEF CallInv, CallsOnce
  <2> QED
    BY <2>1, <2>2, <2>3 DEF CallInv
<1>3. ASSUME NEW r PROVE TriedAgain(r).at \in {"again", "ended"} /\ Ended.at = "ended"
  BY DEF TriedAgain, Ended, Idle
<1>4. ASSUME NEW c \in Calls, Ask(c) PROVE CallInv'
  <2>1. CASE HasCredentials(file)
    <3> DEFINE r == [call[c] EXCEPT !.at = "asking", !.secret = file.secret, !.name = EndpointOf(file)]
    <3>1. call' = [call EXCEPT ![c] = r] /\ call[c].at \in {"idle", "again"} /\ UNCHANGED <<wire, dispatched>>
      BY <1>4, <2>1 DEF Ask, guard
    <3>2. r.at = "asking"
      OBVIOUS
    <3> HIDE DEF r
    <3> QED
      BY <1>2, <3>1, <3>2
  <2>2. CASE ~HasCredentials(file)
    <3>1. call' = [call EXCEPT ![c] = TriedAgain(call[c])] /\ call[c].at \in {"idle", "again"}
          /\ UNCHANGED <<wire, dispatched>>
      BY <1>4, <2>2 DEF Ask, guard
    <3> QED
      BY <1>2, <1>3, <3>1
  <2> QED
    BY <2>1, <2>2
<1>5. ASSUME NEW c \in Calls, NotRunning(c) PROVE CallInv'
  <2>1. call' = [call EXCEPT ![c] = TriedAgain(call[c])] /\ call[c].at = "asking" /\ UNCHANGED <<wire, dispatched>>
    BY <1>5 DEF NotRunning, guard
  <2> QED
    BY <1>2, <1>3, <2>1
<1>6. ASSUME NEW c \in Calls, Connect(c) PROVE CallInv'
  <2>1. PICK p \in Reached(c) : /\ call' = [call EXCEPT ![c].at = "sent", ![c].to = p]
                                /\ wire' = [wire EXCEPT ![c] = p]
    BY <1>6 DEF Connect
  <2>2. p \in Companions /\ call[c].at = "asking" /\ dispatched' = dispatched
    BY <1>6 DEF Connect, Reached, guard
  <2>3. /\ DOMAIN call' = Calls /\ call'[c].at = "sent" /\ \A d \in Calls : d # c => call'[d] = call[d]
    <3>1. DOMAIN call' = Calls
      BY <2>1 DEF CallInv
    <3>2. call'[c] = [[call[c] EXCEPT !.at = "sent"] EXCEPT !.to = p]
      BY <2>1 DEF CallInv
    <3>3. \A d \in Calls : d # c => call'[d] = call[d]
      BY <2>1 DEF CallInv
    <3>4. call'[c].at = "sent"
      BY <3>2
    <3> QED
      BY <3>1, <3>3, <3>4
  <2>4. wire' \in [Calls -> Companions \cup {Nobody}] /\ wire'[c] = p /\ \A d \in Calls : d # c => wire'[d] = wire[d]
    BY <2>1, <2>2 DEF CallInv, CallTypes
  <2>5. CallTypes'
    BY <2>2, <2>3, <2>4 DEF CallInv, CallTypes
  <2>6. CallsOnce'
    BY <2>2, <2>3, <2>4 DEF CallInv, CallsOnce
  <2> QED
    BY <2>3, <2>5, <2>6 DEF CallInv
<1>7. ASSUME NEW c \in Calls, Reset(c) \/ TimeOut(c) \/ Answer(c) PROVE CallInv'
  <2>1. call' = [call EXCEPT ![c] = Ended] /\ UNCHANGED <<wire, dispatched>>
    BY <1>7 DEF Reset, TimeOut, Answer, AfterReset, guard
  <2> QED
    BY <1>2, <1>3, <2>1
<1>8. ASSUME NEW c \in Calls, Handle(c) PROVE CallInv'
  <2> DEFINE one == IF Accepts(wire[c], line[c]) THEN 1 ELSE 0
  <2>1. wire[c] # Nobody /\ wire' = [wire EXCEPT ![c] = Nobody] /\ dispatched' = [dispatched EXCEPT ![c] = @ + one]
    BY <1>8 DEF Handle
  <2>2. one \in 0 .. 1
    OBVIOUS
  <2> HIDE DEF one
  <2>3. /\ dispatched' \in [Calls -> Nat] /\ dispatched'[c] <= 1
        /\ \A d \in Calls : d # c => dispatched'[d] = dispatched[d]
    BY <2>1, <2>2 DEF CallInv, CallTypes, CallsOnce
  <2>4. /\ wire' \in [Calls -> Companions \cup {Nobody}] /\ wire'[c] = Nobody
        /\ \A d \in Calls : d # c => wire'[d] = wire[d]
    BY <2>1 DEF CallInv, CallTypes
  <2>5. call[c].at \in {"sent", "handled", "ended"}
    BY <2>1 DEF CallInv, CallTypes, CallsOnce
  <2>6. DOMAIN call' = Calls /\ call'[c].at \in {"sent", "handled", "ended"} /\ \A d \in Calls : d # c => call'[d] = call[d]
    <3>1. CASE call' = call
      BY <2>5, <3>1 DEF CallInv
    <3>2. CASE call' = [call EXCEPT ![c] = [@ EXCEPT !.at = "handled"]] /\ call[c].at = "sent"
      <4>1. DOMAIN call' = Calls /\ call'[c] = [call[c] EXCEPT !.at = "handled"] /\ \A d \in Calls : d # c => call'[d] = call[d]
        BY <3>2 DEF CallInv
      <4>2. "at" \in DOMAIN call[c] => call'[c].at = "handled"
        BY <4>1
      <4> QED
        BY <4>1, <4>2
    <3>3. CASE call' = [call EXCEPT ![c] = Ended]
      BY <1>3, <3>3 DEF CallInv
    <3> QED
      BY <1>8, <3>1, <3>2, <3>3 DEF Handle
  <2>7. CallTypes'
    BY <2>3, <2>4, <2>6 DEF CallInv, CallTypes
  <2>8. CallsOnce'
    BY <2>3, <2>4, <2>6 DEF CallInv, CallsOnce
  <2> QED
    BY <2>6, <2>7, <2>8 DEF CallInv
<1>9. ASSUME NEW p \in Companions, Crash(p) \/ EndFailed(p) \/ CloseControl(p) PROVE CallInv'
  <2>1. /\ dispatched' = dispatched
        /\ wire' \in [Calls -> Companions \cup {Nobody}] /\ \A c \in Calls : wire'[c] \in {wire[c], Nobody}
    <3>1. CASE Crash(p) \/ EndFailed(p)
      BY <3>1 DEF Crash, EndFailed, Gone, Dropped, CallInv, CallTypes
    <3>2. CASE CloseControl(p)
      BY <3>2 DEF CloseControl, guard, CallInv, CallTypes
    <3> QED
      BY <1>9, <3>1, <3>2
  <2>2. DOMAIN call' = Calls /\ \A c \in Calls : call'[c] = call[c] \/ (call[c].at = "sent" /\ call'[c] = Ended)
    <3>1. CASE Crash(p) \/ EndFailed(p)
      BY <3>1 DEF Crash, EndFailed, CallInv
    <3>2. CASE CloseControl(p)
      BY <3>2 DEF CloseControl, AfterReset
    <3> QED
      BY <1>9, <3>1, <3>2
  <2>3. CallTypes'
    BY <1>3, <2>1, <2>2 DEF CallInv, CallTypes
  <2>4. CallsOnce'
    BY <1>3, <2>1, <2>2 DEF CallInv, CallsOnce
  <2> QED
    BY <2>2, <2>3, <2>4 DEF CallInv
<1> QED
  BY <1>1, <1>4, <1>5, <1>6, <1>7, <1>8, <1>9
  DEF Next, vars, client, guard, Gone, Read, Create, Repair, Rotate, Bind, Listen, Secure, FailToStart,
      FailAfterListen, Close, Exit, Replay, Tick

\* A command is dispatched once at most, however often the adapter tries while
\* companions start and end, and however late a request is handled
\* (autostartRequest(): only a call that sent nothing is tried again).
THEOREM Once == Spec => []CalledAtMostOnce
<1>1. CallInv => CalledAtMostOnce
  BY DEF CallInv, CallsOnce, CalledAtMostOnce
<1> QED
  BY <1>1, InitCalls, StepCalls, PTL DEF Spec

-----------------------------------------------------------------------------
(* The state that all share *)

\* Where a process has a state that was in the file, and where one with credentials.
WithState == {"repairing", "ready", "rotated", "opened", "listening"}
WithCredentials == {"ready", "rotated", "opened", "listening"}

\* The token is nobody's to change.
OneToken == \A p \in Processes : at[p] \in WithState => file # Missing /\ mine[p].token = file.token

Credentials ==
  \A p \in Processes : at[p] \in WithCredentials => HasCredentials(file) /\ (p \in Companions => HasCredentials(mine[p]))

\* Whoever is about to add credentials to a state that has some is not the first.
Repaired == \A p \in Processes : at[p] = "repairing" /\ HasCredentials(file) => repairs >= 1

CompanionIsCurrent ==
  repairs <= 1 => \A p \in Companions : at[p] \in WithCredentials => file = mine[p]

SharedInv == OneToken /\ Credentials /\ Repaired /\ CompanionIsCurrent

LEMMA InitShared == Init => SharedInv
BY ControlAssumption
DEF Init, SharedInv, OneToken, Credentials, Repaired, CompanionIsCurrent, WithState, WithCredentials, Processes

\* A process that has, or gets, no state of its own, or keeps the one it has.
LEMMA SharedMoves ==
  ASSUME ProcessInv, SharedInv, NEW p \in Processes, NEW place \in Places,
         at' = [at EXCEPT ![p] = place], UNCHANGED <<file, repairs>>,
         \A q \in Processes : q # p => mine'[q] = mine[q],
         \/ place \notin WithState
         \/ at[p] \in WithCredentials /\ place \in WithCredentials /\ mine' = mine
  PROVE  SharedInv'
<1>1. /\ at'[p] = place /\ \A q \in Processes : q # p => at'[q] = at[q]
      /\ Companions \subseteq Processes
  BY DEF ProcessInv, ProcessTypes, Processes
<1>2. WithCredentials \subseteq WithState /\ "repairing" \notin WithCredentials /\ "repairing" \in WithState
  BY DEF WithCredentials, WithState
<1>3. OneToken'
  BY <1>1, <1>2 DEF SharedInv, OneToken
<1>4. Credentials'
  BY <1>1, <1>2 DEF SharedInv, Credentials, HasCredentials
<1>5. Repaired'
  BY <1>1, <1>2 DEF SharedInv, Repaired, HasCredentials
<1>6. CompanionIsCurrent'
  BY <1>1, <1>2 DEF SharedInv, CompanionIsCurrent
<1> QED
  BY <1>3, <1>4, <1>5, <1>6 DEF SharedInv

\* A process writes what it has, with credentials and the token that is there.
LEMMA SharedWrites ==
  ASSUME ProcessInv, SharedInv, NEW p \in Processes, NEW place \in WithCredentials,
         at[p] \in WithState,
         at' = [at EXCEPT ![p] = place], HasCredentials(file)', file'.token = file.token,
         mine'[p] = file', \A q \in Processes : q # p => mine'[q] = mine[q],
         \/ at[p] = "repairing" /\ repairs' = repairs + 1
         \/ at[p] \in WithCredentials /\ repairs' = repairs /\ p \in Companions
  PROVE  SharedInv'
<1>1. /\ at'[p] = place /\ \A q \in Processes : q # p => at'[q] = at[q]
      /\ Companions \subseteq Processes /\ repairs \in Nat
  BY DEF ProcessInv, ProcessTypes, Processes
<1>2. WithCredentials \subseteq WithState /\ "repairing" \notin WithCredentials /\ "repairing" \in WithState
  BY DEF WithCredentials, WithState
<1>3. file' # Missing
  BY DEF HasCredentials, Missing
<1>4. OneToken'
  BY <1>1, <1>2, <1>3 DEF SharedInv, OneToken
<1>5. Credentials'
  BY <1>1, <1>2 DEF SharedInv, Credentials, HasCredentials
<1>6. Repaired'
  <2>1. CASE at[p] = "repairing" /\ repairs' = repairs + 1
    BY <1>1, <2>1 DEF Repaired
  <2>2. CASE at[p] \in WithCredentials /\ repairs' = repairs
    <3>1. HasCredentials(file)
      BY <2>2 DEF SharedInv, Credentials
    <3> QED
      BY <1>1, <1>2, <2>2, <3>1 DEF SharedInv, Repaired
  <2> QED
    BY <2>1, <2>2
<1>7. CompanionIsCurrent'
  <2> SUFFICES ASSUME repairs' <= 1, NEW q \in Companions, at'[q] \in WithCredentials, q # p
               PROVE  file' = mine'[q]
    BY DEF CompanionIsCurrent
  <2>1. q \in Processes /\ at[q] \in WithCredentials
    BY <1>1
  <2>2. HasCredentials(file)
    BY <2>1 DEF SharedInv, Credentials
  <2>3. at[p] # "repairing"
    BY <1>1, <1>2, <2>2 DEF SharedInv, Repaired
  <2>4. p \in Companions /\ at[p] \in WithCredentials
    BY <2>3
  <2> QED
    BY <2>1, <2>4 DEF ProcessInv, PortIsLock, Starting, WithCredentials
<1> QED
  BY <1>4, <1>5, <1>6, <1>7 DEF SharedInv

LEMMA StepShared == ProcessInv /\ SharedInv /\ [Next]_vars => SharedInv'
<1> SUFFICES ASSUME ProcessInv, SharedInv, [Next]_vars PROVE SharedInv'
  OBVIOUS
<1> USE DEF files, lock, client, guard
<1>0. /\ Companions \subseteq Processes /\ Nobody \notin Processes
      /\ mine \in [Processes -> States] /\ file \in States /\ at \in [Processes -> Places]
  BY ControlAssumption DEF ProcessInv, ProcessTypes, Processes
<1>1. CASE UNCHANGED <<file, mine, repairs, at>>
  BY <1>1 DEF SharedInv, OneToken, Credentials, Repaired, CompanionIsCurrent, HasCredentials
<1>2. ASSUME NEW p \in Processes, Read(p) PROVE SharedInv'
  <2>1. /\ mine' = [mine EXCEPT ![p] = Kept(p, file)] /\ UNCHANGED <<file, repairs>>
        /\ at' = [at EXCEPT ![p] = IF file = Missing THEN "creating"
                                    ELSE IF HasCredentials(file) THEN "ready" ELSE "repairing"]
    BY <1>2 DEF Read
  <2>0. Kept(p, file).token = file.token /\ (p \in Companions => Kept(p, file) = file)
    BY ControlAssumption DEF Kept, Missing
  <2>2. /\ mine'[p].token = file.token /\ (p \in Companions => mine'[p] = file)
        /\ \A q \in Processes : q # p => at'[q] = at[q] /\ mine'[q] = mine[q]
        /\ at'[p] = IF file = Missing THEN "creating" ELSE IF HasCredentials(file) THEN "ready" ELSE "repairing"
    BY <1>0, <2>0, <2>1
  <2>3. at'[p] \in WithState => file # Missing
    BY <2>2 DEF WithState
  <2>4. at'[p] \in WithCredentials => HasCredentials(file)
    BY <2>2 DEF WithCredentials
  <2>5. at'[p] = "repairing" => ~HasCredentials(file)
    BY <2>2
  <2>6. HasCredentials(file)' = HasCredentials(file)
    BY <2>1 DEF HasCredentials
  <2>7. OneToken'
    BY <2>1, <2>2, <2>3 DEF SharedInv, OneToken
  <2>8. Credentials'
    BY <2>1, <2>2, <2>4 DEF SharedInv, Credentials, HasCredentials
  <2>9. Repaired'
    BY <2>1, <2>2, <2>5, <2>6 DEF SharedInv, Repaired
  <2>10. CompanionIsCurrent'
    BY <1>0, <2>1, <2>2 DEF SharedInv, CompanionIsCurrent
  <2> QED
    BY <2>7, <2>8, <2>9, <2>10 DEF SharedInv
<1>3. ASSUME NEW p \in Processes, Create(p) PROVE SharedInv'
  <2>1. at' = [at EXCEPT ![p] = "created"] /\ UNCHANGED <<mine, repairs>> /\ file' = Created(p)
    BY <1>3 DEF Create
  <2>2. "created" \in Places /\ "created" \notin WithState
    BY DEF Places, WithState
  <2>3. CASE file = Missing
    <3>1. \A q \in Processes : at'[q] \notin WithState
      BY <1>0, <2>1, <2>2, <2>3 DEF SharedInv, OneToken
    <3>2. WithCredentials \subseteq WithState /\ "repairing" \in WithState
      BY DEF WithCredentials, WithState
    <3> QED
      BY <1>0, <3>1, <3>2 DEF SharedInv, OneToken, Credentials, Repaired, CompanionIsCurrent
  <2>4. CASE file # Missing
    <3>1. file' = file
      BY <2>1, <2>4 DEF Created
    <3> QED
      BY <2>1, <2>2, <3>1, SharedMoves
  <2> QED
    BY <2>3, <2>4
<1>4. ASSUME NEW p \in Processes, Repair(p) PROVE SharedInv'
  <2>1. /\ at[p] = "repairing" /\ at' = [at EXCEPT ![p] = "ready"] /\ repairs' = repairs + 1
        /\ mine' = [mine EXCEPT ![p] = [mine[p] EXCEPT !.secret = p, !.id = p]] /\ file' = mine'[p]
    BY <1>4 DEF Repair
  <2>2. \A s \in States : /\ [[s EXCEPT !.secret = p] EXCEPT !.id = p].token = s.token
                          /\ [[s EXCEPT !.secret = p] EXCEPT !.id = p].secret = p
    <3>1. \A s \in States : LET u == [s EXCEPT !.secret = p]
                            IN u \in States /\ u.token = s.token /\ u.secret = p
      BY <1>0 DEF States, Names
    <3>2. \A s \in States : LET u == [s EXCEPT !.id = p]
                            IN u.token = s.token /\ u.secret = s.secret
      BY DEF States
    <3> HIDE DEF States
    <3> QED
      BY <3>1, <3>2, Zenon
  <2>3. mine'[p] = [[mine[p] EXCEPT !.secret = p] EXCEPT !.id = p]
    BY <1>0, <2>1, Zenon
  <2>4. /\ file'.token = mine[p].token /\ file'.secret = p
        /\ mine'[p] = file' /\ \A q \in Processes : q # p => mine'[q] = mine[q]
    BY <1>0, <2>1, <2>2, <2>3, Zenon
  <2>5. at[p] \in WithState /\ "ready" \in WithCredentials
    BY <2>1 DEF WithState, WithCredentials
  <2>6. HasCredentials(file)' /\ file'.token = file.token
    BY <1>0, <2>4, <2>5 DEF SharedInv, OneToken, HasCredentials
  <2>7. at[p] = "repairing" /\ at' = [at EXCEPT ![p] = "ready"] /\ repairs' = repairs + 1
        /\ mine'[p] = file' /\ \A q \in Processes : q # p => mine'[q] = mine[q]
    BY <2>1, <2>4
  <2> QED
    BY <2>5, <2>6, <2>7, SharedWrites
<1>5. ASSUME NEW p \in Companions, Rotate(p) PROVE SharedInv'
  <2>1. /\ at[p] = "ready" /\ at' = [at EXCEPT ![p] = "rotated"] /\ repairs' = repairs
        /\ mine' = [mine EXCEPT ![p] = [mine[p] EXCEPT !.id = p]] /\ file' = mine'[p]
    BY <1>5 DEF Rotate
  <2>2. mine'[p] = [mine[p] EXCEPT !.id = p] /\ \A q \in Processes : q # p => mine'[q] = mine[q]
    BY <1>0, <2>1
  <2>3. mine'[p].token = mine[p].token /\ mine'[p].secret = mine[p].secret
    BY <1>0, <2>2 DEF States
  <2>4. at[p] \in WithState /\ at[p] \in WithCredentials /\ "rotated" \in WithCredentials
    BY <2>1 DEF WithState, WithCredentials
  <2>5. HasCredentials(file)' /\ file'.token = file.token
    BY <1>0, <2>1, <2>3, <2>4 DEF SharedInv, OneToken, Credentials, HasCredentials
  <2>6. /\ at' = [at EXCEPT ![p] = "rotated"] /\ repairs' = repairs
        /\ mine'[p] = file' /\ \A q \in Processes : q # p => mine'[q] = mine[q]
    BY <2>1, <2>2
  <2> QED
    BY <1>0, <2>4, <2>5, <2>6, SharedWrites
<1>6. ASSUME NEW p \in Companions,
             \/ Bind(p) \/ FailToStart(p) \/ FailAfterListen(p) \/ EndFailed(p)
             \/ Close(p) \/ CloseControl(p) \/ Exit(p) \/ Crash(p)
      PROVE  SharedInv'
  <2>1. PICK place \in {"bound", "exited", "failing", "released", "closing"} : at' = [at EXCEPT ![p] = place]
    BY <1>6 DEF Bind, FailToStart, FailAfterListen, EndFailed, Close, CloseControl, Exit, Crash, Gone
  <2>2. UNCHANGED <<file, repairs>> /\ mine' \in {mine, [mine EXCEPT ![p] = Missing]}
    BY <1>6 DEF Bind, FailToStart, FailAfterListen, EndFailed, Close, CloseControl, Exit, Crash, Gone
  <2>3. place \in Places /\ place \notin WithState
    BY DEF Places, WithState
  <2>4. \A q \in Processes : q # p => mine'[q] = mine[q]
    BY <1>0, <2>2
  <2> QED
    BY <1>0, <2>1, <2>2, <2>3, <2>4, SharedMoves
<1>7. ASSUME NEW p \in Companions, Listen(p) \/ Secure(p) PROVE SharedInv'
  <2>1. PICK place \in {"opened", "listening"} :
          at[p] \in {"rotated", "opened"} /\ at' = [at EXCEPT ![p] = place] /\ UNCHANGED <<file, repairs, mine>>
    BY <1>7 DEF Listen, Secure
  <2>2. place \in Places /\ at[p] \in WithCredentials /\ place \in WithCredentials
    BY <2>1 DEF Places, WithCredentials
  <2> QED
    BY <1>0, <2>1, <2>2, SharedMoves
<1> QED
  BY <1>1, <1>2, <1>3, <1>4, <1>5, <1>6, <1>7
  DEF Next, vars, Ask, NotRunning, Connect, Reset, TimeOut, Handle, Answer, Replay, Tick

\* A companion that listens has the state that adapters read, and the token that
\* `pair` prints is the one in the file, whoever made it, unless two processes
\* repaired the same older state (ensureState()).
THEOREM Shared == Spec => []StateIsShared
<1>1. ProcessInv /\ SharedInv => StateIsShared
  BY ControlAssumption DEF SharedInv, OneToken, CompanionIsCurrent, StateIsShared, WithState,
     WithCredentials, Processes
<1>2. Init => ProcessInv /\ SharedInv
  BY InitProcesses, InitShared
<1>3. ProcessInv /\ SharedInv /\ [Next]_vars => (ProcessInv /\ SharedInv)'
  BY StepProcesses, StepShared
<1> QED
  BY <1>1, <1>2, <1>3, PTL DEF Spec

-----------------------------------------------------------------------------
(* What a companion remembers *)

\* A nonempty set of natural numbers has a least one.
LEMMA LeastNumber ==
  ASSUME NEW T \in SUBSET Nat, T # {}
  PROVE  \E m \in T : \A k \in T : m <= k
<1>1. PICK m \in T : \A k \in T : ~(<<k, m>> \in OpToRel(<, Nat))
  BY WFMin, NatLessThanWellFounded, Zenon
<1>2. \A k \in T : ~(k < m)
  BY <1>1 DEF OpToRel
<1> QED
  BY <1>2

LEMMA Least ==
  ASSUME NEW T \in SUBSET Nat, T # {}
  PROVE  Min(T) \in T /\ \A k \in T : Min(T) <= k
<1>1. \E x \in T : \A k \in T : x <= k
  BY LeastNumber
<1> QED
  BY <1>1, Zenon DEF Min

Nonces == Calls \X Nat
Entries == [nonce : Nonces, expiresAt : Nat]
Requests == [nonce : Nonces, ts : Nat, time : Nat]

LEMMA Numbers == Skew \in Nat /\ MaxNonces \in Nat \ {0} /\ 2 * Skew \in Nat
BY ControlAssumption

\* What was accepted so far: no request had been there, or only long ago.
Refused(g) ==
  \A i, j \in 1 .. Len(g) :
    i < j /\ g[i].nonce = g[j].nonce =>
      j - i >= MaxNonces \/ (g[j].time = g[j].ts + Skew /\ g[j].ts = g[i].time + Skew)

\* The cache is the end of what was accepted; what it lost had expired, or made
\* room for as many others.
Memory(s, g, t) ==
  /\ s \in Seq(Entries) /\ g \in Seq(Requests)
  /\ Len(s) <= Len(g)
  /\ \A i \in 1 .. Len(s) :
       /\ s[i].nonce = g[Len(g) - Len(s) + i].nonce
       /\ s[i].expiresAt = g[Len(g) - Len(s) + i].time + 2 * Skew
  /\ \A i \in 1 .. Len(g) :
       /\ g[i].ts <= g[i].time + Skew
       /\ i <= Len(g) - Len(s) => g[i].time + 2 * Skew <= t \/ Len(g) + 1 - i >= MaxNonces

LEMMA Forgetting ==
  ASSUME NEW s, NEW g, now \in Nat, Memory(s, g, now)
  PROVE  Memory(Remembered(s), g, now)
<1> DEFINE kept == {i \in 1 .. Len(s) + 1 :
                      /\ i <= Len(s) => s[i].expiresAt > now
                      /\ Len(s) - i + 1 < MaxNonces}
<1>0. s \in Seq(Entries) /\ g \in Seq(Requests) /\ Len(s) \in Nat /\ Len(g) \in Nat /\ Len(s) <= Len(g)
  BY DEF Memory
<1>1. kept \in SUBSET Nat /\ kept # {}
  <2>1. Len(s) + 1 \in kept
    BY <1>0, Numbers
  <2> QED
    BY <1>0, <2>1
<1>2. PICK m : m = Min(kept)
  OBVIOUS
<1>3. m \in kept /\ \A k \in kept : m <= k
  <2> HIDE DEF kept
  <2> QED
    BY <1>1, <1>2, Least
<1>4. m \in 1 .. Len(s) + 1
  BY <1>3
<1>5. \A i \in 1 .. m - 1 : s[i].expiresAt <= now \/ Len(s) - i + 1 >= MaxNonces
  <2> SUFFICES ASSUME NEW i \in 1 .. m - 1 PROVE s[i].expiresAt <= now \/ Len(s) - i + 1 >= MaxNonces
    OBVIOUS
  <2>0. i < m /\ i \in 1 .. Len(s)
    BY <1>0, <1>4
  <2>1. i \notin kept /\ i \in 1 .. Len(s) + 1 /\ i \in 1 .. Len(s)
    <3> HIDE DEF kept
    <3>1. i \notin kept
      BY <1>0, <1>3, <1>4, <2>0
    <3> QED
      BY <1>0, <2>0, <3>1
  <2>2. s[i].expiresAt \in Nat
    <3>1. s[i] \in Entries
      BY <1>0, <2>1
    <3> QED
      BY <3>1 DEF Entries
  <2> QED
    BY <1>0, <2>1, <2>2, Numbers
<1> DEFINE r == Remembered(s)
<1>6. r = SubSeq(s, m, Len(s))
  BY <1>2 DEF Remembered
<1> HIDE DEF kept, r
<1>7. /\ r \in Seq(Entries) /\ Len(r) = Len(s) - m + 1
      /\ \A i \in 1 .. Len(r) : r[i] = s[m - 1 + i]
  BY <1>0, <1>4, <1>6
<1>8. PICK n \in Nat, l \in Nat, d \in Nat : n = Len(g) /\ l = Len(s) /\ d = m - 1
  BY <1>0, <1>4
<1>9. d <= l /\ l <= n /\ Len(r) = l - d /\ \A i \in 1 .. l - d : r[i] = s[d + i] /\ d + i \in 1 .. l
  BY <1>0, <1>4, <1>7, <1>8
<1>10. \A i \in 1 .. l : /\ s[i].nonce = g[n - l + i].nonce
                         /\ s[i].expiresAt = g[n - l + i].time + 2 * Skew
  BY <1>8 DEF Memory
<1>11. \A i \in 1 .. l - d : /\ r[i].nonce = g[n - (l - d) + i].nonce
                             /\ r[i].expiresAt = g[n - (l - d) + i].time + 2 * Skew
  <2> SUFFICES ASSUME NEW i \in 1 .. l - d
               PROVE  /\ r[i].nonce = g[n - (l - d) + i].nonce
                      /\ r[i].expiresAt = g[n - (l - d) + i].time + 2 * Skew
    OBVIOUS
  <2>1. i \in Nat /\ d + i \in 1 .. l /\ n - l + (d + i) = n - (l - d) + i
    BY <1>9
  <2> QED
    BY <1>9, <1>10, <2>1
<1>12. \A i \in 1 .. n :
         i <= n - (l - d) => g[i].time + 2 * Skew <= now \/ n + 1 - i >= MaxNonces
  <2> SUFFICES ASSUME NEW i \in 1 .. n, i <= n - (l - d)
               PROVE  g[i].time + 2 * Skew <= now \/ n + 1 - i >= MaxNonces
    OBVIOUS
  <2>1. CASE i <= n - l
    BY <1>8, <2>1 DEF Memory
  <2>2. CASE i > n - l
    <3>0. i - (n - l) \in Nat
      BY <1>9, <2>2
    <3>1. PICK k \in Nat : k = i - (n - l)
      BY <3>0
    <3>2. k \in 1 .. d /\ k \in 1 .. l /\ i = n - l + k /\ l - k + 1 = n + 1 - i
      BY <1>8, <1>9, <2>2, <3>1
    <3>3. s[k].expiresAt <= now \/ l - k + 1 >= MaxNonces
      BY <1>5, <1>8, <3>2
    <3> QED
      BY <1>10, <3>2, <3>3
  <2> QED
    BY <1>8, <2>1, <2>2
<1>13. \A i \in 1 .. n : g[i].ts <= g[i].time + Skew
  BY <1>8 DEF Memory
<1>14. Memory(r, g, now)
  <2>1. r \in Seq(Entries) /\ g \in Seq(Requests) /\ Len(r) <= Len(g) /\ n = Len(g) /\ l - d = Len(r)
    BY <1>0, <1>7, <1>8, <1>9
  <2> QED
    BY <1>11, <1>12, <1>13, <2>1, Zenon DEF Memory
<1> QED
  BY <1>14 DEF r

LEMMA Edge ==
  ASSUME NEW a \in Nat, NEW b \in Nat, NEW c \in Nat, NEW d \in Nat, a + 2 * d <= c, b <= a + d, c <= b + d
  PROVE  c = b + d /\ b = a + d
OBVIOUS

LEMMA Accepting ==
  ASSUME NEW s, NEW g, now \in Nat, Memory(s, g, now), Refused(g),
         NEW nonce \in Nonces, NEW ts \in Nat, now - ts <= Skew, ts - now <= Skew,
         \A e \in ToSet(s) : e.nonce # nonce,
         \A i \in 1 .. Len(g) : g[i].nonce = nonce => g[i].ts = ts,
         NEW e1, e1 = [nonce |-> nonce, expiresAt |-> now + 2 * Skew],
         NEW e2, e2 = [nonce |-> nonce, ts |-> ts, time |-> now]
  PROVE  Memory(Append(s, e1), Append(g, e2), now) /\ Refused(Append(g, e2))
<1>0. /\ s \in Seq(Entries) /\ g \in Seq(Requests) /\ Len(s) \in Nat /\ Len(g) \in Nat /\ Len(s) <= Len(g)
      /\ Skew \in Nat /\ MaxNonces \in Nat
  BY Numbers DEF Memory
<1>1. e1 \in Entries /\ e2 \in Requests
  BY Numbers DEF Entries, Requests
<1>2. PICK n \in Nat, l \in Nat : n = Len(g) /\ l = Len(s)
  BY <1>0
<1> DEFINE u == Append(s, e1)
           h == Append(g, e2)
<1>3. /\ u \in Seq(Entries) /\ Len(u) = l + 1 /\ u[l + 1] = e1 /\ \A i \in 1 .. l : u[i] = s[i]
      /\ h \in Seq(Requests) /\ Len(h) = n + 1 /\ h[n + 1] = e2 /\ \A i \in 1 .. n : h[i] = g[i]
  BY <1>0, <1>1, <1>2
<1>4. l <= n
  BY <1>0, <1>2
<1>5. e1.nonce = nonce /\ e1.expiresAt = now + 2 * Skew /\ e2.nonce = nonce /\ e2.ts = ts /\ e2.time = now
  OBVIOUS
<1>6. \A i \in 1 .. n : g[i].ts \in Nat /\ g[i].time \in Nat
  <2> SUFFICES ASSUME NEW i \in 1 .. n PROVE g[i].ts \in Nat /\ g[i].time \in Nat
    OBVIOUS
  <2>1. g[i] \in Requests
    BY <1>0, <1>2
  <2> QED
    BY <2>1 DEF Requests
<1> HIDE DEF u, h
<1>7. \A i \in 1 .. l + 1 : /\ u[i].nonce = h[n - l + i].nonce
                            /\ u[i].expiresAt = h[n - l + i].time + 2 * Skew
  <2> SUFFICES ASSUME NEW i \in 1 .. l + 1
               PROVE  u[i].nonce = h[n - l + i].nonce /\ u[i].expiresAt = h[n - l + i].time + 2 * Skew
    OBVIOUS
  <2>1. CASE i = l + 1
    <3>1. n - l + i = n + 1
      BY <2>1
    <3> QED
      BY <1>3, <1>5, <2>1, <3>1
  <2>2. CASE i \in 1 .. l
    <3>1. n - l + i \in 1 .. n
      BY <1>4, <2>2
    <3>2. s[i].nonce = g[n - l + i].nonce /\ s[i].expiresAt = g[n - l + i].time + 2 * Skew
      BY <1>2, <2>2 DEF Memory
    <3> QED
      BY <1>3, <2>2, <3>1, <3>2
  <2> QED
    BY <2>1, <2>2
<1>8. \A i \in 1 .. n + 1 :
        /\ h[i].ts <= h[i].time + Skew
        /\ i <= n - l => h[i].time + 2 * Skew <= now \/ n + 2 - i >= MaxNonces
  <2> SUFFICES ASSUME NEW i \in 1 .. n + 1
               PROVE  /\ h[i].ts <= h[i].time + Skew
                      /\ i <= n - l => h[i].time + 2 * Skew <= now \/ n + 2 - i >= MaxNonces
    OBVIOUS
  <2>1. CASE i = n + 1
    BY <1>0, <1>3, <1>5, <2>1
  <2>2. CASE i \in 1 .. n
    <3>1. /\ g[i].ts <= g[i].time + Skew
          /\ i <= n - l => g[i].time + 2 * Skew <= now \/ n + 1 - i >= MaxNonces
      BY <1>2, <2>2 DEF Memory
    <3>2. n + 1 - i >= MaxNonces => n + 2 - i >= MaxNonces
      BY <1>0, <2>2
    <3>3. h[i] = g[i]
      BY <1>3, <2>2
    <3> QED
      BY <3>1, <3>2, <3>3
  <2> QED
    BY <2>1, <2>2
<1>9. Memory(u, h, now)
  <2>1. Len(u) <= Len(h) /\ Len(h) - Len(u) = n - l /\ Len(h) + 1 = n + 2
    BY <1>3, <1>4
  <2> QED
    BY <1>3, <1>7, <1>8, <2>1 DEF Memory
<1>10. \A i \in 1 .. n : g[i].nonce = nonce =>
         n + 1 - i >= MaxNonces \/ (now = ts + Skew /\ ts = g[i].time + Skew)
  <2> SUFFICES ASSUME NEW i \in 1 .. n, g[i].nonce = nonce
               PROVE  n + 1 - i >= MaxNonces \/ (now = ts + Skew /\ ts = g[i].time + Skew)
    OBVIOUS
  <2>1. i <= n - l
    <3> SUFFICES ASSUME i > n - l PROVE FALSE
      BY <1>4
    <3>0. i - (n - l) \in 1 .. l
      BY <1>4
    <3>1. PICK k \in 1 .. l : k = i - (n - l)
      BY <3>0
    <3>2. n - l + k = i
      BY <3>1
    <3>3. s[k].nonce = nonce
      BY <1>2, <3>2 DEF Memory
    <3>4. s[k] \in ToSet(s)
      BY <1>0, <1>2 DEF ToSet
    <3> QED
      BY <3>3, <3>4
  <2>2. /\ g[i].ts <= g[i].time + Skew /\ g[i].ts = ts
        /\ g[i].time + 2 * Skew <= now \/ n + 1 - i >= MaxNonces
    BY <1>2, <2>1 DEF Memory
  <2>3. PICK time \in Nat : time = g[i].time
    BY <1>6
  <2>4. CASE time + 2 * Skew <= now
    <3>1. ts <= time + Skew /\ now <= ts + Skew
      BY <1>0, <2>2, <2>3
    <3>2. now = ts + Skew /\ ts = time + Skew
      BY <1>0, <2>4, <3>1, Edge
    <3> QED
      BY <2>3, <3>2
  <2> QED
    BY <2>2, <2>3, <2>4
<1>11. Refused(h)
  <2> SUFFICES ASSUME NEW i \in 1 .. n + 1, NEW j \in 1 .. n + 1, i < j, h[i].nonce = h[j].nonce
               PROVE  j - i >= MaxNonces \/ (h[j].time = h[j].ts + Skew /\ h[j].ts = h[i].time + Skew)
    BY <1>3 DEF Refused
  <2>1. i \in 1 .. n
    OBVIOUS
  <2>2. CASE j \in 1 .. n
    <3>1. j - i >= MaxNonces \/ (g[j].time = g[j].ts + Skew /\ g[j].ts = g[i].time + Skew)
      BY <1>2, <1>3, <2>1, <2>2 DEF Refused
    <3> QED
      BY <1>3, <2>1, <2>2, <3>1
  <2>3. CASE j = n + 1
    <3>1. h[j] = e2 /\ h[i] = g[i]
      BY <1>3, <2>1, <2>3
    <3> QED
      BY <1>5, <1>10, <2>1, <2>3, <3>1
  <2> QED
    BY <2>2, <2>3
<1> QED
  BY <1>9, <1>11 DEF u, h

\* Time only makes entries older.
LEMMA Waiting ==
  ASSUME NEW s, NEW g, NEW t \in Nat, Memory(s, g, t)
  PROVE  Memory(s, g, t + 1)
<1>1. \A i \in 1 .. Len(g) : g[i].time + 2 * Skew \in Nat
  <2> SUFFICES ASSUME NEW i \in 1 .. Len(g) PROVE g[i].time + 2 * Skew \in Nat
    OBVIOUS
  <2>1. g[i] \in Requests
    BY DEF Memory
  <2>2. g[i].time \in Nat
    BY <2>1 DEF Requests
  <2> QED
    BY <2>2, Numbers
<1>2. \A i \in 1 .. Len(g) : g[i].time + 2 * Skew <= t => g[i].time + 2 * Skew <= t + 1
  BY <1>1
<1> QED
  BY <1>2 DEF Memory

CallFields == {"at", "attempt", "secret", "name", "to"}

\* A call sends one line in its life, with a nonce of its own.
LineInv ==
  /\ DOMAIN call = Calls /\ DOMAIN line = Calls /\ DOMAIN wire = Calls
  /\ now \in Nat
  /\ \A c \in Calls :
       /\ DOMAIN call[c] = CallFields /\ call[c].attempt \in Nat
       /\ call[c].at \in {"idle", "again", "asking"} => line[c] = NoLine
       /\ wire[c] # Nobody => wire[c] \in Companions /\ line[c] # NoLine
       /\ line[c] # NoLine => line[c].nonce \in Nonces /\ line[c].nonce[1] = c /\ line[c].ts \in Nat

LEMMA InitLine == Init => LineInv
BY ControlAssumption DEF Init, LineInv, Idle, CallFields

\* Where the records of calls lead.
LEMMA CallRecords ==
  ASSUME NEW r, r.attempt \in Nat
  PROVE  /\ DOMAIN Ended = CallFields /\ Ended.attempt \in Nat /\ Ended.at = "ended"
         /\ DOMAIN TriedAgain(r) = CallFields /\ TriedAgain(r).attempt \in Nat
<1>1. DOMAIN Ended = CallFields /\ Ended.attempt \in Nat /\ Ended.at = "ended"
  BY DEF Ended, Idle, CallFields
<1>2. \A n : /\ DOMAIN [Idle EXCEPT !.at = "again", !.attempt = n] = CallFields
             /\ [Idle EXCEPT !.at = "again", !.attempt = n].attempt = n
  BY DEF Idle, CallFields
<1>3. r.attempt + 1 \in Nat
  OBVIOUS
<1> QED
  BY <1>1, <1>2, <1>3 DEF TriedAgain

LEMMA StepLine == LineInv /\ [Next]_vars => LineInv'
<1> SUFFICES ASSUME LineInv, [Next]_vars PROVE LineInv'
  OBVIOUS
<1> USE DEF guard, files, lock, client
<1>0. Nobody \notin Companions /\ Ahead \in Nat
  BY ControlAssumption DEF Processes
<1>1. CASE UNCHANGED <<call, line, wire, now>>
  BY <1>1 DEF LineInv
<1>2. ASSUME NEW c \in Calls, NEW r, call' = [call EXCEPT ![c] = r], UNCHANGED <<line, now>>,
             wire' = wire \/ wire' = [wire EXCEPT ![c] = Nobody],
             DOMAIN r = CallFields, r.attempt \in Nat,
             r.at \in {"idle", "again", "asking"} => call[c].at \in {"idle", "again", "asking"}
      PROVE  LineInv'
  <2>1. /\ DOMAIN call' = Calls /\ call'[c] = r /\ \A d \in Calls : d # c => call'[d] = call[d]
        /\ DOMAIN wire' = Calls /\ \A d \in Calls : wire'[d] \in {wire[d], Nobody}
    BY <1>2 DEF LineInv
  <2> QED
    BY <1>2, <2>1 DEF LineInv
<1>3. \A c \in Calls : DOMAIN call[c] = CallFields /\ call[c].attempt \in Nat
  BY DEF LineInv
<1>4. ASSUME NEW c \in Calls, Ask(c) PROVE LineInv'
  <2> DEFINE r == [call[c] EXCEPT !.at = "asking", !.secret = file.secret, !.name = EndpointOf(file)]
  <2>1. call[c].at \in {"idle", "again"} /\ UNCHANGED <<line, now, wire>>
    BY <1>4 DEF Ask
  <2>2. CASE HasCredentials(file)
    <3>1. call' = [call EXCEPT ![c] = r]
      BY <1>4, <2>2 DEF Ask
    <3>2. DOMAIN r = CallFields /\ r.attempt = call[c].attempt
      BY <1>3 DEF CallFields
    <3> HIDE DEF r
    <3> QED
      BY <1>2, <1>3, <2>1, <3>1, <3>2
  <2>3. CASE ~HasCredentials(file)
    <3>1. call' = [call EXCEPT ![c] = TriedAgain(call[c])]
      BY <1>4, <2>3 DEF Ask
    <3> QED
      BY <1>2, <1>3, <2>1, <3>1, CallRecords
  <2> QED
    BY <2>2, <2>3
<1>5. ASSUME NEW c \in Calls, NotRunning(c) PROVE LineInv'
  <2>1. call[c].at = "asking" /\ call' = [call EXCEPT ![c] = TriedAgain(call[c])] /\ UNCHANGED <<line, now, wire>>
    BY <1>5 DEF NotRunning
  <2> QED
    BY <1>2, <1>3, <2>1, CallRecords
<1>6. ASSUME NEW c \in Calls, Reset(c) \/ TimeOut(c) \/ Answer(c) PROVE LineInv'
  <2>1. call' = [call EXCEPT ![c] = Ended] /\ UNCHANGED <<line, now, wire>>
    BY <1>6 DEF Reset, TimeOut, Answer, AfterReset
  <2> QED
    BY <1>2, <1>3, <2>1, CallRecords
<1>7. ASSUME NEW c \in Calls, Handle(c) PROVE LineInv'
  <2>1. wire' = [wire EXCEPT ![c] = Nobody] /\ UNCHANGED <<line, now>>
    BY <1>7 DEF Handle
  <2>2. CASE call' = [call EXCEPT ![c] = [call[c] EXCEPT !.at = "handled"]]
    <3> DEFINE r == [call[c] EXCEPT !.at = "handled"]
    <3>1. DOMAIN r = CallFields /\ r.attempt = call[c].attempt /\ r.at = "handled"
      BY <1>3 DEF CallFields
    <3>2. call' = [call EXCEPT ![c] = r]
      BY <2>2
    <3> HIDE DEF r
    <3> QED
      BY <1>2, <1>3, <2>1, <3>1, <3>2
  <2>3. CASE call' = [call EXCEPT ![c] = Ended]
    BY <1>2, <1>3, <2>1, <2>3, CallRecords
  <2>4. CASE call' = call
    <3>1. DOMAIN wire' = Calls /\ \A d \in Calls : wire'[d] \in {wire[d], Nobody}
      BY <2>1 DEF LineInv
    <3> QED
      BY <2>1, <2>4, <3>1 DEF LineInv
  <2> QED
    BY <1>7, <2>2, <2>3, <2>4 DEF Handle
<1>8. ASSUME NEW c \in Calls, Connect(c) PROVE LineInv'
  <2>1. PICK p \in Reached(c) :
          /\ call' = [call EXCEPT ![c].at = "sent", ![c].to = p]
          /\ line' = [line EXCEPT ![c] = [nonce |-> <<c, call[c].attempt>>, secret |-> call[c].secret, ts |-> now + Ahead]]
          /\ wire' = [wire EXCEPT ![c] = p]
    BY <1>8 DEF Connect
  <2>2. p \in Companions /\ UNCHANGED now
    BY <1>8 DEF Connect, Reached
  <2>3. /\ DOMAIN call' = Calls /\ \A d \in Calls : d # c => call'[d] = call[d]
        /\ DOMAIN call'[c] = CallFields /\ call'[c].at = "sent" /\ call'[c].attempt = call[c].attempt
    <3>1. DOMAIN call' = Calls /\ \A d \in Calls : d # c => call'[d] = call[d]
      BY <2>1 DEF LineInv
    <3>2. call'[c] = [[call[c] EXCEPT !.at = "sent"] EXCEPT !.to = p]
      BY <2>1 DEF LineInv
    <3>3. DOMAIN call'[c] = CallFields /\ call'[c].at = "sent" /\ call'[c].attempt = call[c].attempt
      BY <1>3, <3>2 DEF CallFields
    <3> QED
      BY <3>1, <3>3
  <2>4. /\ DOMAIN line' = Calls /\ \A d \in Calls : d # c => line'[d] = line[d]
        /\ line'[c].nonce = <<c, call[c].attempt>> /\ line'[c].ts = now + Ahead
    BY <2>1 DEF LineInv
  <2>5. line'[c].nonce \in Nonces /\ line'[c].nonce[1] = c /\ line'[c].ts \in Nat
    BY <1>0, <1>3, <2>4 DEF LineInv, Nonces
  <2>6. line'[c] # NoLine
    <3>1. line'[c].nonce # <<>>
      BY <2>4
    <3> QED
      BY <3>1 DEF NoLine
  <2>7. DOMAIN wire' = Calls /\ wire'[c] = p /\ \A d \in Calls : d # c => wire'[d] = wire[d]
    BY <2>1 DEF LineInv
  <2> QED
    BY <1>3, <2>2, <2>3, <2>4, <2>5, <2>6, <2>7 DEF LineInv
<1>9. ASSUME NEW p \in Companions, Crash(p) \/ EndFailed(p) \/ CloseControl(p) PROVE LineInv'
  <2>1. /\ UNCHANGED <<line, now>>
        /\ DOMAIN wire' = Calls /\ \A c \in Calls : wire'[c] \in {wire[c], Nobody}
    BY <1>9 DEF Crash, EndFailed, CloseControl, Dropped
  <2>2. DOMAIN call' = Calls /\ \A c \in Calls : call'[c] \in {call[c], Ended}
    BY <1>9 DEF Crash, EndFailed, CloseControl, AfterReset, LineInv
  <2>3. DOMAIN Ended = CallFields /\ Ended.attempt \in Nat /\ Ended.at = "ended"
    BY DEF Ended, Idle, CallFields
  <2> QED
    BY <2>1, <2>2, <2>3 DEF LineInv
<1>10. CASE Tick
  <2>1. now' = now + 1 /\ UNCHANGED <<call, line, wire>>
    BY <1>10 DEF Tick
  <2> QED
    BY <2>1 DEF LineInv
<1> QED
  BY <1>1, <1>4, <1>5, <1>6, <1>7, <1>8, <1>9, <1>10
  DEF Next, vars, Read, Create, Repair, Rotate, Bind, Listen, Secure, FailToStart, FailAfterListen, Close, Exit,
      Replay

\* What was accepted is what some call sent.
Sent(g) ==
  \A i \in 1 .. Len(g) : \E c \in Calls : line[c] # NoLine /\ g[i].nonce = line[c].nonce /\ g[i].ts = line[c].ts

MemoryInv ==
  /\ DOMAIN seen = Companions /\ DOMAIN accepted = Companions
  /\ \A p \in Companions : Memory(seen[p], accepted[p], now) /\ Refused(accepted[p]) /\ Sent(accepted[p])

LEMMA NothingYet ==
  ASSUME NEW t
  PROVE  Memory(<<>>, <<>>, t) /\ Refused(<<>>) /\ Sent(<<>>)
BY DEF Memory, Refused, Sent

LEMMA InitMemory == Init => MemoryInv
BY NothingYet DEF Init, MemoryInv

\* A call does not send a second line, so that nonces of different lines differ.
LEMMA Verifying ==
  ASSUME LineInv, MemoryInv, NEW p \in Companions, NEW c \in Calls, line[c] # NoLine,
         Verify(p, line[c]), UNCHANGED <<line, now>>
  PROVE  MemoryInv'
<1> DEFINE m == line[c]
           s == Remembered(seen[p])
           g == accepted[p]
<1>0. /\ now \in Nat /\ m.nonce \in Nonces /\ m.nonce[1] = c /\ m.ts \in Nat
      /\ Memory(seen[p], g, now) /\ Refused(g) /\ Sent(g)
  BY DEF LineInv, MemoryInv
<1>1. Memory(s, g, now)
  BY <1>0, Forgetting
<1>2. DOMAIN seen' = Companions /\ DOMAIN accepted' = Companions
      /\ \A q \in Companions : q # p => seen'[q] = seen[q] /\ accepted'[q] = accepted[q]
  BY DEF Verify, MemoryInv
<1>3. SUFFICES Memory(seen'[p], accepted'[p], now) /\ Refused(accepted'[p]) /\ Sent(accepted'[p])
  <2>1. \A h : Sent(h)' <=> Sent(h)
    BY DEF Sent
  <2> QED
    BY <1>2, <2>1 DEF MemoryInv
<1>4. CASE ~Accepts(p, m)
  <2>1. accepted' = accepted
    BY <1>4 DEF Verify
  <2>2. seen'[p] \in {seen[p], s}
    BY <1>4 DEF Verify, MemoryInv
  <2> QED
    BY <1>0, <1>1, <2>1, <2>2
<1>5. CASE Accepts(p, m)
  <2>1. PICK e1, e2 : /\ e1 = [nonce |-> m.nonce, expiresAt |-> now + 2 * Skew]
                      /\ e2 = [nonce |-> m.nonce, ts |-> m.ts, time |-> now]
    OBVIOUS
  <2>2. IsAuthentic(p, m)
    BY <1>5 DEF Accepts
  <2>3. seen'[p] = Append(s, e1) /\ accepted'[p] = Append(g, e2)
    BY <1>5, <2>1, <2>2 DEF Verify, MemoryInv, ExpiresAt
  <2>4. now - m.ts <= Skew /\ m.ts - now <= Skew
    BY <2>2 DEF IsAuthentic, IsFresh
  <2>5. \A e \in ToSet(s) : e.nonce # m.nonce
    BY <1>5 DEF Accepts
  <2>6. \A i \in 1 .. Len(g) : g[i].nonce = m.nonce => g[i].ts = m.ts
    <3> SUFFICES ASSUME NEW i \in 1 .. Len(g), g[i].nonce = m.nonce PROVE g[i].ts = m.ts
      OBVIOUS
    <3>1. PICK d \in Calls : line[d] # NoLine /\ g[i].nonce = line[d].nonce /\ g[i].ts = line[d].ts
      BY <1>0 DEF Sent
    <3>2. d = c
      BY <1>0, <3>1 DEF LineInv
    <3> QED
      BY <3>1, <3>2
  <2> HIDE DEF s, g
  <2>7. Memory(Append(s, e1), Append(g, e2), now) /\ Refused(Append(g, e2))
    BY <1>0, <1>1, <2>1, <2>4, <2>5, <2>6, Accepting
  <2>8. Sent(Append(g, e2))
    <3>1. g \in Seq(Requests) /\ e2 \in Requests
      BY <1>0, <2>1 DEF Memory, Requests
    <3>2. /\ Len(Append(g, e2)) = Len(g) + 1 /\ Append(g, e2)[Len(g) + 1] = e2
          /\ \A i \in 1 .. Len(g) : Append(g, e2)[i] = g[i]
          /\ \A i \in 1 .. Len(g) + 1 : i \in 1 .. Len(g) \/ i = Len(g) + 1
      BY <3>1
    <3>3. e2.nonce = m.nonce /\ e2.ts = m.ts
      BY <2>1
    <3> QED
      BY <1>0, <3>2, <3>3 DEF Sent
  <2> QED
    BY <2>3, <2>7, <2>8
<1> QED
  BY <1>4, <1>5

LEMMA StepMemory == LineInv /\ MemoryInv /\ [Next]_vars => MemoryInv'
<1> SUFFICES ASSUME LineInv, MemoryInv, [Next]_vars PROVE MemoryInv'
  OBVIOUS
<1> USE DEF guard, files, lock, client
<1>1. CASE UNCHANGED <<seen, accepted, line, now>>
  <2>1. \A h : Sent(h)' <=> Sent(h)
    BY <1>1 DEF Sent
  <2> QED
    BY <1>1, <2>1 DEF MemoryInv
<1>2. ASSUME NEW c \in Calls, Connect(c) PROVE MemoryInv'
  <2>1. line[c] = NoLine /\ UNCHANGED <<seen, accepted, now>>
    BY <1>2 DEF Connect, LineInv
  <2>2. \A d \in Calls : d # c => line'[d] = line[d]
    BY <1>2 DEF Connect
  <2>3. \A h : Sent(h) => Sent(h)'
    BY <2>1, <2>2 DEF Sent
  <2> QED
    BY <2>1, <2>3 DEF MemoryInv
<1>3. ASSUME NEW c \in Calls, Handle(c) PROVE MemoryInv'
  <2>1. wire[c] # Nobody /\ Verify(wire[c], line[c]) /\ UNCHANGED <<line, now>>
    BY <1>3 DEF Handle
  <2>2. wire[c] \in Companions /\ line[c] # NoLine
    BY <2>1 DEF LineInv
  <2> QED
    BY <2>1, <2>2, Verifying
<1>4. ASSUME NEW p \in Companions, NEW c \in Calls, Replay(p, c) PROVE MemoryInv'
  BY <1>4, Verifying DEF Replay
<1>5. ASSUME NEW p \in Companions, Gone(p), UNCHANGED <<line, now>> PROVE MemoryInv'
  <2>1. \A h : Sent(h)' <=> Sent(h)
    BY <1>5 DEF Sent
  <2>2. /\ DOMAIN seen' = Companions /\ DOMAIN accepted' = Companions
        /\ seen'[p] = <<>> /\ accepted'[p] = <<>>
        /\ \A q \in Companions : q # p => seen'[q] = seen[q] /\ accepted'[q] = accepted[q]
    BY <1>5 DEF Gone, MemoryInv
  <2> QED
    BY <1>5, <2>1, <2>2, NothingYet DEF MemoryInv
<1>6. CASE Tick
  <2>1. now' = now + 1 /\ UNCHANGED <<seen, accepted, line>> /\ now \in Nat
    BY <1>6 DEF Tick, LineInv
  <2>2. \A h : Sent(h)' <=> Sent(h)
    BY <2>1 DEF Sent
  <2> QED
    BY <2>1, <2>2, Waiting DEF MemoryInv
<1> QED
  BY <1>1, <1>2, <1>3, <1>4, <1>5, <1>6
  DEF Next, vars, Read, Create, Repair, Rotate, Bind, Listen, Secure, FailToStart, FailAfterListen, EndFailed,
      Close, CloseControl, Exit, Crash, Ask, NotRunning, Reset, TimeOut, Answer

\* A request is accepted again only after as many others as a companion remembers,
\* or at the one moment when it is both as late as it may be and was as early as
\* it may be (verifyRequest()): the cache holds a nonce for as long as its
\* timestamp can be fresh.
THEOREM Replays == Spec => []ReplaysAreRefused
<1>1. MemoryInv => ReplaysAreRefused
  <2> SUFFICES ASSUME MemoryInv, NEW p \in Companions PROVE
        \A i, j \in DOMAIN accepted[p] :
          i < j /\ accepted[p][i].nonce = accepted[p][j].nonce =>
            \/ j - i >= MaxNonces
            \/ accepted[p][j].time = accepted[p][j].ts + Skew /\ accepted[p][j].ts = accepted[p][i].time + Skew
    BY DEF ReplaysAreRefused
  <2>1. Refused(accepted[p]) /\ accepted[p] \in Seq(Requests)
    BY DEF MemoryInv, Memory
  <2>2. DOMAIN accepted[p] = 1 .. Len(accepted[p])
    BY <2>1
  <2> QED
    BY <2>1, <2>2 DEF Refused
<1>2. Init => LineInv /\ MemoryInv
  BY InitLine, InitMemory
<1>3. LineInv /\ MemoryInv /\ [Next]_vars => (LineInv /\ MemoryInv)'
  BY StepLine, StepMemory
<1> QED
  BY <1>1, <1>2, <1>3, PTL DEF Spec

-----------------------------------------------------------------------------
(* Pairing *)

\* The connection holds the right to show the dialog until its close event.
Holds(s) == pairing[s] # "none" /\ readyState[s] # "closed"

ConnectionsOK ==
  /\ readyState \in [Sockets -> {"open", "closing", "terminated", "closed"}]
  /\ authenticated \in [Sockets -> BOOLEAN]
  /\ pairing \in [Sockets -> {"none", "code", "spent"}]
  /\ dialog \in [Sockets -> {"none", "shown", "gone"}]
  /\ timer \in [Sockets -> {"auth", "pair", "off"}]
  /\ guesses \in [Sockets -> Nat]

\* pairingInProgress is a lock: it is set while a connection holds it, and at
\* most one does. (It is not released before the close event, which is what
\* keeps a second dialog away while the first may still be on the screen.)
LockOK ==
  /\ \A s \in Sockets : Holds(s) => pairingInProgress
  /\ \A s, t \in Sockets : Holds(s) /\ Holds(t) => s = t

DialogsOK == \A s \in Sockets : dialog[s] = "shown" => Holds(s)

\* A code that was compared once is spent.
GuessesOK ==
  \A s \in Sockets : guesses[s] = 0 \/ (guesses[s] = 1 /\ pairing[s] = "spent")

TimersOK == \A s \in Sockets : authenticated[s] => timer[s] = "off"

PairingInv == ConnectionsOK /\ LockOK /\ DialogsOK /\ GuessesOK /\ TimersOK

\* The invariant holds at the start.
LEMMA PairingInvInit == PairingInit => PairingInv
BY DEF PairingInit, PairingInv, ConnectionsOK, LockOK, DialogsOK, GuessesOK, TimersOK, Holds

\* authenticate() stops the timer of the connection it authenticates.
LEMMA AuthenticateOrNot ==
  ASSUME ConnectionsOK, TimersOK, NEW s \in Sockets,
         Authenticate(s) \/ UNCHANGED <<authenticated, timer>>
  PROVE  /\ authenticated' \in [Sockets -> BOOLEAN]
         /\ timer' \in [Sockets -> {"auth", "pair", "off"}]
         /\ TimersOK'
<1>1. CASE Authenticate(s)
  <2>1. authenticated' \in [Sockets -> BOOLEAN] /\ timer' \in [Sockets -> {"auth", "pair", "off"}]
    BY <1>1 DEF Authenticate, ConnectionsOK
  <2>2. \A t \in Sockets : t # s => authenticated'[t] = authenticated[t] /\ timer'[t] = timer[t]
    BY <1>1 DEF Authenticate, ConnectionsOK
  <2>3. timer'[s] = "off"
    BY <1>1 DEF Authenticate, ConnectionsOK
  <2>4. QED
    BY <2>1, <2>2, <2>3 DEF TimersOK
<1>2. CASE UNCHANGED <<authenticated, timer>>
  BY <1>2 DEF ConnectionsOK, TimersOK
<1>3. QED
  BY <1>1, <1>2

\* Every step keeps the invariant.
LEMMA PairingInvNext == PairingInv /\ [PairingNext]_pairingVars => PairingInv'
<1> SUFFICES ASSUME PairingInv, [PairingNext]_pairingVars
             PROVE  PairingInv'
  OBVIOUS
<1> USE DEF PairingInv, ConnectionsOK, Closing, Delivers, Unauthenticated, Holds, startVars
<1>1. ASSUME NEW s \in Sockets, NEW right \in BOOLEAN, Auth(s, right)
      PROVE  PairingInv'
  <2>1. ConnectionsOK' /\ TimersOK'
    BY <1>1, AuthenticateOrNot DEF Auth, TimersOK
  <2>2. LockOK' /\ DialogsOK' /\ GuessesOK'
    BY <1>1 DEF Auth, LockOK, DialogsOK, GuessesOK
  <2>3. QED
    BY <2>1, <2>2
<1>2. ASSUME NEW s \in Sockets, NEW allowedOrigin \in BOOLEAN, NEW shows \in BOOLEAN,
             Pair(s, allowedOrigin, shows)
      PROVE  PairingInv'
  <2>1. CASE pairing[s] = "none" /\ allowedOrigin /\ MayStart
    <3>1. ~pairingInProgress /\ \A t \in Sockets : ~Holds(t)
      BY <2>1 DEF MayStart, LockOK
    <3>2. StartPairing(s, shows)
      BY <1>2, <2>1 DEF Pair
    <3>3. ConnectionsOK' /\ GuessesOK' /\ TimersOK'
      BY <1>2, <2>1, <3>2 DEF Pair, StartPairing, GuessesOK, TimersOK
    <3>4. LockOK' /\ DialogsOK'
      BY <1>2, <3>1, <3>2 DEF Pair, StartPairing, LockOK, DialogsOK
    <3>5. QED
      BY <3>3, <3>4
  <2>2. CASE ~(pairing[s] = "none" /\ allowedOrigin /\ MayStart)
    BY <1>2, <2>2 DEF Pair, LockOK, DialogsOK, GuessesOK, TimersOK
  <2>3. QED
    BY <2>1, <2>2
<1>3. ASSUME NEW s \in Sockets, NEW right \in BOOLEAN, PairProof(s, right)
      PROVE  PairingInv'
  <2>1. ConnectionsOK' /\ TimersOK'
    BY <1>3, AuthenticateOrNot DEF PairProof, Dismissed, TimersOK
  <2>2. GuessesOK'
    BY <1>3 DEF PairProof, GuessesOK
  <2>3. LockOK' /\ DialogsOK'
    BY <1>3 DEF PairProof, Dismissed, LockOK, DialogsOK
  <2>4. QED
    BY <2>1, <2>2, <2>3
<1>4. ASSUME NEW s \in Sockets, Refuse(s)
      PROVE  PairingInv'
  BY <1>4 DEF Refuse, LockOK, DialogsOK, GuessesOK, TimersOK
<1>5. ASSUME NEW s \in Sockets, NEW cancelled \in BOOLEAN, DialogAnswered(s, cancelled)
      PROVE  PairingInv'
  BY <1>5 DEF DialogAnswered, LockOK, DialogsOK, GuessesOK, TimersOK
<1>6. ASSUME NEW s \in Sockets, Timeout(s)
      PROVE  PairingInv'
  BY <1>6 DEF Timeout, LockOK, DialogsOK, GuessesOK, TimersOK
<1>7. ASSUME NEW s \in Sockets, PeerCloses(s)
      PROVE  PairingInv'
  BY <1>7 DEF PeerCloses, LockOK, DialogsOK, GuessesOK, TimersOK
<1>8. ASSUME NEW s \in Sockets, CloseEvent(s)
      PROVE  PairingInv'
  <2>1. ConnectionsOK' /\ GuessesOK' /\ TimersOK'
    BY <1>8 DEF CloseEvent, Dismissed, GuessesOK, TimersOK
  <2>2. CASE pairing[s] = "none"
    BY <1>8, <2>1, <2>2 DEF CloseEvent, LockOK, DialogsOK
  <2>3. CASE pairing[s] # "none"
    \* It held the lock until clock, so nobody else did.
    <3>1. \A t \in Sockets : ~Holds(t)'
      BY <1>8, <2>3 DEF CloseEvent, LockOK
    <3>2. \A t \in Sockets : dialog'[t] # "shown"
      BY <1>8, <2>3 DEF CloseEvent, Dismissed, LockOK, DialogsOK
    <3>3. QED
      BY <2>1, <3>1, <3>2 DEF LockOK, DialogsOK
  <2>4. QED
    BY <2>2, <2>3
<1>9. ASSUME ClockTick \/ UNCHANGED pairingVars
      PROVE  PairingInv'
  BY <1>9 DEF ClockTick, pairingVars, socketVars, LockOK, DialogsOK, GuessesOK, TimersOK
<1>10. QED
  BY <1>1, <1>2, <1>3, <1>4, <1>5, <1>6, <1>7, <1>8, <1>9 DEF PairingNext

\* The inductive invariant of pairing.
THEOREM PairingInvariant == PairingSpec => []PairingInv
BY PairingInvInit, PairingInvNext, PTL DEF PairingSpec

\* At most one pairing dialog is on the screen, its connection exists, and its
\* code is compared with one proof at most.
THEOREM Dialogs == PairingSpec => []PairingIsSerialized
<1>1. PairingInv => OneDialog
  BY DEF PairingInv, LockOK, DialogsOK, OneDialog, Holds
<1>2. PairingInv => OneGuessPerDialog
  BY DEF PairingInv, GuessesOK, OneGuessPerDialog
<1>3. QED
  BY <1>1, <1>2, PairingInvariant, PTL DEF PairingIsSerialized

\* No timer is left to close a connection that authenticated.
THEOREM Timers == PairingSpec => []NoTimerAfterAuthentication
<1>1. PairingInv => NoTimerAfterAuthentication
  BY DEF PairingInv, TimersOK, NoTimerAfterAuthentication
<1>2. QED
  BY <1>1, PairingInvariant, PTL

-----------------------------------------------------------------------------
(* The rate limit *)

\* pairingStarts is the end of prompts, and what it has lost is older than the
\* window.
StartsOK ==
  /\ clock \in Nat
  /\ prompts \in Seq(Nat) /\ pairingStarts \in Seq(Nat)
  /\ Len(pairingStarts) <= Len(prompts)
  /\ \A i \in 1 .. Len(pairingStarts) : pairingStarts[i] = prompts[Len(prompts) - Len(pairingStarts) + i]
  /\ \A i \in 1 .. Len(prompts) - Len(pairingStarts) : prompts[i] + Window < clock

PromptsInOrder ==
  \A i, j \in 1 .. Len(prompts) : i <= j => prompts[i] <= prompts[j] /\ prompts[j] <= clock

RateInv == StartsOK /\ PromptsInOrder /\ PromptsAreRateLimited

LEMMA InitRate == PairingInit => RateInv
BY DEF PairingInit, RateInv, StartsOK, PromptsInOrder, PromptsAreRateLimited

\* The loop of startPairing() ends where a start is young enough.
LEMMA ShiftedStarts ==
  ASSUME StartsOK
  PROVE  /\ Shifted \in 0 .. Len(pairingStarts)
         /\ \A i \in 1 .. Shifted : clock > pairingStarts[i] + Window
<1> DEFINE T == {k \in 0 .. Len(pairingStarts) :
                   k < Len(pairingStarts) => clock <= pairingStarts[k + 1] + Window}
<1>0. /\ Len(pairingStarts) \in Nat /\ clock \in Nat /\ Window \in Nat
      /\ \A i \in 1 .. Len(pairingStarts) : pairingStarts[i] \in Nat
  BY PairingAssumption DEF StartsOK
<1>1. T \in SUBSET Nat /\ Len(pairingStarts) \in T
  BY <1>0
<1>2. PICK m \in T : \A k \in T : m <= k
  BY <1>1, LeastNumber
<1>3. \A i \in 1 .. m : clock > pairingStarts[i] + Window
  <2> SUFFICES ASSUME NEW i \in 1 .. m PROVE clock > pairingStarts[i] + Window
    OBVIOUS
  <2>1. i - 1 \in 0 .. Len(pairingStarts) /\ i - 1 < m /\ i - 1 < Len(pairingStarts) /\ i - 1 + 1 = i
    BY <1>0, <1>2
  <2>2. i - 1 \notin T
    BY <1>0, <1>2, <2>1
  <2>3. ~(clock <= pairingStarts[i] + Window)
    BY <2>1, <2>2
  <2> QED
    BY <1>0, <2>1, <2>3
<1> DEFINE IsShifted(k) == /\ k < Len(pairingStarts) => clock <= pairingStarts[k + 1] + Window
                           /\ \A i \in 1 .. k : clock > pairingStarts[i] + Window
<1>4. m \in 0 .. Len(pairingStarts) /\ IsShifted(m)
  BY <1>2, <1>3
<1>5. Shifted = CHOOSE k \in 0 .. Len(pairingStarts) : IsShifted(k)
  BY DEF Shifted
<1>6. Shifted \in 0 .. Len(pairingStarts) /\ IsShifted(Shifted)
  <2> HIDE DEF IsShifted
  <2> QED
    BY <1>4, <1>5, Zenon
<1> QED
  BY <1>6

LEMMA RecentStarts ==
  ASSUME RateInv
  PROVE  LET lost == Len(prompts) - Len(Recent) IN
         /\ Recent \in Seq(Nat) /\ Len(Recent) <= Len(prompts)
         /\ \A i \in 1 .. Len(Recent) : Recent[i] = prompts[lost + i]
         /\ \A i \in 1 .. lost : prompts[i] + Window < clock
<1> DEFINE n == Len(pairingStarts)
           p == Len(prompts)
           k == Shifted
<1>0. /\ n \in Nat /\ p \in Nat /\ n <= p /\ clock \in Nat /\ Window \in Nat
      /\ pairingStarts \in Seq(Nat) /\ prompts \in Seq(Nat)
      /\ \A i \in 1 .. n : pairingStarts[i] = prompts[p - n + i]
      /\ \A i \in 1 .. p - n : prompts[i] + Window < clock
  BY PairingAssumption DEF RateInv, StartsOK
<1>1. k \in 0 .. n /\ \A i \in 1 .. k : clock > pairingStarts[i] + Window
  BY PairingAssumption, ShiftedStarts DEF RateInv
<1> HIDE DEF k
<1>2. /\ Recent \in Seq(Nat) /\ Len(Recent) = n - k
      /\ \A i \in 1 .. n - k : Recent[i] = pairingStarts[k + i]
  BY <1>0, <1>1 DEF Recent, k
<1>3. \A i \in 1 .. n - k : Recent[i] = prompts[p - (n - k) + i]
  <2> SUFFICES ASSUME NEW i \in 1 .. n - k PROVE Recent[i] = prompts[p - (n - k) + i]
    OBVIOUS
  <2>1. k + i \in 1 .. n /\ p - n + (k + i) = p - (n - k) + i
    BY <1>0, <1>1
  <2> QED
    BY <1>0, <1>2, <2>1
<1>4. \A i \in 1 .. p - (n - k) : prompts[i] + Window < clock
  <2> SUFFICES ASSUME NEW i \in 1 .. p - (n - k), ~(i \in 1 .. p - n) PROVE prompts[i] + Window < clock
    BY <1>0
  <2>1. i - (p - n) \in 1 .. k /\ i - (p - n) \in 1 .. n /\ p - n + (i - (p - n)) = i
    BY <1>0, <1>1
  <2>2. pairingStarts[i - (p - n)] = prompts[i]
    BY <1>0, <2>1
  <2>3. clock > pairingStarts[i - (p - n)] + Window
    BY <1>1, <2>1
  <2>4. prompts[i] \in Nat
    BY <1>0, <1>1
  <2> QED
    BY <1>0, <2>2, <2>3, <2>4
<1> QED
  BY <1>0, <1>1, <1>2, <1>3, <1>4

\* A pairing that may start is far enough from every one before it.
LEMMA StartKeepsRate ==
  ASSUME RateInv, MayStart, clock' = clock,
         pairingStarts' = Append(Recent, clock), prompts' = Append(prompts, clock)
  PROVE  RateInv'
<1> DEFINE p == Len(prompts)
           r == Len(Recent)
<1>0. /\ p \in Nat /\ r \in Nat /\ clock \in Nat /\ {Window, MinInterval} \subseteq Nat /\ MinInterval <= Window
      /\ MaxPerWindow \in Nat \ {0} /\ prompts \in Seq(Nat) /\ Recent \in Seq(Nat) /\ r <= p
      /\ \A i \in 1 .. r : Recent[i] = prompts[p - r + i]
      /\ \A i \in 1 .. p - r : prompts[i] + Window < clock
      /\ \A i \in 1 .. p : prompts[i] \in Nat
  BY PairingAssumption, RecentStarts DEF RateInv, StartsOK
<1>1. /\ Len(prompts') = p + 1 /\ prompts' \in Seq(Nat) /\ prompts'[p + 1] = clock
      /\ \A i \in 1 .. p : prompts'[i] = prompts[i]
  BY <1>0
<1>2. /\ Len(pairingStarts') = r + 1 /\ pairingStarts' \in Seq(Nat) /\ pairingStarts'[r + 1] = clock
      /\ \A i \in 1 .. r : pairingStarts'[i] = Recent[i]
  BY <1>0
<1>3. r < MaxPerWindow /\ (r > 0 => clock >= prompts[p] + MinInterval)
  <2>1. r > 0 => Recent # <<>> /\ Recent[r] = prompts[p]
    BY <1>0
  <2> QED
    BY <2>1 DEF MayStart
<1>n. /\ p \in Nat /\ r \in Nat /\ r <= p /\ clock \in Nat /\ Window \in Nat /\ MinInterval \in Nat
      /\ MinInterval <= Window /\ MaxPerWindow \in Nat \ {0} /\ \A i \in 1 .. p : prompts[i] \in Nat
  BY <1>0
<1> HIDE DEF p, r
<1>4. StartsOK'
  <2>1. \A i \in 1 .. Len(pairingStarts') :
          pairingStarts'[i] = prompts'[Len(prompts') - Len(pairingStarts') + i]
    <3>0. Len(prompts') - Len(pairingStarts') = p - r
      BY <1>n, <1>1, <1>2
    <3> SUFFICES ASSUME NEW i \in 1 .. r + 1 PROVE pairingStarts'[i] = prompts'[p - r + i]
      BY <1>2, <3>0
    <3>1. CASE i = r + 1
      <4>1. p - r + i = p + 1
        BY <1>n, <3>1
      <4> QED
        BY <1>1, <1>2, <3>1, <4>1
    <3>2. CASE i \in 1 .. r
      <4>1. p - r + i \in 1 .. p
        BY <1>0, <3>2
      <4> QED
        BY <1>0, <1>1, <1>2, <3>2, <4>1
    <3>3. i = r + 1 \/ i \in 1 .. r
      BY <1>n
    <3> QED
      BY <3>1, <3>2, <3>3
  <2>2. \A i \in 1 .. Len(prompts') - Len(pairingStarts') : prompts'[i] + Window < clock'
    <3>1. Len(prompts') - Len(pairingStarts') = p - r /\ \A i \in 1 .. p - r : i \in 1 .. p
      BY <1>n, <1>1, <1>2
    <3> QED
      BY <1>0, <1>1, <3>1
  <2>3. Len(pairingStarts') <= Len(prompts') /\ clock' \in Nat
    BY <1>n, <1>1, <1>2
  <2> QED
    BY <1>1, <1>2, <2>1, <2>2, <2>3 DEF StartsOK
<1>5. PromptsInOrder'
  BY <1>0, <1>1 DEF RateInv, PromptsInOrder, p
<1>6. PromptsAreRateLimited'
  <2> SUFFICES ASSUME NEW i \in 1 .. p + 1, NEW j \in 1 .. p + 1, i < j
               PROVE  /\ prompts'[j] >= prompts'[i] + MinInterval
                      /\ j >= i + MaxPerWindow => prompts'[j] > prompts'[i] + Window
    BY <1>1 DEF PromptsAreRateLimited
  <2>1. CASE j \in 1 .. p
    <3>1. i \in 1 .. p /\ DOMAIN prompts = 1 .. p
      BY <1>0, <2>1 DEF p
    <3> QED
      BY <1>1, <2>1, <3>1 DEF RateInv, PromptsAreRateLimited
  <2>2. CASE j = p + 1
    <3>1. i \in 1 .. p /\ prompts'[i] = prompts[i] /\ prompts'[j] = clock
      BY <1>0, <1>1, <2>2
    <3>2. prompts[i] <= prompts[p]
      BY <1>0, <3>1 DEF RateInv, PromptsInOrder, p
    <3>3. clock >= prompts[i] + MinInterval
      <4>1. CASE r = 0
        <5>1. prompts[i] + Window < clock
          BY <1>0, <1>n, <3>1, <4>1
        <5> QED
          BY <1>n, <3>1, <5>1
      <4>2. CASE r > 0
        <5>1. clock >= prompts[p] + MinInterval /\ prompts[p] \in Nat /\ prompts[i] \in Nat
          BY <1>n, <1>3, <3>1, <4>2
        <5> QED
          BY <1>n, <3>2, <5>1
      <4> QED
        BY <1>n, <4>1, <4>2
    <3>4. ASSUME j >= i + MaxPerWindow PROVE clock > prompts[i] + Window
      <4>1. i \in 1 .. p - r
        BY <1>n, <1>3, <2>2, <3>1, <3>4
      <4> QED
        BY <1>0, <3>1, <4>1
    <3> QED
      BY <3>1, <3>3, <3>4
  <2>3. j \in 1 .. p \/ j = p + 1
    BY <1>n
  <2> QED
    BY <2>1, <2>2, <2>3
<1> QED
  BY <1>4, <1>5, <1>6 DEF RateInv

\* A refusal only forgets what is too old.
LEMMA RefusalKeepsRate ==
  ASSUME RateInv, clock' = clock, pairingStarts' = Recent, prompts' = prompts
  PROVE  RateInv'
BY PairingAssumption, RecentStarts DEF RateInv, StartsOK, PromptsInOrder,
   PromptsAreRateLimited

LEMMA StepRate == RateInv /\ [PairingNext]_pairingVars => RateInv'
<1> SUFFICES ASSUME RateInv, [PairingNext]_pairingVars PROVE RateInv'
  OBVIOUS
<1>1. CASE UNCHANGED <<clock, pairingStarts, prompts>>
  BY <1>1 DEF RateInv, StartsOK, PromptsInOrder, PromptsAreRateLimited
<1>2. ASSUME NEW s \in Sockets, NEW allowedOrigin \in BOOLEAN, NEW shows \in BOOLEAN,
             Pair(s, allowedOrigin, shows)
      PROVE  RateInv'
  <2>1. CASE pairing[s] = "none" /\ allowedOrigin /\ MayStart
    BY <1>2, <2>1, PairingAssumption, StartKeepsRate DEF Pair, StartPairing
  <2>2. CASE ~(pairing[s] = "none" /\ allowedOrigin /\ MayStart)
    BY <1>1, <1>2, <2>2, PairingAssumption, RefusalKeepsRate DEF Pair
  <2> QED
    BY <2>1, <2>2
<1>3. CASE ClockTick
  <2>1. clock' = clock + 1 /\ UNCHANGED <<pairingStarts, prompts>>
    BY <1>3 DEF ClockTick, startVars
  <2>2. StartsOK' /\ PromptsInOrder'
    BY <2>1, PairingAssumption DEF RateInv, StartsOK, PromptsInOrder
  <2>3. PromptsAreRateLimited'
    BY <2>1 DEF RateInv, PromptsAreRateLimited
  <2> QED
    BY <2>2, <2>3 DEF RateInv
<1>4. ASSUME NEW s \in Sockets,
             \/ \E right \in BOOLEAN : Auth(s, right)
             \/ \E right \in BOOLEAN : PairProof(s, right)
             \/ Refuse(s)
             \/ \E cancelled \in BOOLEAN : DialogAnswered(s, cancelled)
             \/ Timeout(s)
             \/ PeerCloses(s)
             \/ CloseEvent(s)
      PROVE  RateInv'
  <2>1. UNCHANGED <<clock, pairingStarts, prompts>>
    BY <1>4 DEF Auth, PairProof, Refuse, DialogAnswered, Timeout,
       PeerCloses, CloseEvent, startVars
  <2> QED
    BY <1>1, <2>1
<1>5. CASE UNCHANGED pairingVars
  BY <1>1, <1>5 DEF pairingVars, startVars
<1> QED
  BY <1>2, <1>3, <1>4, <1>5 DEF PairingNext

\* However many connections ask, dialogs are MinInterval apart and no more than
\* MaxPerWindow come in any Window (startPairing()).
THEOREM Prompts ==
  PairingSpec => []PromptsAreRateLimited
<1>1. RateInv => PromptsAreRateLimited
  BY DEF RateInv
<1> QED
  BY <1>1, InitRate, StepRate, PTL DEF PairingSpec
=============================================================================
