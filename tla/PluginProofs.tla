----------------------------- MODULE PluginProofs -----------------------------
(***************************************************************************)
(* Theorems about the plugin. Its window is PluginUi, with any number of   *)
(* sockets: CoreInv ties state.connected, the retry and the calls to the   *)
(* socket there is, CodeInv ties the tabs to what is connected or tried.   *)
(* UndoTransaction: for any number of commands that overlap in any way, a  *)
(* rollback that nothing committed into is complete, and no rollback takes *)
(* what was done outside of it. PluginCommands: CommandInv is about one    *)
(* command, from its plan to its end, whatever its operations are; DocInv  *)
(* is about the document it leaves. For that, the lemmas between them are  *)
(* about trees: what is defined along a tree or computed by a fold, and    *)
(* what each operation does to a tree of any size, and to the nodes it is  *)
(* not about.                                                              *)
(***************************************************************************)
EXTENDS PluginUi, UndoTransaction, PluginCommands, FiniteSetTheorems, SequenceTheorems, WellFoundedInduction, TLAPS

CoreTypes ==
  /\ socket \in Attempts \cup {None}
  /\ kind \in [Attempts -> Kinds \cup {"none"}]
  /\ readyState \in [Attempts -> {"connecting", "open", "closing", "closed"}]
  /\ proven \subseteq Attempts

\* The socket there is belongs to the present generation and is not gone; who
\* authenticates has a token, and who said hello as a device, or is connected as
\* one, is still that device.
SocketIsCurrent ==
  socket # None =>
    /\ current = socket
    /\ readyState[socket] # "closed"
    /\ kind[socket] \in Kinds
    /\ kind[socket] = "auth" => token
    /\ kind[socket] = "hello" => relayDevice
    /\ connected /\ kind[socket] = "register" => relayDevice

\* A socket of the present generation is the socket there is until it is gone.
CurrentIsSocket == \A w \in Attempts : current = w /\ readyState[w] # "closed" => socket = w

CoreInv == CoreTypes /\ SocketIsCurrent /\ CurrentIsSocket /\ NothingOutlivesItsConnection /\ ConnectedIsProven

LEMMA InitCore == Init => CoreInv
BY UiAssumption DEF Init, CoreInv, CoreTypes, SocketIsCurrent, CurrentIsSocket,
   NothingOutlivesItsConnection,
   ConnectedIsProven, Kinds

\* closeSocket() keeps the invariant, whatever the handler then says but that it
\* is connected.
LEMMA Closes ==
  ASSUME CoreInv, CloseSocket, status' # "connected", proven' = proven
  PROVE  CoreInv'
BY UiAssumption DEF CoreInv, CoreTypes, SocketIsCurrent, CurrentIsSocket,
   NothingOutlivesItsConnection,
   ConnectedIsProven, Kinds,
                    CloseSocket, Leave, Left

\* So does open().
LEMMA Opens ==
  ASSUME CoreInv, NEW w \in Attempts, NEW k \in Kinds, Open(w, k),
         k = "auth" => token', k = "hello" => relayDevice', status' # "connected",
         proven' = proven
  PROVE  CoreInv'
BY UiAssumption DEF CoreInv, CoreTypes, SocketIsCurrent, CurrentIsSocket,
   NothingOutlivesItsConnection,
   ConnectedIsProven, Kinds,
                    Open, Leave, Left

LEMMA LocalConnects ==
  ASSUME CoreInv, NEW pair \in BOOLEAN, ConnectLocal(pair), proven' = proven
  PROVE  CoreInv'
<1>1. CASE CloseSocket /\ status' = "ready"
  BY <1>1, Closes
<1>2. ASSUME NEW w \in Attempts, Open(w, IF pair THEN "pair" ELSE "auth"), token' \/ pair,
             status' = "connecting"
      PROVE  CoreInv'
  BY <1>2, Opens, (IF pair THEN "pair" ELSE "auth") \in Kinds \ {"hello"} DEF Kinds
<1> QED
  BY <1>1, <1>2 DEF ConnectLocal

LEMMA RelayConnects ==
  ASSUME CoreInv, NEW registration \in BOOLEAN, ConnectRelay(registration), proven' = proven
  PROVE  CoreInv'
<1>1. CASE CloseSocket /\ status' = "ready"
  BY <1>1, Closes
<1>2. ASSUME NEW w \in Attempts, Open(w, "register"), status' = "connecting"
      PROVE  CoreInv'
  BY <1>2, Opens DEF Kinds
<1>3. ASSUME NEW w \in Attempts, Open(w, "hello"), relayDevice', status' = "connecting"
      PROVE  CoreInv'
  BY <1>3, Opens DEF Kinds
<1> QED
  BY <1>1, <1>2, <1>3 DEF ConnectRelay

LEMMA StepCore == CoreInv /\ [Next]_vars => CoreInv'
<1> SUFFICES ASSUME CoreInv, [Next]_vars PROVE CoreInv'
  OBVIOUS
<1> USE UiAssumption
<1>1. CASE SelectMode
  BY <1>1, LocalConnects, RelayConnects DEF SelectMode, Connect
<1>2. CASE ClickConnect
  BY <1>2, LocalConnects DEF ClickConnect
<1>3. CASE Unpair
  BY <1>3, Closes DEF Unpair
<1>4. CASE SubmitRegistration
  BY <1>4, RelayConnects DEF SubmitRegistration
<1>5. CASE ForgetContinues
  BY <1>5, Closes DEF ForgetContinues
<1>6. CASE BridgeInit
  BY <1>6, LocalConnects, RelayConnects DEF BridgeInit, Connect
<1>7. CASE TokenSaved
  BY <1>7, LocalConnects DEF TokenSaved
<1>8. CASE RetryFires
  BY <1>8, LocalConnects, RelayConnects DEF RetryFires
<1>9. ASSUME NEW w \in Attempts, RegisterError(w) PROVE CoreInv'
  BY <1>9, Closes DEF RegisterError, Receives, Failed
<1> USE DEF CoreInv, CoreTypes, SocketIsCurrent, CurrentIsSocket, NothingOutlivesItsConnection, ConnectedIsProven,
            Kinds, saved, network
<1>10. CASE SubmitCode
  BY <1>10 DEF SubmitCode
<1>11. CASE SaveToken
  BY <1>11 DEF SaveToken
<1>12. CASE Forget
  BY <1>12 DEF Forget
<1>13. ASSUME NEW w \in Attempts, HelloTimer(w) PROVE CoreInv'
  BY <1>13, Closes DEF HelloTimer
<1>14. ASSUME NEW w \in Attempts, SocketOpens(w) PROVE CoreInv'
  BY <1>14 DEF SocketOpens
<1>15. ASSUME NEW w \in Attempts, PeerCloses(w) PROVE CoreInv'
  BY <1>15 DEF PeerCloses
<1>16. ASSUME NEW w \in Attempts, PairCode(w) PROVE CoreInv'
  BY <1>16 DEF PairCode, Receives
<1>17. ASSUME NEW w \in Attempts, RelayOk(w) PROVE CoreInv'
  BY <1>17 DEF RelayOk, Receives, MarkConnected
<1>18. ASSUME NEW w \in Attempts, CallResult(w) PROVE CoreInv'
  BY <1>18 DEF CallResult, Receives
<1>19. ASSUME NEW w \in Attempts, NEW b \in BOOLEAN, HelloMessage(w, b) PROVE CoreInv'
  BY <1>19, Closes DEF HelloMessage, Receives, Failed
<1>20. ASSUME NEW w \in Attempts, NEW b \in BOOLEAN, PairOk(w, b) PROVE CoreInv'
  BY <1>20, Closes DEF PairOk, Receives, Failed
<1>21. ASSUME NEW w \in Attempts, NEW b \in BOOLEAN, AuthOk(w, b) PROVE CoreInv'
  BY <1>21, Closes DEF AuthOk, Receives, MarkConnected, Failed
<1>22. ASSUME NEW w \in Attempts, NEW code \in {1006, 4403, 4408}, CloseEvent(w, code) PROVE CoreInv'
  BY <1>22 DEF CloseEvent, LocalClosed, RelayClosed, Tries
<1>23. CASE UNCHANGED vars
  BY <1>23 DEF vars
<1> QED
  BY <1>1, <1>2, <1>3, <1>4, <1>5, <1>6, <1>7, <1>8, <1>9, <1>10, <1>11, <1>12, <1>13, <1>14,
     <1>15, <1>16, <1>17, <1>18, <1>19, <1>20, <1>21, <1>22, <1>23 DEF Next

-----------------------------------------------------------------------------
(* Type correctness *)

\* The types of what the handlers share.
NetworkTypes ==
  /\ socket \in Attempts \cup {None} /\ current \in Attempts \cup {None}
  /\ kind \in [Attempts -> Kinds \cup {"none"}]
  /\ readyState \in [Attempts -> {"connecting", "open", "closing", "closed"}]
  /\ retry \in {"none", "local", "relay"}
  /\ {connected, waiting, woken} \subseteq BOOLEAN

OtherTypes ==
  /\ mode \in {"local", "relay"} /\ localSession \in Attempts \cup {None}
  /\ session \in [Attempts -> Sessions]
  /\ status \in Statuses
  /\ {initialized, token, relayDevice, saving, connectDisabled, registerDisabled} \subseteq BOOLEAN
  /\ proven \subseteq Attempts

LEMMA TypesSplit == TypeOK <=> NetworkTypes /\ OtherTypes
BY DEF TypeOK, NetworkTypes, OtherTypes

LEMMA NewSessionIsSession == NewSession \in Sessions /\ NoSession \in Sessions
BY DEF NewSession, NoSession, Sessions

LEMMA CloseTypes == ASSUME NetworkTypes, CloseSocket PROVE NetworkTypes'
BY DEF NetworkTypes, CloseSocket, Leave, Left

LEMMA OpenTypes ==
  ASSUME NetworkTypes, NEW w \in Attempts, NEW k \in Kinds, Open(w, k) PROVE NetworkTypes'
BY DEF NetworkTypes, Open, Leave, Left

\* What connecting types: all but what its callers leave to it.
ConnectTypes ==
  /\ NetworkTypes
  /\ session \in [Attempts -> Sessions] /\ localSession \in Attempts \cup {None}
  /\ status \in Statuses
  /\ {connectDisabled} \subseteq BOOLEAN

LEMMA LocalTypes ==
  ASSUME NetworkTypes, OtherTypes, NEW pair \in BOOLEAN, ConnectLocal(pair) PROVE ConnectTypes'
<1>1. CASE /\ CloseSocket /\ status' = "ready" /\ UNCHANGED <<session, localSession, connectDisabled>>
  BY <1>1, CloseTypes DEF ConnectTypes, OtherTypes, Statuses
<1>2. ASSUME NEW w \in Attempts, Open(w, IF pair THEN "pair" ELSE "auth"), localSession' = None,
             session' = [session EXCEPT ![w] = NewSession], connectDisabled' = pair, status' = "connecting"
      PROVE  ConnectTypes'
  <2>1. NetworkTypes'
    BY <1>2, OpenTypes, (IF pair THEN "pair" ELSE "auth") \in Kinds DEF Kinds
  <2>2. session' \in [Attempts -> Sessions]
    BY <1>2, NewSessionIsSession DEF OtherTypes
  <2>3. localSession' \in Attempts \cup {None} /\ status' \in Statuses /\ {connectDisabled'} \subseteq BOOLEAN
    BY <1>2 DEF Statuses
  <2> QED
    BY <2>1, <2>2, <2>3 DEF ConnectTypes
<1> QED
  BY <1>1, <1>2 DEF ConnectLocal

LEMMA RelayTypes ==
  ASSUME NetworkTypes, OtherTypes, NEW registration \in BOOLEAN, ConnectRelay(registration) PROVE ConnectTypes'
<1>1. NetworkTypes'
  <2>1. CASE CloseSocket
    BY <2>1, CloseTypes
  <2>2. ASSUME NEW w \in Attempts, Open(w, IF registration THEN "register" ELSE "hello") PROVE NetworkTypes'
    BY <2>2, OpenTypes, (IF registration THEN "register" ELSE "hello") \in Kinds DEF Kinds
  <2> QED
    BY <2>1, <2>2 DEF ConnectRelay
<1>2. session' \in [Attempts -> Sessions] /\ localSession' \in Attempts \cup {None}
  BY DEF OtherTypes, ConnectRelay
<1>3. status' \in Statuses /\ {connectDisabled'} \subseteq BOOLEAN
  BY DEF OtherTypes, ConnectRelay, Statuses
<1> QED
  BY <1>1, <1>2, <1>3 DEF ConnectTypes

\* What the close event's handlers assign.
ClosedTypes ==
  /\ session \in [Attempts -> Sessions] /\ localSession \in Attempts \cup {None}
  /\ status \in Statuses /\ retry \in {"none", "local", "relay"}
  /\ {token, relayDevice, connectDisabled, registerDisabled} \subseteq BOOLEAN

LEMMA LocalClosedTypes ==
  ASSUME NetworkTypes, OtherTypes, NEW w \in Attempts, NEW code, LocalClosed(w, code) PROVE ClosedTypes'
<1>1. session' \in [Attempts -> Sessions] /\ localSession' \in Attempts \cup {None}
  BY NewSessionIsSession DEF LocalClosed, OtherTypes
<1>2. connectDisabled' = FALSE /\ UNCHANGED <<relayDevice, registerDisabled>>
  BY DEF LocalClosed
<1>3. /\ status' \in Statuses /\ retry' \in {"none", "local", "relay"}
      /\ token' = token \/ token' = (token /\ kind[w] = "pair")
  <2>1. CASE code = 4403
    BY <2>1 DEF LocalClosed, NetworkTypes, Statuses
  <2>2. CASE code # 4403 /\ code = 4408
    BY <2>2 DEF LocalClosed, NetworkTypes, Statuses
  <2>3. CASE code # 4403 /\ code # 4408
    BY <2>3 DEF LocalClosed, Tries, NetworkTypes, Statuses
  <2> QED
    BY <2>1, <2>2, <2>3
<1> QED
  BY <1>1, <1>2, <1>3 DEF ClosedTypes, OtherTypes

LEMMA RelayClosedTypes ==
  ASSUME NetworkTypes, OtherTypes, NEW code, RelayClosed(code) PROVE ClosedTypes'
<1>1. UNCHANGED <<session, localSession, token, connectDisabled>> /\ registerDisabled' = FALSE
  BY DEF RelayClosed
<1>2. /\ status' \in Statuses /\ retry' \in {"none", "local", "relay"}
      /\ relayDevice' = relayDevice \/ relayDevice' = FALSE
  <2> DEFINE removed == code = 4403
  <2> HIDE DEF removed
  <2>1. CASE removed /\ relayDevice
    BY <2>1 DEF removed, RelayClosed, NetworkTypes, Statuses
  <2>2. CASE ~removed /\ relayDevice
    BY <2>2 DEF removed, RelayClosed, Tries, NetworkTypes, Statuses
  <2>3. CASE ~relayDevice
    <3>1. UNCHANGED <<relayDevice, status, retry>>
      BY <2>3 DEF RelayClosed
    <3> QED
      BY <3>1 DEF NetworkTypes, OtherTypes
  <2> QED
    BY <2>1, <2>2, <2>3, Zenon
<1> QED
  BY <1>1, <1>2 DEF ClosedTypes, OtherTypes

LEMMA StepTypes == NetworkTypes /\ OtherTypes /\ [Next]_vars => NetworkTypes' /\ OtherTypes'
<1> SUFFICES ASSUME NetworkTypes, OtherTypes, [Next]_vars PROVE (NetworkTypes /\ OtherTypes)'
  OBVIOUS
<1>1. CASE SelectMode
  BY <1>1, LocalTypes, RelayTypes DEF SelectMode, Connect, ConnectTypes, OtherTypes, saved,
     network, buttons
<1>2. CASE ClickConnect
  BY <1>2, LocalTypes DEF ClickConnect, ConnectTypes, OtherTypes, saved, network, buttons
<1>3. CASE Unpair
  BY <1>3, CloseTypes, NewSessionIsSession DEF Unpair, NetworkTypes, OtherTypes, saved, network,
     buttons, Statuses, Sessions
<1>4. CASE SubmitCode
  BY <1>4, NewSessionIsSession DEF SubmitCode, NetworkTypes, OtherTypes, saved, network,
     buttons, Statuses, Sessions
<1>5. CASE SaveToken
  BY <1>5, NewSessionIsSession DEF SaveToken, NetworkTypes, OtherTypes, saved, network, buttons,
     Statuses, Sessions
<1>6. CASE SubmitRegistration
  BY <1>6, RelayTypes DEF SubmitRegistration, ConnectTypes, OtherTypes, saved, network, buttons
<1>7. CASE Forget
  BY <1>7, NewSessionIsSession DEF Forget, NetworkTypes, OtherTypes, saved, network, buttons,
     Statuses, Sessions
<1>8. CASE ForgetContinues
  BY <1>8, CloseTypes, NewSessionIsSession DEF ForgetContinues, NetworkTypes, OtherTypes, saved,
     network, buttons, Statuses, Sessions
<1>9. CASE BridgeInit
  BY <1>9, LocalTypes, RelayTypes DEF BridgeInit, Connect, ConnectTypes, OtherTypes, saved,
     network, buttons
<1>10. CASE TokenSaved
  <2>1. ConnectTypes'
    BY <1>10, LocalTypes DEF TokenSaved
  <2>2. token' = TRUE /\ saving' = FALSE /\ UNCHANGED <<mode, relayDevice, initialized, registerDisabled, proven>>
    BY <1>10 DEF TokenSaved
  <2> QED
    BY <2>1, <2>2 DEF ConnectTypes, OtherTypes
<1>11. CASE RetryFires
  BY <1>11, LocalTypes, RelayTypes DEF RetryFires, ConnectTypes, OtherTypes, saved, network,
     buttons
<1>12. ASSUME NEW w \in Attempts, HelloTimer(w) PROVE (NetworkTypes /\ OtherTypes)'
  BY <1>12, CloseTypes, NewSessionIsSession DEF HelloTimer, NetworkTypes, OtherTypes, saved,
     network, buttons, Statuses, Sessions
<1>13. ASSUME NEW w \in Attempts, SocketOpens(w) PROVE (NetworkTypes /\ OtherTypes)'
  BY <1>13, NewSessionIsSession DEF SocketOpens, NetworkTypes, OtherTypes, saved, network,
     buttons, Statuses, Sessions
<1>14. ASSUME NEW w \in Attempts, PeerCloses(w) PROVE (NetworkTypes /\ OtherTypes)'
  BY <1>14, NewSessionIsSession DEF PeerCloses, NetworkTypes, OtherTypes, saved, network,
     buttons, Statuses, Sessions
<1>15. ASSUME NEW w \in Attempts, PairCode(w) PROVE (NetworkTypes /\ OtherTypes)'
  BY <1>15, NewSessionIsSession DEF PairCode, Receives, NetworkTypes, OtherTypes, saved,
     network, buttons, Statuses, Sessions
<1>16. ASSUME NEW w \in Attempts, RelayOk(w) PROVE (NetworkTypes /\ OtherTypes)'
  BY <1>16, NewSessionIsSession DEF RelayOk, Receives, MarkConnected, NetworkTypes, OtherTypes,
     saved, network, buttons, Statuses, Sessions
<1>17. ASSUME NEW w \in Attempts, RegisterError(w) PROVE (NetworkTypes /\ OtherTypes)'
  BY <1>17, CloseTypes, NewSessionIsSession DEF RegisterError, Receives, Failed, NetworkTypes,
     OtherTypes, saved, network, buttons, Statuses, Sessions
<1>18. ASSUME NEW w \in Attempts, CallResult(w) PROVE (NetworkTypes /\ OtherTypes)'
  BY <1>18, NewSessionIsSession DEF CallResult, Receives, NetworkTypes, OtherTypes, saved,
     network, buttons, Statuses, Sessions
<1>19. ASSUME NEW w \in Attempts, NEW b \in BOOLEAN, HelloMessage(w, b) PROVE (NetworkTypes /\ OtherTypes)'
  BY <1>19, CloseTypes, NewSessionIsSession DEF HelloMessage, Receives, Failed, NetworkTypes,
     OtherTypes, saved, network, buttons, Statuses, Sessions
<1>20. ASSUME NEW w \in Attempts, NEW b \in BOOLEAN, PairOk(w, b) PROVE (NetworkTypes /\ OtherTypes)'
  <2>1. CASE b
    <3>1. NetworkTypes'
      BY <1>20, <2>1 DEF PairOk, NetworkTypes, network
    <3>2. session' \in [Attempts -> Sessions]
      BY <1>20, <2>1 DEF PairOk, OtherTypes, Sessions
    <3>3. /\ token' = TRUE /\ proven' = proven \cup {w} /\ status' = status
          /\ UNCHANGED <<initialized, mode, relayDevice, saving, localSession, buttons>>
      BY <1>20, <2>1 DEF PairOk
    <3> QED
      BY <3>1, <3>2, <3>3 DEF OtherTypes, buttons
  <2>2. CASE ~b
    <3>1. /\ CloseSocket /\ status' = "try again"
          /\ UNCHANGED <<session, token, proven, initialized, mode, relayDevice, saving, localSession, buttons>>
      BY <1>20, <2>2 DEF PairOk, Failed
    <3> QED
      BY <3>1, CloseTypes DEF OtherTypes, Statuses, buttons
  <2> QED
    BY <2>1, <2>2
<1>21. ASSUME NEW w \in Attempts, NEW b \in BOOLEAN, AuthOk(w, b) PROVE (NetworkTypes /\ OtherTypes)'
  <2>1. CASE session[w].paired \/ b
    <3>1. NetworkTypes'
      BY <1>21, <2>1 DEF AuthOk, MarkConnected, NetworkTypes
    <3> QED
      BY <1>21, <2>1, <3>1 DEF AuthOk, MarkConnected, OtherTypes, saved, Statuses
  <2>2. CASE ~(session[w].paired \/ b)
    BY <1>21, <2>2, CloseTypes DEF AuthOk, Failed, OtherTypes, saved, Statuses
  <2> QED
    BY <2>1, <2>2
<1>22. ASSUME NEW w \in Attempts, NEW code, CloseEvent(w, code) PROVE (NetworkTypes /\ OtherTypes)'
  <2>1. CASE current = w /\ kind[w] \in {"auth", "pair"}
    <3>1. LocalClosed(w, code) /\ UNCHANGED current
      BY <1>22, <2>1 DEF CloseEvent
    <3>2. NetworkTypes'
      <4>1. ClosedTypes'
        BY <3>1, LocalClosedTypes
      <4>2. /\ socket' = None
            /\ readyState' = [readyState EXCEPT ![w] = "closed"] /\ kind' = [kind EXCEPT ![w] = "none"]
        BY <1>22, <2>1 DEF CloseEvent
      <4>3. connected' = FALSE /\ waiting' = FALSE /\ woken' = waiting
        BY <1>22, <2>1 DEF CloseEvent
      <4>4. kind' \in [Attempts -> Kinds \cup {"none"}]
        BY <4>2 DEF NetworkTypes
      <4>5. readyState' \in [Attempts -> {"connecting", "open", "closing", "closed"}]
        BY <4>2 DEF NetworkTypes
      <4>6. waiting \in BOOLEAN
        BY DEF NetworkTypes
      <4>7. connected' \in BOOLEAN /\ waiting' \in BOOLEAN /\ woken' \in BOOLEAN
        BY <4>6, <4>3
      <4>8. {connected', waiting', woken'} \subseteq BOOLEAN
        BY <4>7
      <4> QED
        BY <3>1, <4>1, <4>2, <4>4, <4>5, <4>8 DEF ClosedTypes, NetworkTypes
    <3>3. UNCHANGED <<initialized, mode, saving>> /\ proven' = proven \ {w}
      BY <1>22 DEF CloseEvent
    <3> QED
      BY <3>1, <3>2, <3>3, LocalClosedTypes DEF ClosedTypes, OtherTypes
  <2>2. CASE current = w /\ kind[w] \notin {"auth", "pair"}
    <3>1. RelayClosed(code) /\ UNCHANGED current
      BY <1>22, <2>2 DEF CloseEvent
    <3>2. NetworkTypes'
      <4>1. ClosedTypes'
        BY <3>1, RelayClosedTypes
      <4>2. /\ socket' = None
            /\ readyState' = [readyState EXCEPT ![w] = "closed"] /\ kind' = [kind EXCEPT ![w] = "none"]
        BY <1>22, <2>2 DEF CloseEvent
      <4>3. connected' = FALSE /\ waiting' = FALSE /\ woken' = waiting
        BY <1>22, <2>2 DEF CloseEvent
      <4>4. kind' \in [Attempts -> Kinds \cup {"none"}]
        BY <4>2 DEF NetworkTypes
      <4>5. readyState' \in [Attempts -> {"connecting", "open", "closing", "closed"}]
        BY <4>2 DEF NetworkTypes
      <4>6. waiting \in BOOLEAN
        BY DEF NetworkTypes
      <4>7. connected' \in BOOLEAN /\ waiting' \in BOOLEAN /\ woken' \in BOOLEAN
        BY <4>6, <4>3
      <4>8. {connected', waiting', woken'} \subseteq BOOLEAN
        BY <4>7
      <4> QED
        BY <3>1, <4>1, <4>2, <4>4, <4>5, <4>8 DEF ClosedTypes, NetworkTypes
    <3>3. UNCHANGED <<initialized, mode, saving>> /\ proven' = proven \ {w}
      BY <1>22 DEF CloseEvent
    <3> QED
      BY <3>1, <3>2, <3>3, RelayClosedTypes DEF ClosedTypes, OtherTypes
  <2>3. CASE current # w
    <3>1. NetworkTypes'
      BY <1>22, <2>3 DEF CloseEvent, NetworkTypes
    <3>2. /\ UNCHANGED <<initialized, mode, saving, token, relayDevice, session, localSession, status, buttons>>
          /\ proven' = proven \ {w}
      BY <1>22, <2>3 DEF CloseEvent
    <3> QED
      BY <3>1, <3>2 DEF OtherTypes, buttons
  <2> QED
    BY <2>1, <2>2, <2>3
<1>23. CASE UNCHANGED vars
  BY <1>23 DEF vars, NetworkTypes, OtherTypes, saved, network, buttons
<1> QED
  BY <1>1, <1>2, <1>3, <1>4, <1>5, <1>6, <1>7, <1>8, <1>9, <1>10, <1>11, <1>12, <1>13, <1>14,
     <1>15, <1>16, <1>17, <1>18, <1>19, <1>20, <1>21, <1>22, <1>23 DEF Next

-----------------------------------------------------------------------------
(* Timers *)

\* The step ends no hello timer but that of the socket there is.
LEMMA Quiet ==
  ASSUME \A w \in Attempts : socket # w => session'[w].helloTimer = session[w].helloTimer
  PROVE  EndsQuietly
BY DEF EndsQuietly

LEMMA LocalIsQuiet ==
  ASSUME session \in [Attempts -> Sessions], NEW pair, ConnectLocal(pair) PROVE EndsQuietly
BY DEF ConnectLocal, EndsQuietly, NewSession, NoSession, Sessions

LEMMA StepIsQuiet == CoreInv /\ OtherTypes /\ [Next]_vars => EndsQuietly
<1> SUFFICES ASSUME CoreInv, OtherTypes, [Next]_vars PROVE EndsQuietly
  OBVIOUS
<1>1. session \in [Attempts -> Sessions]
  BY DEF OtherTypes
<1>2. CASE UNCHANGED session
  BY <1>2, Quiet
<1>3. CASE SelectMode
  BY <1>3, <1>1, <1>2, LocalIsQuiet DEF SelectMode, Connect, ConnectRelay
<1>4. CASE ClickConnect
  BY <1>4, <1>1, <1>2, LocalIsQuiet DEF ClickConnect
<1>5. CASE BridgeInit
  BY <1>5, <1>1, <1>2, LocalIsQuiet DEF BridgeInit, Connect, ConnectRelay
<1>6. CASE TokenSaved
  BY <1>6, <1>1, <1>2, LocalIsQuiet DEF TokenSaved
<1>7. CASE RetryFires
  BY <1>7, <1>1, <1>2, LocalIsQuiet DEF RetryFires, ConnectRelay
<1>8. CASE Unpair \/ SaveToken \/ SubmitRegistration \/ Forget \/ ForgetContinues \/ UNCHANGED vars
  BY <1>8, <1>2 DEF Unpair, SaveToken, SubmitRegistration, ConnectRelay, Forget,
     ForgetContinues, vars
<1>9. CASE SubmitCode
  BY <1>9, <1>1, Quiet DEF SubmitCode, Sessions
<1>10. ASSUME NEW w \in Attempts, HelloTimer(w) PROVE EndsQuietly
  BY <1>10, <1>1 DEF HelloTimer, Silent, EndsQuietly, network
<1>11. ASSUME NEW w \in Attempts,
            SocketOpens(w) \/ PeerCloses(w) \/ RelayOk(w) \/ RegisterError(w) \/ CallResult(w)
      PROVE EndsQuietly
  BY <1>11, <1>2 DEF SocketOpens, PeerCloses, RelayOk, RegisterError, CallResult
<1>12. ASSUME NEW w \in Attempts,
            PairCode(w) \/ \E b \in BOOLEAN : HelloMessage(w, b) \/ PairOk(w, b) \/ AuthOk(w, b)
      PROVE EndsQuietly
  <2>1. socket = w
    BY <1>12 DEF PairCode, HelloMessage, PairOk, AuthOk, Receives, CoreInv, CurrentIsSocket
  <2>2. \A v \in Attempts : v # w => session'[v] = session[v]
    BY <1>12, <1>1 DEF PairCode, HelloMessage, PairOk, AuthOk
  <2> QED
    BY <2>1, <2>2, Quiet
<1>13. ASSUME NEW w \in Attempts, NEW code, CloseEvent(w, code) PROVE EndsQuietly
  <2>1. CASE current = w /\ kind[w] \in {"auth", "pair"}
    <3>1. socket = w
      BY <1>13, <2>1 DEF CloseEvent, CoreInv, CurrentIsSocket
    <3>2. \A v \in Attempts : v # w => session'[v] = session[v]
      BY <1>13, <1>1, <2>1 DEF CloseEvent, LocalClosed
    <3> QED
      BY <3>1, <3>2, Quiet
  <2>2. CASE ~(current = w /\ kind[w] \in {"auth", "pair"})
    BY <1>13, <1>2, <2>2 DEF CloseEvent, RelayClosed
  <2> QED
    BY <2>1, <2>2
<1> QED
  BY <1>3, <1>4, <1>5, <1>6, <1>7, <1>8, <1>9, <1>10, <1>11, <1>12, <1>13 DEF Next

-----------------------------------------------------------------------------
(* Tabs, codes and idle windows *)

\* On the local tab there is no socket of the relay and no retry of one; a local
\* socket on the relay tab has a token; what is tried again has its credentials.
TabsInv ==
  /\ mode \in {"local", "relay"}
  /\ mode = "local" => retry # "relay" /\ (socket # None => kind[socket] \in {"auth", "pair"})
  /\ mode = "relay" /\ socket # None /\ kind[socket] \in {"auth", "pair"} => token
  /\ retry \in {"none", "local", "relay"}
  /\ retry = "local" => token
  /\ retry = "relay" => relayDevice

CodeInv == TabsInv /\ CodeGoesToItsAttempt /\ IdleForAReason

\* closeSocket(), by a handler that says what happened.
LEMMA ClosesTold ==
  ASSUME CoreInv, CodeInv, CloseSocket, status' \in {"told", "try again", "forgotten"}, mode' = mode
  PROVE  CodeInv'
BY UiAssumption DEF CodeInv, TabsInv, CodeGoesToItsAttempt, IdleForAReason, Credentials,
   CloseSocket, Leave

LEMMA LocalConnectsTabs ==
  ASSUME CoreInv, NEW pair \in BOOLEAN, ConnectLocal(pair), mode' \in {"local", "relay"},
         pair => mode' = "local", mode' = "relay" => token'
  PROVE  CodeInv'
<1>1. CASE /\ ~token' /\ ~pair /\ CloseSocket
  BY <1>1, UiAssumption DEF CodeInv, TabsInv, CodeGoesToItsAttempt, IdleForAReason, Credentials,
     CloseSocket, Leave
<1>2. ASSUME NEW w \in Attempts, Open(w, IF pair THEN "pair" ELSE "auth"), token' \/ pair, localSession' = None
      PROVE  CodeInv'
  <2>1. /\ socket' = w /\ retry' = "none" /\ kind'[w] \in {"auth", "pair"}
    BY <1>2 DEF Open, Leave, CoreInv, CoreTypes
  <2> QED
    BY <1>2, <2>1, UiAssumption DEF CodeInv, TabsInv, CodeGoesToItsAttempt, IdleForAReason,
       Credentials
<1> QED
  BY <1>1, <1>2 DEF ConnectLocal

LEMMA RelayConnectsTabs ==
  ASSUME CoreInv, NEW registration \in BOOLEAN, ConnectRelay(registration), mode' = "relay"
  PROVE  CodeInv'
<1>1. CASE ~relayDevice' /\ CloseSocket
  BY <1>1, UiAssumption DEF CodeInv, TabsInv, CodeGoesToItsAttempt, IdleForAReason, Credentials,
     CloseSocket, Leave
<1>2. ASSUME NEW w \in Attempts, Open(w, IF registration THEN "register" ELSE "hello") PROVE CodeInv'
  <2>1. /\ socket' = w /\ retry' = "none" /\ kind'[w] \notin {"auth", "pair"}
    BY <1>2 DEF Open, Leave, CoreInv, CoreTypes
  <2> QED
    BY <2>1, UiAssumption DEF CodeInv, TabsInv, CodeGoesToItsAttempt, IdleForAReason,
       Credentials
<1> QED
  BY <1>1, <1>2 DEF ConnectRelay

\* What the close event's handlers do about the future.
LEMMA LocalClosedSays ==
  ASSUME NEW w, NEW code, LocalClosed(w, code), retry = "none"
  PROVE  \/ status' = "told" /\ retry' = "none"
         \/ retry' = "local" /\ token'
         \/ retry' = "none" /\ ~token /\ ~token'
<1> DEFINE refused == code = 4403 expired == code = 4408
<1>1. CASE refused
  BY <1>1 DEF LocalClosed
<1>2. CASE ~refused /\ expired
  BY <1>2 DEF LocalClosed
<1>3. CASE ~refused /\ ~expired /\ token
  BY <1>3 DEF LocalClosed, Tries
<1>4. CASE ~refused /\ ~expired /\ ~token
  BY <1>4 DEF LocalClosed, Tries
<1> HIDE DEF refused, expired
<1> QED
  BY <1>1, <1>2, <1>3, <1>4

LEMMA RelayClosedSays ==
  ASSUME NEW code, RelayClosed(code), retry = "none"
  PROVE  \/ status' = "told" /\ retry' = "none"
         \/ retry' = "relay" /\ relayDevice'
         \/ retry' = "none" /\ ~relayDevice'
<1> DEFINE removed == code = 4403
<1>1. CASE removed /\ relayDevice
  BY <1>1 DEF RelayClosed
<1>2. CASE ~removed /\ relayDevice
  BY <1>2 DEF RelayClosed, Tries
<1>3. CASE ~relayDevice
  BY <1>3 DEF RelayClosed
<1> HIDE DEF removed
<1> QED
  BY <1>1, <1>2, <1>3

LEMMA StepCode == CoreInv /\ CodeInv /\ [Next]_vars => CodeInv'
<1> SUFFICES ASSUME CoreInv, CodeInv, [Next]_vars PROVE CodeInv'
  OBVIOUS
<1> USE UiAssumption
<1>1. CASE SelectMode
  BY <1>1, LocalConnectsTabs, RelayConnectsTabs DEF SelectMode, Connect
<1>2. CASE ClickConnect
  BY <1>2, LocalConnectsTabs DEF ClickConnect, saved
<1>3. CASE Unpair
  BY <1>3, ClosesTold DEF Unpair
<1>4. CASE SubmitRegistration
  BY <1>4, RelayConnectsTabs DEF SubmitRegistration, saved
<1>5. CASE ForgetContinues
  BY <1>5, ClosesTold DEF ForgetContinues
<1>6. CASE BridgeInit
  BY <1>6, LocalConnectsTabs, RelayConnectsTabs DEF BridgeInit, Connect
<1>7. CASE TokenSaved
  BY <1>7, LocalConnectsTabs DEF TokenSaved, CodeInv, TabsInv
<1>8. CASE RetryFires
  BY <1>8, LocalConnectsTabs, RelayConnectsTabs DEF RetryFires, saved, CodeInv, TabsInv
<1>9. ASSUME NEW w \in Attempts, RegisterError(w) PROVE CodeInv'
  BY <1>9, ClosesTold DEF RegisterError, Failed, saved
<1> USE DEF CodeInv, TabsInv, CodeGoesToItsAttempt, IdleForAReason, Credentials, saved, network
<1>10. CASE SubmitCode
  BY <1>10 DEF SubmitCode
<1>11. CASE SaveToken
  BY <1>11 DEF SaveToken
<1>12. CASE Forget
  BY <1>12 DEF Forget, CoreInv, CoreTypes, ConnectedIsProven
<1>13. ASSUME NEW w \in Attempts, HelloTimer(w) PROVE CodeInv'
  BY <1>13, ClosesTold DEF HelloTimer
<1>14. ASSUME NEW w \in Attempts, SocketOpens(w) PROVE CodeInv'
  BY <1>14 DEF SocketOpens
<1>15. ASSUME NEW w \in Attempts, PeerCloses(w) PROVE CodeInv'
  BY <1>15 DEF PeerCloses
<1>16. ASSUME NEW w \in Attempts, PairCode(w) PROVE CodeInv'
  BY <1>16 DEF PairCode, Receives, CoreInv, CurrentIsSocket
<1>17. ASSUME NEW w \in Attempts, RelayOk(w) PROVE CodeInv'
  BY <1>17 DEF RelayOk, Receives, MarkConnected, CoreInv, CurrentIsSocket
<1>18. ASSUME NEW w \in Attempts, CallResult(w) PROVE CodeInv'
  BY <1>18 DEF CallResult, Receives, CoreInv, CurrentIsSocket
<1>19. ASSUME NEW w \in Attempts, NEW b \in BOOLEAN, HelloMessage(w, b) PROVE CodeInv'
  BY <1>19, ClosesTold DEF HelloMessage, Failed
<1>20. ASSUME NEW w \in Attempts, NEW b \in BOOLEAN, PairOk(w, b) PROVE CodeInv'
  BY <1>20, ClosesTold DEF PairOk, Failed, Receives, CoreInv, CurrentIsSocket
<1>21. ASSUME NEW w \in Attempts, NEW b \in BOOLEAN, AuthOk(w, b) PROVE CodeInv'
  BY <1>21, ClosesTold DEF AuthOk, Failed, Receives, MarkConnected, CoreInv, CurrentIsSocket
<1>22. ASSUME NEW w \in Attempts, NEW code, CloseEvent(w, code) PROVE CodeInv'
  <2>1. CASE current = w
    <3>1. socket = w /\ retry = "none" /\ socket' = None /\ mode' = mode
      BY <1>22, <2>1 DEF CloseEvent, CoreInv, CurrentIsSocket, NothingOutlivesItsConnection
    <3>2. CASE LocalClosed(w, code) /\ kind[w] \in {"auth", "pair"}
      <4>1. \/ status' = "told" /\ retry' = "none"
            \/ retry' = "local" /\ token'
            \/ retry' = "none" /\ ~token /\ ~token'
        BY <3>1, <3>2, LocalClosedSays
      <4> QED
        BY <3>1, <3>2, <4>1
    <3>3. CASE RelayClosed(code) /\ kind[w] \notin {"auth", "pair"}
      <4>1. \/ status' = "told" /\ retry' = "none"
            \/ retry' = "relay" /\ relayDevice'
            \/ retry' = "none" /\ ~relayDevice'
        BY <3>1, <3>3, RelayClosedSays
      <4> QED
        BY <3>1, <3>3, <4>1
    <3> QED
      BY <1>22, <2>1, <3>2, <3>3 DEF CloseEvent
  <2>2. CASE current # w
    <3>1. CASE socket = None
      BY <1>22, <2>2, <3>1 DEF CloseEvent
    <3>2. CASE socket # None
      <4>1. socket # w /\ kind'[socket] = kind[socket]
        BY <1>22, <2>2, <3>2 DEF CloseEvent, CoreInv, CoreTypes, SocketIsCurrent
      <4> QED
        BY <1>22, <2>2, <3>2, <4>1 DEF CloseEvent
    <3> QED
      BY <3>1, <3>2
  <2> QED
    BY <2>1, <2>2
<1>23. CASE UNCHANGED vars
  BY <1>23 DEF vars
<1> HIDE DEF CodeInv, TabsInv, CodeGoesToItsAttempt, IdleForAReason, Credentials, saved, network
<1> QED
  BY <1>1, <1>2, <1>3, <1>4, <1>5, <1>6, <1>7, <1>8, <1>9, <1>10, <1>11, <1>12, <1>13, <1>14,
     <1>15, <1>16, <1>17, <1>18, <1>19, <1>20, <1>21, <1>22, <1>23 DEF Next

-----------------------------------------------------------------------------
(* Theorems *)

\* Every variable of the window has its type.
THEOREM TypeCorrect == Spec => []TypeOK
<1>1. Init => NetworkTypes /\ OtherTypes
  <2>1. Init => NetworkTypes
    BY DEF Init, NetworkTypes
  <2>2. Init => OtherTypes
    <3>1. Init => session \in [Attempts -> Sessions]
      BY NewSessionIsSession DEF Init
    <3>2. Init => {initialized, token, relayDevice, saving, connectDisabled, registerDisabled} \subseteq BOOLEAN
      BY DEF Init
    <3> QED
      BY <3>1, <3>2 DEF Init, OtherTypes, Statuses
  <2> QED
    BY <2>1, <2>2
<1>2. NetworkTypes /\ OtherTypes => TypeOK
  BY TypesSplit
<1> QED
  BY <1>1, <1>2, StepTypes, PTL DEF Spec

\* CoreInv holds in every reachable state.
THEOREM WindowInvariant == Spec => []CoreInv
  BY InitCore, StepCore, PTL DEF Spec

\* closeSocket() and the close event leave nothing of a connection: no second
\* socket, no retry beside a socket, no call without a connection.
THEOREM OneConnection == Spec => []NothingOutlivesItsConnection
<1>1. CoreInv => NothingOutlivesItsConnection
  BY DEF CoreInv
<1> QED
  BY <1>1, WindowInvariant, PTL

\* state.connected, which admits commands (ui.html:225), is that of a socket whose
\* other side proved itself, but in an attempt to pair of a window without a token.
THEOREM CommandsAreProven == Spec => []ConnectedIsProven
<1>1. CoreInv => ConnectedIsProven
  BY DEF CoreInv
<1> QED
  BY <1>1, WindowInvariant, PTL

\* The end of a replaced attempt's hello timer leaves its successor alone.
THEOREM ReplacedTimers == Spec => TimersSpareTheirSuccessors
<1>1. TypeOK => OtherTypes
  BY TypesSplit
<1> QED
  BY <1>1, TypeCorrect, WindowInvariant, StepIsQuiet, PTL DEF Spec, TimersSpareTheirSuccessors

\* CodeInv holds in every reachable state.
THEOREM TabsInvariant == Spec => []CodeInv
<1>1. Init => CodeInv
  BY UiAssumption DEF Init, CodeInv, TabsInv, CodeGoesToItsAttempt, IdleForAReason, Credentials
<1> QED
  BY <1>1, StepCode, WindowInvariant, PTL DEF Spec

\* A pairing code is sent on the connection that asked for it.
THEOREM Codes == Spec => []CodeGoesToItsAttempt
<1>1. CodeInv => CodeGoesToItsAttempt
  BY DEF CodeInv
<1> QED
  BY <1>1, TabsInvariant, PTL

\* A window with credentials that does nothing has told its user why.
THEOREM Idle == Spec => []IdleForAReason
<1>1. CodeInv => IdleForAReason
  BY DEF CodeInv
<1> QED
  BY <1>1, TabsInvariant, PTL

-----------------------------------------------------------------------------
(* Undo, with commands that overlap in any way *)

UndoTypes == UndoTypeOK /\ undo # <<>>

\* Commands that run at the same time have met.
Acquainted == \A c, d \in Running : c # d => d \in met[c]

Untouched(c) == EditsOf(c) \cap document.edits = {} /\ EditsOf(c) \cap Newest.edits = {}

\* While an uncrossed transaction runs, the newest committed state is the one it
\* began with: the document without its edits and those made meanwhile.
AtBoundary(c) ==
  /\ EditsOf(c) \cap Newest.edits = {}
  /\ Newest.edits \subseteq document.edits
  /\ document.edits \ Newest.edits \subseteq UNION {EditsOf(d) : d \in {c} \cup met[c]}

\* What a command did is where no rollback that may still come can take it.
Secured(c) ==
  /\ EditsOf(c) \subseteq document.edits
  /\ c \in Transactions \cup Replacements \/ Running \cap Transactions # {} =>
       EditsOf(c) \subseteq Newest.edits

\* The edits of a command that are there, by its outcome.
Accounted(c) ==
  /\ outcome[c] = "idle" => Untouched(c) /\ made[c] = 0
  /\ outcome[c] = "running" /\ c \in Replacements => made[c] = 0
  /\ outcome[c] = "failed" /\ c \in Transactions /\ Uncrossed(c) => Untouched(c)
  /\ outcome[c] = "running" /\ met[c] \cap Transactions = {} =>
       {c} \X (1 .. made[c]) \subseteq document.edits
  /\ outcome[c] = "running" /\ c \in Transactions /\ Uncrossed(c) => AtBoundary(c)
  /\ outcome[c] = "done" /\ (c \in Replacements \/ met[c] \cap Transactions = {}) => Secured(c)

EditsOK == \A c \in CommandIds : Accounted(c)

UndoInv == UndoTypes /\ Acquainted /\ EditsOK /\ OneUndoStep

\* Edits of different commands are different.
LEMMA EditsDisjoint ==
  ASSUME NEW c, NEW d, c # d
  PROVE  EditsOf(c) \cap EditsOf(d) = {}
BY DEF EditsOf

\* commitUndo leaves the given state as the newest one and forgets none.
LEMMA CommitLemma ==
  ASSUME UndoTypes, NEW state \in Documents
  PROVE  /\ CommitUndo(state) \in Seq(Documents)
         /\ CommitUndo(state) # <<>>
         /\ CommitUndo(state)[Len(CommitUndo(state))] = state
         /\ Len(CommitUndo(state)) >= Len(undo)
         /\ \A i \in 1 .. Len(undo) : CommitUndo(state)[i] = undo[i]
         /\ state # Newest => Len(CommitUndo(state)) = Len(undo) + 1
BY DEF UndoTypes, UndoTypeOK, CommitUndo, Newest

\* A history that is only added to keeps the step of every transaction whose
\* company is settled.
LEMMA StepsAreKept ==
  ASSUME UndoTypes, OneUndoStep, undo' \in Seq(Documents), Len(undo') >= Len(undo),
         \A i \in 1 .. Len(undo) : undo'[i] = undo[i],
         \A c \in Transactions : outcome'[c] = "done" /\ Edits > 0 /\ Uncrossed(c)' =>
           \/ outcome[c] = "done" /\ met'[c] = met[c]
           \/ \E i \in 2 .. Len(undo') :
                /\ EditsOf(c) \subseteq undo'[i].edits \ undo'[i - 1].edits
                /\ undo'[i].edits \ undo'[i - 1].edits \subseteq UNION {EditsOf(d) : d \in {c} \cup met'[c]}
  PROVE  OneUndoStep'
<1> SUFFICES ASSUME NEW c \in Transactions, outcome[c] = "done", met'[c] = met[c],
                    Edits > 0, Uncrossed(c)
             PROVE  \E i \in 2 .. Len(undo') :
                       /\ EditsOf(c) \subseteq undo'[i].edits \ undo'[i - 1].edits
                       /\ undo'[i].edits \ undo'[i - 1].edits \subseteq UNION {EditsOf(d) : d \in {c} \cup met[c]}
  BY DEF OneUndoStep, Uncrossed, EditsOf
<1>1. PICK i \in 2 .. Len(undo) :
         /\ EditsOf(c) \subseteq undo[i].edits \ undo[i - 1].edits
         /\ undo[i].edits \ undo[i - 1].edits \subseteq UNION {EditsOf(d) : d \in {c} \cup met[c]}
  BY DEF OneUndoStep
<1>2. i \in 1 .. Len(undo) /\ i - 1 \in 1 .. Len(undo) /\ i \in 2 .. Len(undo')
  BY <1>1 DEF UndoTypes, UndoTypeOK
<1>3. QED
  BY <1>1, <1>2

\* The invariant holds at the start.
LEMMA UndoInvInit ==
  ASSUME UndoInit
  PROVE  UndoInv
<1>1. document \in Documents /\ document.edits = {} /\ undo = <<document>>
  BY DEF UndoInit, Documents
<1>2. UndoTypes
  BY <1>1, UndoAssumption DEF UndoInit, UndoTypes, UndoTypeOK, UndoAssumption
<1>3. EditsOK
  BY <1>1 DEF UndoInit, EditsOK, Accounted, Untouched, Newest
<1>4. QED
  BY <1>2, <1>3, UndoAssumption DEF UndoInit, UndoInv, Acquainted, Running, OneUndoStep, UndoAssumption

\* A command that arrives meets those that run; a transaction makes the document
\* the newest committed state.
LEMMA BeginLemma ==
  ASSUME UndoInv, NEW c \in CommandIds, Begin(c)
  PROVE  UndoInv'
<1>1. /\ outcome' = [outcome EXCEPT ![c] = "running"] /\ outcome[c] = "idle"
      /\ made' = made /\ made[c] = 0 /\ Untouched(c) /\ Meet(c)
  BY DEF Begin, UndoInv, EditsOK, Accounted
<1>2. /\ outcome'[c] = "running" /\ \A d \in CommandIds : d # c => outcome'[d] = outcome[d]
      /\ Running' = Running \cup {c} /\ c \notin Running /\ Running \subseteq CommandIds
  BY <1>1 DEF UndoInv, UndoTypes, UndoTypeOK, Running
<1>3. /\ met' \in [CommandIds -> SUBSET CommandIds] /\ met'[c] = Running
      /\ \A d \in CommandIds : d # c =>
           /\ d \in Running => met'[d] = met[d] \cup {c}
           /\ d \notin Running => met'[d] = met[d]
  BY <1>1, <1>2 DEF Meet, UndoInv, UndoTypes, UndoTypeOK
<1>4. Acquainted'
  BY <1>2, <1>3 DEF Acquainted, UndoInv
<1>5. /\ document' \in Documents /\ document'.edits = document.edits
      /\ undo' \in Seq(Documents) /\ undo' # <<>> /\ Len(undo') >= Len(undo)
      /\ \A i \in 1 .. Len(undo) : undo'[i] = undo[i]
      /\ previous' \in [CommandIds -> CommandIds \cup {NoMarker}]
      /\ c \in Transactions => Newest' = document'
      /\ c \notin Transactions => Newest' = Newest
  <2>1. CASE c \in Transactions
    <3>1. /\ document' = [document EXCEPT !.marker = c] /\ undo' = CommitUndo(document')
          /\ previous' = [previous EXCEPT ![c] = document.marker]
      BY <2>1 DEF Begin
    <3>2. /\ document' \in Documents
          /\ document'.edits = document.edits /\ document.marker \in CommandIds \cup {NoMarker}
      BY <3>1 DEF UndoInv, UndoTypes, UndoTypeOK, Documents
    <3>3. QED
      BY <2>1, <3>1, <3>2, CommitLemma DEF UndoInv, UndoTypes, UndoTypeOK, Newest
  <2>2. CASE c \notin Transactions
    BY <2>2 DEF Begin, UndoInv, UndoTypes, UndoTypeOK, Newest
  <2>3. QED
    BY <2>1, <2>2
<1>6. UndoTypes'
  BY <1>1, <1>3, <1>5 DEF UndoInv, UndoTypes, UndoTypeOK
<1>7. Accounted(c)'
  <2>1. {c} \X (1 .. made'[c]) = {}
    BY <1>1
  <2>2. c \in Transactions => AtBoundary(c)'
    BY <1>1, <1>5 DEF AtBoundary, Untouched
  <2>3. QED
    BY <1>1, <1>2, <2>1, <2>2 DEF Accounted
<1>8. ASSUME NEW d \in CommandIds, d # c
      PROVE  Accounted(d)'
  <2>1. Accounted(d) /\ outcome'[d] = outcome[d] /\ made'[d] = made[d]
    BY <1>1, <1>2, <1>8 DEF UndoInv, EditsOK
  <2>2. Untouched(d) => Untouched(d)'
    BY <1>5 DEF Untouched
  <2>3. CASE d \in Running
    <3>1. outcome[d] = "running" /\ met'[d] = met[d] \cup {c}
      BY <1>3, <1>8, <2>3 DEF Running
    <3>2. AtBoundary(d) /\ c \notin Transactions => AtBoundary(d)'
      BY <1>5, <3>1 DEF AtBoundary, EditsOf
    <3>3. QED
      BY <1>5, <2>1, <3>1, <3>2 DEF Accounted, Uncrossed
  <2>4. CASE d \notin Running
    <3>1. outcome[d] # "running" /\ met'[d] = met[d]
      BY <1>3, <1>8, <2>4 DEF Running
    <3>2. Secured(d) => Secured(d)'
      BY <1>2, <1>5 DEF Secured
    <3>3. QED
      BY <2>1, <2>2, <3>1, <3>2 DEF Accounted, Uncrossed
  <2>5. QED
    BY <2>3, <2>4
<1>9. OneUndoStep'
  <2>1. \A d \in Transactions : outcome'[d] = "done" => outcome[d] = "done" /\ met'[d] = met[d]
    BY <1>2, <1>3, UndoAssumption DEF Running, UndoAssumption
  <2>2. QED
    BY <1>5, <2>1, StepsAreKept DEF UndoInv
<1>10. QED
  BY <1>4, <1>6, <1>7, <1>8, <1>9 DEF UndoInv, EditsOK

\* Edits that c adds touch no other command, and leave a transaction that c has met
\* at its boundary.
LEMMA OwnEdits ==
  ASSUME UndoInv, NEW c \in CommandIds, outcome[c] = "running", NEW E \in SUBSET EditsOf(c),
         document'.edits = document.edits \cup E, Newest' = Newest,
         met' = met, Running' \subseteq Running,
         NEW d \in CommandIds, d # c, outcome'[d] = outcome[d], made'[d] = made[d]
  PROVE  Accounted(d)'
<1>1. Accounted(d) /\ Running' = Running' /\ c \in Running
  BY DEF UndoInv, EditsOK, Running
<1>2. E \cap EditsOf(d) = {}
  BY EditsDisjoint
<1>3. Untouched(d) => Untouched(d)'
  BY <1>2 DEF Untouched
<1>4. Secured(d) => Secured(d)'
  BY DEF Secured
<1>5. outcome[d] = "running" /\ AtBoundary(d) => AtBoundary(d)'
  <2> SUFFICES ASSUME outcome[d] = "running", AtBoundary(d)
               PROVE  AtBoundary(d)'
    OBVIOUS
  <2>1. c \in met[d]
    BY <1>1 DEF UndoInv, Acquainted, Running
  <2>2. E \subseteq UNION {EditsOf(e) : e \in {d} \cup met[d]}
    BY <2>1
  <2>3. QED
    BY <2>2 DEF AtBoundary, EditsOf
<1>6. QED
  BY <1>1, <1>3, <1>4, <1>5 DEF Accounted, Uncrossed

\* An edit is one of the command's own.
LEMMA EditLemma ==
  ASSUME UndoInv, NEW c \in CommandIds, Edit(c)
  PROVE  UndoInv'
<1> DEFINE e == <<c, made[c] + 1>>
<1>1. /\ made' = [made EXCEPT ![c] = @ + 1] /\ made'[c] = made[c] + 1
      /\ made[c] \in Nat /\ made[c] + 1 \in 1 .. Edits /\ e \in EditsOf(c) /\ e \in AllEdits
  BY UndoAssumption DEF Edit, UndoInv, UndoTypes, UndoTypeOK, UndoAssumption,
     EditsOf, AllEdits
<1>2. /\ document' = [document EXCEPT !.edits = @ \cup {e}]
      /\ UNCHANGED <<undo, outcome, previous, met>> /\ outcome[c] = "running"
  BY <1>1 DEF Edit
<1>3. document' \in Documents /\ document'.edits = document.edits \cup {e}
  BY <1>1, <1>2 DEF UndoInv, UndoTypes, UndoTypeOK, Documents
<1>4. UndoTypes'
  BY <1>1, <1>2, <1>3, UndoAssumption DEF UndoInv, UndoTypes, UndoTypeOK, UndoAssumption
<1>5. Newest' = Newest /\ Running' = Running
  BY <1>2 DEF Newest, Running
<1>6. Accounted(c)'
  <2>1. {c} \X (1 .. made'[c]) = ({c} \X (1 .. made[c])) \cup {e}
    BY <1>1
  <2>2. AtBoundary(c) => AtBoundary(c)'
    <3> HIDE DEF e
    <3>1. QED
      BY <1>1, <1>2, <1>3, <1>5 DEF AtBoundary, EditsOf
  <2>3. Accounted(c)
    BY DEF UndoInv, EditsOK
  <2> HIDE DEF e
  <2>4. c \notin Replacements
    BY DEF Edit
  <2>5. QED
    BY <1>2, <1>3, <2>1, <2>2, <2>3, <2>4 DEF Accounted, Uncrossed
<1>7. ASSUME NEW d \in CommandIds, d # c
      PROVE  Accounted(d)'
  <2>1. {e} \in SUBSET EditsOf(c) /\ made'[d] = made[d] /\ outcome'[d] = outcome[d]
    BY <1>1, <1>2, <1>7 DEF UndoInv, UndoTypes, UndoTypeOK
  <2>2. QED
    BY <1>2, <1>3, <1>5, <1>7, <2>1, OwnEdits
<1>8. Acquainted' /\ OneUndoStep'
  BY <1>2, <1>5 DEF UndoInv, Acquainted, OneUndoStep, Uncrossed
<1>9. QED
  BY <1>4, <1>6, <1>7, <1>8 DEF UndoInv, EditsOK

\* A state that is committed holds the document's edits; only what runs uncrossed
\* minds, and that has not met the command that commits.
LEMMA CommitKeeps ==
  ASSUME UndoInv, NEW c \in Transactions \cup Replacements, outcome[c] = "running",
         NEW E \in SUBSET EditsOf(c), document'.edits = document.edits \cup E,
         Newest' = document', met' = met, Running' \subseteq Running,
         NEW d \in CommandIds, d # c, outcome'[d] = outcome[d], made'[d] = made[d]
  PROVE  Accounted(d)'
<1>1. c \in CommandIds /\ Accounted(d) /\ E \cap EditsOf(d) = {}
  BY UndoAssumption, EditsDisjoint DEF UndoAssumption, UndoInv, EditsOK
<1>2. Untouched(d) => Untouched(d)'
  BY <1>1 DEF Untouched
<1>3. Secured(d) => Secured(d)'
  BY DEF Secured
<1>4. outcome[d] = "running" => ~Uncrossed(d)
  BY <1>1 DEF UndoInv, Acquainted, Running, Uncrossed
<1>5. QED
  BY <1>1, <1>2, <1>3, <1>4 DEF Accounted, Uncrossed

\* A replacement commits all of its edits, or leaves some and commits none.
LEMMA ReplaceLemma ==
  ASSUME UndoInv, NEW c \in CommandIds, Replace(c)
  PROVE  UndoInv'
<1>1. PICK k \in 1 .. Edits :
        /\ made' = [made EXCEPT ![c] = k]
        /\ document' = [document EXCEPT !.edits = @ \cup ({c} \X (1 .. k))]
        /\ IF k = Edits
           THEN /\ undo' = CommitUndo(document')
                /\ outcome' = [outcome EXCEPT ![c] = "done"]
           ELSE /\ outcome' = [outcome EXCEPT ![c] = "failed"]
                /\ UNCHANGED undo
  BY DEF Replace
<1>2. /\ outcome[c] = "running" /\ c \in Replacements /\ c \notin Transactions
      /\ UNCHANGED <<previous, met>>
  BY UndoAssumption DEF Replace, UndoAssumption
<1> DEFINE E == {c} \X (1 .. k)
<1>3. E \in SUBSET EditsOf(c) /\ E \subseteq AllEdits /\ (k = Edits => E = EditsOf(c))
  BY <1>1, UndoAssumption DEF EditsOf, AllEdits, UndoAssumption
<1>4. document' \in Documents /\ document'.edits = document.edits \cup E
  BY <1>1, <1>3 DEF UndoInv, UndoTypes, UndoTypeOK, Documents
<1> HIDE DEF E
<1>5. /\ made' \in [CommandIds -> 0 .. Edits]
      /\ outcome' \in [CommandIds -> {"idle", "running", "done", "failed"}]
      /\ outcome'[c] = IF k = Edits THEN "done" ELSE "failed"
      /\ \A d \in CommandIds : d # c => outcome'[d] = outcome[d] /\ made'[d] = made[d]
      /\ Running' \subseteq Running
  <2>1. made' \in [CommandIds -> 0 .. Edits] /\ \A d \in CommandIds : d # c => made'[d] = made[d]
    BY <1>1, UndoAssumption DEF UndoInv, UndoTypes, UndoTypeOK, UndoAssumption
  <2>2. CASE k = Edits
    BY <1>1, <2>1, <2>2 DEF UndoInv, UndoTypes, UndoTypeOK, Running
  <2>3. CASE k # Edits
    BY <1>1, <2>1, <2>3 DEF UndoInv, UndoTypes, UndoTypeOK, Running
  <2>4. QED
    BY <2>2, <2>3
<1>6. /\ undo' \in Seq(Documents) /\ undo' # <<>> /\ Len(undo') >= Len(undo)
      /\ \A i \in 1 .. Len(undo) : undo'[i] = undo[i]
      /\ Newest' = IF k = Edits THEN document' ELSE Newest
  <2>1. CASE k = Edits
    <3>1. undo' = CommitUndo(document') /\ UndoTypes
      BY <1>1, <2>1 DEF UndoInv
    <3>2. QED
      BY <1>4, <2>1, <3>1, CommitLemma DEF Newest
  <2>2. CASE k # Edits
    BY <1>1, <2>2 DEF UndoInv, UndoTypes, UndoTypeOK, Newest
  <2>3. QED
    BY <2>1, <2>2
<1>7. UndoTypes'
  BY <1>2, <1>4, <1>5, <1>6 DEF UndoInv, UndoTypes, UndoTypeOK
<1>8. Accounted(c)'
  <2>1. k = Edits => Secured(c)'
    BY <1>3, <1>4, <1>6 DEF Secured, EditsOf
  <2>2. QED
    BY <1>2, <1>5, <2>1 DEF Accounted
<1>9. ASSUME NEW d \in CommandIds, d # c
      PROVE  Accounted(d)'
  <2>1. CASE k = Edits
    BY <1>2, <1>3, <1>4, <1>5, <1>6, <1>9, <2>1, CommitKeeps
  <2>2. CASE k # Edits
    BY <1>2, <1>3, <1>4, <1>5, <1>6, <1>9, <2>2, OwnEdits
  <2>3. QED
    BY <2>1, <2>2
<1>10. Acquainted'
  BY <1>2, <1>5 DEF UndoInv, Acquainted
<1>11. OneUndoStep'
  <2>1. \A d \in Transactions : outcome'[d] = "done" => outcome[d] = "done" /\ met'[d] = met[d]
    BY <1>2, <1>5, UndoAssumption DEF UndoAssumption
  <2>2. QED
    BY <1>6, <2>1, StepsAreKept DEF UndoInv
<1>12. QED
  BY <1>7, <1>8, <1>9, <1>10, <1>11 DEF UndoInv, EditsOK

\* A success commits what was done since the boundary.
LEMMA SucceedLemma ==
  ASSUME UndoInv, NEW c \in CommandIds, Succeed(c)
  PROVE  UndoInv'
<1>1. /\ outcome' = [outcome EXCEPT ![c] = "done"] /\ outcome[c] = "running" /\ made[c] = Edits
      /\ UNCHANGED <<made, previous, met>>
  BY DEF Succeed
<1>2. /\ \A d \in CommandIds : d # c => outcome'[d] = outcome[d] /\ made'[d] = made[d]
      /\ outcome'[c] = "done" /\ Running' \subseteq Running
  BY <1>1 DEF UndoInv, UndoTypes, UndoTypeOK, Running
<1>3. met[c] \cap Transactions = {} => EditsOf(c) \subseteq document.edits
  BY <1>1 DEF UndoInv, EditsOK, Accounted, EditsOf
<1>4. Acquainted'
  BY <1>1, <1>2 DEF UndoInv, Acquainted
<1>5. CASE c \in Transactions
  <2>1. document' = [document EXCEPT !.marker = previous[c]] /\ undo' = CommitUndo(document')
    BY <1>5 DEF Succeed
  <2>2. document' \in Documents /\ document'.edits = document.edits
    BY <2>1 DEF UndoInv, UndoTypes, UndoTypeOK, Documents
  <2>3. Newest' = document'
    BY <2>1, <2>2, CommitLemma DEF UndoInv, Newest
  <2>4. UndoTypes'
    BY <1>1, <2>1, <2>2, CommitLemma DEF UndoInv, UndoTypes, UndoTypeOK
  <2>5. Accounted(c)'
    <3>1. c \notin Replacements
      BY <1>5, UndoAssumption DEF UndoAssumption
    <3>2. EditsOf(c) \subseteq document.edits => Secured(c)'
      BY <2>2, <2>3 DEF Secured, EditsOf
    <3>3. QED
      BY <1>1, <1>2, <1>3, <3>1, <3>2 DEF Accounted
  <2>6. ASSUME NEW d \in CommandIds, d # c
        PROVE  Accounted(d)'
    <3>1. {} \in SUBSET EditsOf(c) /\ document'.edits = document.edits \cup {}
      BY <2>2
    <3>2. QED
      BY <1>1, <1>2, <1>5, <2>3, <2>6, <3>1, CommitKeeps
  <2>7. OneUndoStep'
    <3>1. ASSUME Edits > 0, Uncrossed(c)
          PROVE  \E i \in 2 .. Len(undo') :
                    /\ EditsOf(c) \subseteq undo'[i].edits \ undo'[i - 1].edits
                    /\ undo'[i].edits \ undo'[i - 1].edits \subseteq UNION {EditsOf(d) : d \in {c} \cup met'[c]}
      <4>1. AtBoundary(c) /\ EditsOf(c) \subseteq document.edits
        BY <1>1, <1>3, <1>5, <3>1 DEF UndoInv, EditsOK, Accounted, Uncrossed
      <4>2. <<c, 1>> \in EditsOf(c)
        BY <3>1, UndoAssumption DEF EditsOf, UndoAssumption
      <4>3. document' # Newest
        BY <2>2, <4>1, <4>2 DEF AtBoundary
      <4>4. Len(undo) \in Nat \ {0}
        BY DEF UndoInv, UndoTypes, UndoTypeOK
      <4>5. Len(undo') = Len(undo) + 1 /\ undo'[Len(undo')] = document'
        BY <2>1, <2>2, <4>3, CommitLemma DEF UndoInv
      <4>6. Len(undo) \in 1 .. Len(undo)
        BY <4>4
      <4>7. undo'[Len(undo)] = Newest
        BY <2>1, <2>2, <4>6, CommitLemma DEF UndoInv, Newest
      <4>8. Len(undo') \in 2 .. Len(undo') /\ Len(undo') - 1 = Len(undo)
        BY <4>4, <4>5
      <4>9. undo'[Len(undo')].edits \ undo'[Len(undo') - 1].edits = document.edits \ Newest.edits
        BY <2>2, <4>5, <4>7, <4>8
      <4>10. /\ EditsOf(c) \subseteq undo'[Len(undo')].edits \ undo'[Len(undo') - 1].edits
             /\ undo'[Len(undo')].edits \ undo'[Len(undo') - 1].edits
                   \subseteq UNION {EditsOf(d) : d \in {c} \cup met'[c]}
        BY <1>1, <4>1, <4>9 DEF AtBoundary
      <4>11. QED
        BY <4>8, <4>10
    <3>2. /\ undo' \in Seq(Documents) /\ Len(undo') >= Len(undo)
          /\ \A i \in 1 .. Len(undo) : undo'[i] = undo[i]
      BY <2>1, <2>2, CommitLemma DEF UndoInv
    <3>3. \A d \in Transactions : outcome'[d] = "done" /\ d # c => outcome[d] = "done" /\ met'[d] = met[d]
      BY <1>1, <1>2, UndoAssumption DEF UndoAssumption
    <3>4. Uncrossed(c)' => Uncrossed(c)
      BY <1>1 DEF Uncrossed
    <3>5. QED
      BY <3>1, <3>2, <3>3, <3>4, StepsAreKept DEF UndoInv
  <2>8. QED
    BY <1>4, <2>4, <2>5, <2>6, <2>7 DEF UndoInv, EditsOK
<1>6. CASE c \notin Transactions
  <2>1. UNCHANGED <<document, undo>> /\ Newest' = Newest
    BY <1>6 DEF Succeed, Newest
  <2>2. UndoTypes'
    BY <1>1, <2>1 DEF UndoInv, UndoTypes, UndoTypeOK
  <2>3. Accounted(c)'
    <3>1. c \in Replacements => EditsOf(c) = {}
      BY <1>1 DEF UndoInv, EditsOK, Accounted, EditsOf
    <3>2. met[c] \cap Transactions = {} => Running \cap Transactions = {}
      BY <1>1, <1>6 DEF UndoInv, Acquainted, Running
    <3>3. QED
      BY <1>1, <1>2, <1>3, <1>6, <2>1, <3>1, <3>2 DEF Accounted, Secured
  <2>4. ASSUME NEW d \in CommandIds, d # c
        PROVE  Accounted(d)'
    <3>1. {} \in SUBSET EditsOf(c) /\ document'.edits = document.edits \cup {}
      BY <2>1
    <3>2. QED
      BY <1>1, <1>2, <2>1, <2>4, <3>1, OwnEdits
  <2>5. OneUndoStep'
    <3>1. \A d \in Transactions : outcome'[d] = "done" => outcome[d] = "done" /\ met'[d] = met[d]
      BY <1>1, <1>2, <1>6, UndoAssumption DEF UndoAssumption
    <3>2. QED
      BY <2>1, <3>1, StepsAreKept DEF UndoInv, UndoTypes, UndoTypeOK
  <2>6. QED
    BY <1>4, <2>2, <2>3, <2>4, <2>5 DEF UndoInv, EditsOK
<1>7. QED
  BY <1>5, <1>6

\* triggerUndo goes back to the newest committed state, which holds what was done
\* before every transaction that still runs.
LEMMA FailLemma ==
  ASSUME UndoInv, NEW c \in CommandIds, Fail(c)
  PROVE  UndoInv'
<1>1. /\ outcome' = [outcome EXCEPT ![c] = "failed"] /\ outcome[c] = "running"
      /\ UNCHANGED <<undo, made, previous, met>>
  BY DEF Fail
<1>2. /\ \A d \in CommandIds : d # c => outcome'[d] = outcome[d] /\ made'[d] = made[d]
      /\ outcome'[c] = "failed" /\ Running' \subseteq Running
  BY <1>1 DEF UndoInv, UndoTypes, UndoTypeOK, Running
<1>3. Acquainted'
  BY <1>1, <1>2 DEF UndoInv, Acquainted
<1>4. Newest' = Newest /\ Newest \in Documents
  BY <1>1 DEF UndoInv, UndoTypes, UndoTypeOK, Newest
<1>5. OneUndoStep'
  <2>1. \A d \in Transactions : outcome'[d] = "done" => outcome[d] = "done" /\ met'[d] = met[d]
    BY <1>1, <1>2, UndoAssumption DEF UndoAssumption
  <2>2. QED
    BY <1>1, <2>1, StepsAreKept DEF UndoInv, UndoTypes, UndoTypeOK
<1>6. CASE c \in Transactions
  <2>1. document' = Newest
    BY <1>6 DEF Fail, TriggerUndo
  <2>2. UndoTypes'
    BY <1>1, <1>4, <2>1 DEF UndoInv, UndoTypes, UndoTypeOK
  <2>3. Accounted(c)'
    <3>1. Uncrossed(c) => Untouched(c)'
      BY <1>1, <1>4, <1>6, <2>1 DEF UndoInv, EditsOK, Accounted, AtBoundary, Untouched, EditsOf
    <3>2. QED
      BY <1>1, <1>2, <3>1 DEF Accounted, Uncrossed
  <2>4. ASSUME NEW d \in CommandIds, d # c
        PROVE  Accounted(d)'
    <3>1. Accounted(d) /\ c \in Running \cap Transactions
      BY <1>1, <1>6 DEF UndoInv, EditsOK, Running
    <3>2. Untouched(d) => Untouched(d)'
      BY <1>4, <2>1 DEF Untouched
    <3>3. Secured(d) => Secured(d)'
      BY <1>4, <2>1, <3>1 DEF Secured
    <3>4. outcome[d] = "running" => c \in met[d]
      BY <2>4, <3>1 DEF UndoInv, Acquainted, Running
    <3>5. QED
      BY <1>1, <1>2, <1>6, <2>4, <3>1, <3>2, <3>3, <3>4 DEF Accounted, Uncrossed
  <2>5. QED
    BY <1>3, <1>5, <2>2, <2>3, <2>4 DEF UndoInv, EditsOK
<1>7. CASE c \notin Transactions
  <2>1. document' = document
    BY <1>7 DEF Fail
  <2>2. UndoTypes'
    BY <1>1, <2>1 DEF UndoInv, UndoTypes, UndoTypeOK
  <2>3. Accounted(c)'
    BY <1>2, <1>7 DEF Accounted
  <2>4. ASSUME NEW d \in CommandIds, d # c
        PROVE  Accounted(d)'
    <3>1. {} \in SUBSET EditsOf(c) /\ document'.edits = document.edits \cup {}
      BY <2>1
    <3>2. QED
      BY <1>1, <1>2, <1>4, <2>4, <3>1, OwnEdits
  <2>5. QED
    BY <1>3, <1>5, <2>2, <2>3, <2>4 DEF UndoInv, EditsOK
<1>8. QED
  BY <1>6, <1>7

\* The inductive invariant of the undo history, whichever commands overlap.
THEOREM UndoInvariant ==
  UndoSpec => []UndoInv
<1>1. UndoInit => UndoInv
  BY UndoInvInit
<1>2. UndoInv /\ [UndoNext]_undoVars => UndoInv'
  <2> SUFFICES ASSUME UndoInv, [UndoNext]_undoVars
               PROVE  UndoInv'
    OBVIOUS
  <2>1. CASE UNCHANGED undoVars
    <3>1. UndoTypes' /\ Newest' = Newest /\ Running' = Running
      BY <2>1 DEF undoVars, UndoInv, UndoTypes, UndoTypeOK, Newest, Running
    <3>2. ASSUME NEW c \in CommandIds
          PROVE  Accounted(c)'
      <4>1. Accounted(c) /\ UNCHANGED <<document, outcome, made, met>>
        BY <2>1 DEF undoVars, UndoInv, EditsOK
      <4>2. /\ Untouched(c)' <=> Untouched(c)
            /\ AtBoundary(c)' <=> AtBoundary(c)
            /\ Secured(c)' <=> Secured(c)
            /\ Uncrossed(c)' <=> Uncrossed(c)
        BY <3>1, <4>1 DEF Untouched, AtBoundary, Secured, Uncrossed, EditsOf
      <4>3. QED
        BY <4>1, <4>2 DEF Accounted
    <3>3. Acquainted' /\ OneUndoStep'
      <4>1. Acquainted'
        BY <2>1, <3>1 DEF undoVars, UndoInv, Acquainted
      <4>2. /\ undo' \in Seq(Documents) /\ Len(undo') >= Len(undo)
            /\ \A i \in 1 .. Len(undo) : undo'[i] = undo[i]
        BY <2>1 DEF undoVars, UndoInv, UndoTypes, UndoTypeOK
      <4>3. \A d \in Transactions : outcome'[d] = "done" => outcome[d] = "done" /\ met'[d] = met[d]
        BY <2>1 DEF undoVars
      <4>4. QED
        BY <4>1, <4>2, <4>3, StepsAreKept DEF UndoInv
    <3>4. QED
      BY <3>1, <3>2, <3>3 DEF UndoInv, EditsOK
  <2>2. QED
    BY <2>1, BeginLemma, EditLemma, ReplaceLemma, SucceedLemma, FailLemma DEF UndoNext, Quiescent
<1>3. QED
  BY <1>1, <1>2, PTL DEF UndoSpec

\* A transaction that no other one and no replacement overlapped leaves nothing of
\* itself when it fails, whatever happened meanwhile and whatever happens later.
THEOREM UncrossedRollbacks ==
  UndoSpec => []UncrossedRollback
<1>1. UndoInv => UncrossedRollback
  BY UndoAssumption DEF UndoAssumption, UndoInv, EditsOK, Accounted, Untouched, UncrossedRollback
<1>2. QED
  BY <1>1, UndoInvariant, PTL

\* No rollback takes what a command did that no transaction overlapped, or what a
\* replacement did, and a finished uncrossed transaction is one step of the history.
THEOREM FinishedWork ==
  UndoSpec => []FinishedWorkStays
<1>1. UndoInv => DoneIsKept
  BY DEF UndoInv, EditsOK, Accounted, Secured, DoneIsKept
<1>2. UndoInv => OneUndoStep
  BY DEF UndoInv
<1>3. QED
  BY <1>1, <1>2, UndoInvariant, PTL DEF FinishedWorkStays

-----------------------------------------------------------------------------
(* What is defined along a tree *)

\* The nodes of S, by their parents: no group of them goes round without the root.
IsRooted(S, root, par) ==
  /\ root \in S /\ par \in [S \ {root} -> S]
  /\ \A T \in SUBSET (S \ {root}) : T # {} => \E n \in T : par[n] \notin T

\* A function of the nodes is given by its value for the root, and its value for
\* a node by the node and the value for its parent.
Gives(S, root, V, base, next) == base \in V /\ next \in [(S \ {root}) \X V -> V]
Follows(S, root, par, V, base, next, f) ==
  f \in [S -> V] /\ f[root] = base /\ \A n \in S \ {root} : f[n] = next[<<n, f[par[n]]>>]

\* A part of a solution, for nodes whose parents it is for, too.
Solves(S, root, par, base, next, D, f) ==
  /\ D \in SUBSET S /\ DOMAIN f = D
  /\ \A n \in D \ {root} : par[n] \in D /\ f[n] = next[<<n, f[par[n]]>>]
  /\ root \in D => f[root] = base

\* Every definition by the parent has a solution, so that what it defines unfolds.
LEMMA TreeRecursion ==
  ASSUME NEW S, NEW root, NEW par, IsRooted(S, root, par),
         NEW V, NEW base, NEW next, Gives(S, root, V, base, next)
  PROVE  \E f : Follows(S, root, par, V, base, next, f)
<1> base \in V /\ next \in [(S \ {root}) \X V -> V]
  BY DEF Gives
<1> DEFINE Part(D, f) == Solves(S, root, par, base, next, D, f)
<1>1. ASSUME NEW D, NEW f, Part(D, f), NEW E, NEW g, Part(E, g), NEW m \in D \cap E PROVE f[m] = g[m]
  <2> DEFINE T == {n \in D \cap E : f[n] # g[n]}
  <2>1. T \in SUBSET (S \ {root})
    BY <1>1 DEF Solves
  <2>2. ASSUME NEW n \in T PROVE par[n] \in T
    BY <1>1, <2>1 DEF Solves
  <2>3. T = {}
    BY <2>1, <2>2 DEF IsRooted
  <2> QED
    BY <1>1, <2>3
<1>2. ASSUME NEW m \in S PROVE \E D, f : Part(D, f) /\ m \in D /\ f[m] \in V
  <2> DEFINE T == {n \in S : ~\E D, f : Part(D, f) /\ n \in D /\ f[n] \in V}
  <2>1. root \notin T
    <3> DEFINE f == [n \in {root} |-> base]
    <3>1. Part({root}, f) /\ root \in {root} /\ f[root] \in V
      BY DEF IsRooted, Solves
    <3> QED
      BY <3>1
  <2>2. ASSUME NEW n \in T, par[n] \notin T PROVE FALSE
    <3>0. n \in S \ {root} /\ par[n] \in S
      BY <2>1 DEF IsRooted
    <3>1. PICK D, f : Part(D, f) /\ par[n] \in D /\ f[par[n]] \in V
      BY <2>2, <3>0
    <3>2. n \notin D
      <4> SUFFICES ASSUME n \in D PROVE f[n] \in V
        BY <3>1
      <4> QED
        BY <3>0, <3>1 DEF Solves
    <3> DEFINE g == [k \in D \cup {n} |-> IF k \in D THEN f[k] ELSE next[<<n, f[par[n]]>>]]
    <3>3. Part(D \cup {n}, g)
      BY <3>0, <3>1, <3>2 DEF Solves
    <3>4. g[n] \in V
      BY <3>0, <3>1, <3>2
    <3> QED
      BY <3>3, <3>4
  <2>3. T = {}
    <3>1. T \in SUBSET (S \ {root})
      BY <2>1
    <3> HIDE DEF T
    <3> QED
      BY <2>2, <3>1 DEF IsRooted
  <2> QED
    BY <2>3
<1> DEFINE F == [n \in S |-> CHOOSE v : \E D, f : Part(D, f) /\ n \in D /\ v = f[n]]
<1>3. ASSUME NEW D, NEW f, Part(D, f), NEW n \in D PROVE n \in S /\ F[n] = f[n]
  <2>1. n \in S
    BY <1>3 DEF Solves
  <2>2. \E v : \E E, g : Part(E, g) /\ n \in E /\ v = g[n]
    BY <1>3
  <2>3. \A v : (\E E, g : Part(E, g) /\ n \in E /\ v = g[n]) => v = f[n]
    BY <1>1, <1>3
  <2> HIDE DEF Part
  <2> QED
    BY <2>1, <2>2, <2>3
<1>4. F \in [S -> V]
  <2> SUFFICES ASSUME NEW n \in S PROVE F[n] \in V
    OBVIOUS
  <2>1. PICK D, f : Part(D, f) /\ n \in D /\ f[n] \in V
    BY <1>2
  <2> HIDE DEF Part, F
  <2> QED
    BY <1>3, <2>1
<1>5. F[root] = base
  <2>1. PICK D, f : Part(D, f) /\ root \in D
    BY <1>2 DEF IsRooted
  <2>2. f[root] = base
    BY <2>1 DEF Solves
  <2> HIDE DEF F, Part
  <2> QED
    BY <1>3, <2>1, <2>2
<1>6. ASSUME NEW n \in S \ {root} PROVE F[n] = next[<<n, F[par[n]]>>]
  <2>1. PICK D, f : Part(D, f) /\ n \in D
    BY <1>2
  <2>2. par[n] \in D /\ f[n] = next[<<n, f[par[n]]>>]
    BY <2>1 DEF Solves
  <2> HIDE DEF F, Part
  <2>3. F[n] = f[n] /\ F[par[n]] = f[par[n]]
    BY <1>3, <2>1, <2>2
  <2> QED
    BY <2>2, <2>3
<1> HIDE DEF F
<1> QED
  BY <1>4, <1>5, <1>6 DEF Follows

\* The tree as a function, for the lemmas about trees.
Parents(d) == [n \in Nodes(d) \ {Page} |-> ParentOf(d, n)]

\* What ParentOf() chooses is the parent, and there is no other.
LEMMA OneParent ==
  ASSUME NEW d, IsTree(d), NEW n \in Nodes(d) \ {Page}
  PROVE  /\ ParentOf(d, n) \in Nodes(d)
         /\ \A q \in Nodes(d) : n \in ToSet(d.kids[q]) <=> q = ParentOf(d, n)
<1>1. PICK p \in Nodes(d) : \A q \in Nodes(d) : n \in ToSet(d.kids[q]) <=> q = p
  BY DEF IsTree
<1>2. ParentOf(d, n) = p
  BY <1>1 DEF ParentOf
<1> QED
  BY <1>1, <1>2

\* A document is a tree in that sense.
LEMMA TreeIsRooted ==
  ASSUME NEW d, IsTree(d)
  PROVE  IsRooted(Nodes(d), Page, Parents(d))
<1>1. Parents(d) \in [Nodes(d) \ {Page} -> Nodes(d)]
  BY OneParent DEF Parents
<1> QED
  BY <1>1 DEF IsTree, IsRooted, Parents

\* No node is in a set that has, with every node, its parent, but not the page.
LEMMA TreeInduction ==
  ASSUME NEW d, IsTree(d), NEW T, T \subseteq Nodes(d) \ {Page}, \A n \in T : ParentOf(d, n) \in T
  PROVE  T = {}
BY DEF IsTree

\* The recursive function of Above().
AboveIn(d) ==
  CHOOSE f : f = [m \in Nodes(d) |-> IF m = Page THEN {m} ELSE {m} \cup f[ParentOf(d, m)]]

\* The nodes above a node are it and those above its parent.
LEMMA AboveUnfolds ==
  ASSUME NEW d, IsTree(d), NEW n \in Nodes(d)
  PROVE  /\ Above(d, n) \subseteq Nodes(d)
         /\ n = Page => Above(d, n) = {n}
         /\ n # Page => Above(d, n) = {n} \cup Above(d, ParentOf(d, n))
<1> DEFINE S == Nodes(d)
           V == SUBSET Nodes(d)
           next == [x \in (S \ {Page}) \X V |-> {x[1]} \cup x[2]]
<1>1. IsRooted(S, Page, Parents(d))
  BY TreeIsRooted
<1>2. Gives(S, Page, V, {Page}, next)
  BY DEF IsTree, Gives
<1>3. PICK f : Follows(S, Page, Parents(d), V, {Page}, next, f)
  <2> HIDE DEF S, V, next
  <2> QED
    BY <1>1, <1>2, TreeRecursion
<1>4. f \in [S -> V] /\ f[Page] = {Page} /\ \A m \in S \ {Page} : f[m] = next[<<m, f[Parents(d)[m]]>>]
  <2> HIDE DEF S, V, next
  <2> QED
    BY <1>3 DEF Follows
<1>5. \A m \in S \ {Page} : f[m] = {m} \cup f[ParentOf(d, m)]
  <2> TAKE m \in S \ {Page}
  <2>1. ParentOf(d, m) \in S /\ Parents(d)[m] = ParentOf(d, m)
    BY OneParent DEF Parents
  <2>2. f[ParentOf(d, m)] \in V
    BY <1>4, <2>1
  <2>3. f[m] = next[<<m, f[ParentOf(d, m)]>>]
    BY <1>4, <2>1
  <2>4. next[<<m, f[ParentOf(d, m)]>>] = {m} \cup f[ParentOf(d, m)]
    BY <2>2
  <2> HIDE DEF next
  <2> QED
    BY <2>3, <2>4
<1>6. f = [m \in S |-> IF m = Page THEN {m} ELSE {m} \cup f[ParentOf(d, m)]]
  BY <1>4, <1>5
<1>7. AboveIn(d) = [m \in S |-> IF m = Page THEN {m} ELSE {m} \cup AboveIn(d)[ParentOf(d, m)]]
  BY <1>6 DEF AboveIn
<1>8. \A m \in S : Above(d, m) = AboveIn(d)[m]
  BY DEF Above, AboveIn
<1>9. \A m \in S : /\ m = Page => Above(d, m) = {m}
                   /\ m # Page => Above(d, m) = {m} \cup Above(d, ParentOf(d, m))
  BY <1>7, <1>8, OneParent
<1>10. {m \in S : ~(Above(d, m) \subseteq S)} = {}
  <2> DEFINE T == {m \in S : ~(Above(d, m) \subseteq S)}
  <2>1. T \subseteq S \ {Page} /\ \A m \in T : ParentOf(d, m) \in T
    BY <1>9, OneParent
  <2> HIDE DEF T
  <2> QED
    BY <2>1, TreeInduction DEF T
<1> QED
  BY <1>9, <1>10

\* A node is above itself, and so is the parent of any node that is above it.
LEMMA AboveIsClosed ==
  ASSUME NEW d, IsTree(d), NEW n \in Nodes(d)
  PROVE  /\ n \in Above(d, n)
         /\ \A m \in Above(d, n) \ {Page} : ParentOf(d, m) \in Above(d, n)
<1>1. n \in Above(d, n)
  BY AboveUnfolds
<1> DEFINE T == {k \in Nodes(d) : \E m \in Above(d, k) \ {Page} : ParentOf(d, m) \notin Above(d, k)}
<1>2. \A k \in T : k # Page /\ ParentOf(d, k) \in T
  <2> TAKE k \in T
  <2>1. PICK m \in Above(d, k) \ {Page} : ParentOf(d, m) \notin Above(d, k)
    OBVIOUS
  <2>2. k # Page
    BY <2>1, AboveUnfolds
  <2>3. ParentOf(d, k) \in Nodes(d) /\ ParentOf(d, k) \in Above(d, ParentOf(d, k))
    BY <2>2, OneParent, AboveUnfolds
  <2>4. Above(d, k) = {k} \cup Above(d, ParentOf(d, k))
    BY <2>2, AboveUnfolds
  <2>5. m # k /\ m \in Above(d, ParentOf(d, k)) /\ ParentOf(d, m) \notin Above(d, ParentOf(d, k))
    BY <2>1, <2>3, <2>4
  <2> QED
    BY <2>2, <2>3, <2>5
<1>3. T = {}
  <2>1. T \subseteq Nodes(d) \ {Page}
    BY <1>2
  <2> HIDE DEF T
  <2> QED
    BY <1>2, <2>1, TreeInduction
<1> QED
  BY <1>1, <1>3

\* Nothing else is above a node than what is in every such set.
LEMMA AboveWithin ==
  ASSUME NEW d, IsTree(d), NEW B, B \subseteq Nodes(d), \A m \in B \ {Page} : ParentOf(d, m) \in B, NEW n \in B
  PROVE  Above(d, n) \subseteq B
<1> DEFINE T == {k \in B : ~(Above(d, k) \subseteq B)}
<1>1. \A k \in T : k # Page /\ ParentOf(d, k) \in T
  BY AboveUnfolds
<1>2. T = {}
  <2>1. T \subseteq Nodes(d) \ {Page}
    BY <1>1
  <2> HIDE DEF T
  <2> QED
    BY <1>1, <2>1, TreeInduction
<1> QED
  BY <1>2

\* What is above a node that is above n is above n.
LEMMA AboveIsTransitive ==
  ASSUME NEW d, IsTree(d), NEW n \in Nodes(d), NEW m \in Above(d, n)
  PROVE  m \in Nodes(d) /\ Above(d, m) \subseteq Above(d, n)
BY AboveUnfolds, AboveIsClosed, AboveWithin

\* No node is above its own parent: insertChild() makes no cycle unless it is asked to.
LEMMA NotAboveItself ==
  ASSUME NEW d, IsTree(d), NEW n \in Nodes(d) \ {Page}
  PROVE  n \notin Above(d, ParentOf(d, n))
<1> SUFFICES ASSUME n \in Above(d, ParentOf(d, n)) PROVE FALSE
  OBVIOUS
<1> DEFINE T == {m \in Nodes(d) : n \in Above(d, m) /\ m \in Above(d, n)}
<1>1. ParentOf(d, n) \in T /\ n \in T
  BY OneParent, AboveIsClosed
<1>2. \A m \in T : m # Page
  BY AboveUnfolds
<1>3. ASSUME NEW m \in T PROVE ParentOf(d, m) \in T
  <2>1. m # Page
    BY <1>2
  <2>2. ParentOf(d, m) \in Nodes(d) /\ ParentOf(d, m) \in Above(d, n)
    BY <2>1, OneParent, AboveIsClosed
  <2>3. m = n \/ n \in Above(d, ParentOf(d, m))
    BY <2>1, AboveUnfolds
  <2> QED
    BY <1>1, <2>2, <2>3
<1>4. T = {}
  <2>1. T \subseteq Nodes(d) \ {Page}
    BY <1>2
  <2> HIDE DEF T
  <2> QED
    BY <1>3, <2>1, TreeInduction
<1> QED
  BY <1>1, <1>4

\* The recursive function of Absolute().
AbsoluteIn(d) ==
  CHOOSE f : f = [m \in Nodes(d) |-> d.at[m] + (IF m = Page THEN 0 ELSE f[ParentOf(d, m)])]

\* Where a node is seen: its offset from where its parent is seen.
LEMMA AbsoluteUnfolds ==
  ASSUME NEW d, IsTree(d), NEW n \in Nodes(d)
  PROVE  /\ Absolute(d, n) \in Int
         /\ n = Page => Absolute(d, n) = d.at[n]
         /\ n # Page => Absolute(d, n) = d.at[n] + Absolute(d, ParentOf(d, n))
<1> DEFINE S == Nodes(d)
           V == Int
           next == [x \in (S \ {Page}) \X V |-> d.at[x[1]] + x[2]]
<1>1. IsRooted(S, Page, Parents(d))
  BY TreeIsRooted
<1>2. Gives(S, Page, V, d.at[Page], next)
  BY DEF IsTree, Gives
<1>3. PICK f : Follows(S, Page, Parents(d), V, d.at[Page], next, f)
  <2> HIDE DEF S, V, next
  <2> QED
    BY <1>1, <1>2, TreeRecursion
<1>4. f \in [S -> V] /\ f[Page] = d.at[Page] /\ \A m \in S \ {Page} : f[m] = next[<<m, f[Parents(d)[m]]>>]
  <2> HIDE DEF S, V, next
  <2> QED
    BY <1>3 DEF Follows
<1>5. \A m \in S \ {Page} : f[m] = d.at[m] + f[ParentOf(d, m)]
  <2> TAKE m \in S \ {Page}
  <2>1. ParentOf(d, m) \in S /\ Parents(d)[m] = ParentOf(d, m)
    BY OneParent DEF Parents
  <2>2. f[ParentOf(d, m)] \in V
    BY <1>4, <2>1
  <2>3. f[m] = next[<<m, f[ParentOf(d, m)]>>]
    BY <1>4, <2>1
  <2>4. next[<<m, f[ParentOf(d, m)]>>] = d.at[m] + f[ParentOf(d, m)]
    BY <2>2
  <2> HIDE DEF next
  <2> QED
    BY <2>3, <2>4
<1>6. f = [m \in S |-> d.at[m] + (IF m = Page THEN 0 ELSE f[ParentOf(d, m)])]
  <2> SUFFICES ASSUME NEW m \in S PROVE f[m] = d.at[m] + (IF m = Page THEN 0 ELSE f[ParentOf(d, m)])
    BY <1>4
  <2>1. d.at[m] \in Int
    BY DEF IsTree
  <2> QED
    BY <1>4, <1>5, <2>1
<1>7. AbsoluteIn(d) = [m \in S |-> d.at[m] + (IF m = Page THEN 0 ELSE AbsoluteIn(d)[ParentOf(d, m)])]
  BY <1>6 DEF AbsoluteIn
<1>8. \A m \in S : Absolute(d, m) = AbsoluteIn(d)[m]
  BY DEF Absolute, AbsoluteIn
<1>9. \A m \in S : /\ m = Page => Absolute(d, m) = d.at[m]
                   /\ m # Page => Absolute(d, m) = d.at[m] + Absolute(d, ParentOf(d, m))
  <2> TAKE m \in S
  <2>1. d.at[m] \in Int /\ AbsoluteIn(d)[m] = d.at[m] + (IF m = Page THEN 0 ELSE AbsoluteIn(d)[ParentOf(d, m)])
    BY <1>7 DEF IsTree
  <2>2. m # Page => ParentOf(d, m) \in S
    BY OneParent
  <2> QED
    BY <2>1, <2>2, <1>8
<1>10. {m \in S : Absolute(d, m) \notin Int} = {}
  <2> DEFINE T == {m \in S : Absolute(d, m) \notin Int}
  <2>0. \A m \in S : d.at[m] \in Int
    BY DEF IsTree
  <2>1. T \subseteq S \ {Page} /\ \A m \in T : ParentOf(d, m) \in T
    BY <1>9, <2>0, OneParent
  <2> HIDE DEF T
  <2> QED
    BY <2>1, TreeInduction DEF T
<1> QED
  BY <1>9, <1>10

\* Nodes are seen where they were, if each is as far from its parent's place as
\* it was seen to be.
LEMMA PlacesKept ==
  ASSUME NEW d, IsTree(d), NEW e, IsTree(e), NEW B, B \subseteq Nodes(d) \cap Nodes(e),
         e.at[Page] = d.at[Page],
         \A m \in B \ {Page} : /\ ParentOf(e, m) \in B
                               /\ e.at[m] + Absolute(d, ParentOf(e, m)) = Absolute(d, m)
  PROVE  \A m \in B : Absolute(e, m) = Absolute(d, m)
<1> DEFINE T == {m \in B : Absolute(e, m) # Absolute(d, m)}
<1>1. Page \notin T
  BY AbsoluteUnfolds
<1>2. ASSUME NEW m \in T PROVE ParentOf(e, m) \in T
  <2>1. m \in B \ {Page}
    BY <1>1
  <2>2. Absolute(e, m) = e.at[m] + Absolute(e, ParentOf(e, m))
    BY <2>1, AbsoluteUnfolds
  <2> QED
    BY <2>1, <2>2
<1>3. T = {}
  <2>1. T \subseteq Nodes(e) \ {Page}
    BY <1>1
  <2> HIDE DEF T
  <2> QED
    BY <1>2, <2>1, TreeInduction
<1> QED
  BY <1>3

-----------------------------------------------------------------------------
(* Lists of children *)

\* What is left and right of a place in a list.
LEMMA Splitting ==
  ASSUME NEW S, NEW s \in Seq(S), NEW k \in 1 .. Len(s) + 1
  PROVE  /\ SubSeq(s, 1, k - 1) \in Seq(S) /\ Len(SubSeq(s, 1, k - 1)) = k - 1
         /\ \A i \in 1 .. k - 1 : SubSeq(s, 1, k - 1)[i] = s[i]
         /\ SubSeq(s, k, Len(s)) \in Seq(S) /\ Len(SubSeq(s, k, Len(s))) = Len(s) - k + 1
         /\ \A i \in 1 .. Len(s) - k + 1 : SubSeq(s, k, Len(s))[i] = s[k + i - 1]
<1>1. Len(s) \in Nat /\ \A i \in 1 .. Len(s) : s[i] \in S
  BY LenProperties
<1> QED
  BY <1>1, SubSeqProperties

\* RemoveFirst() of a list that has every element once.
LEMMA RemovingFirst ==
  ASSUME NEW S, NEW s \in Seq(S), IsInjective(s), NEW e
  PROVE  /\ RemoveFirst(s, e) \in Seq(S)
         /\ IsInjective(RemoveFirst(s, e))
         /\ ToSet(RemoveFirst(s, e)) = ToSet(s) \ {e}
<1>1. CASE ~\E i \in 1 .. Len(s) : s[i] = e
  BY <1>1 DEF RemoveFirst, ToSet
<1>2. CASE \E i \in 1 .. Len(s) : s[i] = e
  <2> DEFINE I == {i \in 1 .. Len(s) : s[i] = e}
             r == RemoveFirst(s, e)
  <2>1. PICK k \in 1 .. Len(s) : s[k] = e
    BY <1>2
  <2>2. I = {k}
    BY <2>1 DEF IsInjective
  <2>3. Min(I) = k
    BY <2>2 DEF Min
  <2>4. r = SubSeq(s, 1, k - 1) \o SubSeq(s, k + 1, Len(s))
    <3>1. SelectInSeq(s, LAMBDA v : v = e) = k
      BY <2>2, <2>3 DEF SelectInSeq
    <3> QED
      BY <1>2, <3>1 DEF RemoveFirst, RemoveAt
  <2>5. /\ r \in Seq(S) /\ Len(r) = Len(s) - 1
        /\ \A i \in 1 .. Len(s) - 1 : r[i] = IF i < k THEN s[i] ELSE s[i + 1]
    <3> DEFINE a == SubSeq(s, 1, k - 1)
               b == SubSeq(s, k + 1, Len(s))
    <3>1. Len(s) \in Nat /\ k \in 1 .. Len(s) + 1 /\ k + 1 \in 1 .. Len(s) + 1
      BY LenProperties
    <3>2. a \in Seq(S) /\ Len(a) = k - 1 /\ \A i \in 1 .. k - 1 : a[i] = s[i]
      BY <3>1, Splitting
    <3>3. b \in Seq(S) /\ Len(b) = Len(s) - k /\ \A i \in 1 .. Len(s) - k : b[i] = s[k + i]
      BY <3>1, Splitting
    <3> HIDE DEF a, b, r
    <3>4. r = a \o b
      BY <2>4 DEF a, b
    <3>5. /\ r \in Seq(S) /\ Len(r) = Len(a) + Len(b)
          /\ \A i \in 1 .. Len(a) + Len(b) : r[i] = IF i <= Len(a) THEN a[i] ELSE b[i - Len(a)]
      BY <3>2, <3>3, <3>4, ConcatProperties
    <3>6. Len(a) + Len(b) = Len(s) - 1
      BY <3>1, <3>2, <3>3
    <3>7. ASSUME NEW i \in 1 .. Len(s) - 1, ~(i < k) PROVE r[i] = s[i + 1]
      <4>1. i - Len(a) \in 1 .. Len(s) - k /\ k + (i - Len(a)) = i + 1 /\ ~(i <= Len(a))
        BY <3>1, <3>2, <3>7
      <4> QED
        BY <3>3, <3>5, <3>6, <4>1
    <3>8. ASSUME NEW i \in 1 .. Len(s) - 1, i < k PROVE r[i] = s[i]
      <4>1. i \in 1 .. k - 1 /\ i <= Len(a)
        BY <3>1, <3>2, <3>8
      <4> QED
        BY <3>2, <3>5, <3>6, <4>1
    <3> QED
      BY <3>5, <3>6, <3>7, <3>8
  <2>6. DOMAIN r = 1 .. Len(s) - 1 /\ DOMAIN s = 1 .. Len(s) /\ Len(s) \in Nat
    BY <2>5, LenProperties
  <2> HIDE DEF r
  <2>7. IsInjective(r)
    BY <2>1, <2>5, <2>6 DEF IsInjective
  <2>8. ToSet(r) \subseteq ToSet(s) \ {e}
    <3> SUFFICES ASSUME NEW i \in 1 .. Len(s) - 1 PROVE r[i] \in ToSet(s) /\ r[i] # e
      BY <2>6 DEF ToSet
    <3>1. PICK j \in 1 .. Len(s) : j # k /\ r[i] = s[j]
      BY <2>1, <2>5, <2>6
    <3> QED
      BY <2>1, <2>6, <3>1 DEF ToSet, IsInjective
  <2>9. ToSet(s) \ {e} \subseteq ToSet(r)
    <3> SUFFICES ASSUME NEW j \in 1 .. Len(s), j # k PROVE s[j] \in ToSet(r)
      BY <2>1, <2>6 DEF ToSet
    <3>1. PICK i \in 1 .. Len(s) - 1 : r[i] = s[j]
      <4>1. CASE j < k
        BY <2>1, <2>5, <2>6, <4>1
      <4>2. CASE j > k
        <5>1. j - 1 \in 1 .. Len(s) - 1 /\ ~(j - 1 < k) /\ (j - 1) + 1 = j
          BY <2>1, <2>6, <4>2
        <5> QED
          BY <2>5, <5>1
      <4> QED
        BY <2>1, <2>6, <4>1, <4>2
    <3> QED
      BY <2>6, <3>1 DEF ToSet
  <2> QED
    BY <2>5, <2>7, <2>8, <2>9 DEF r
<1> QED
  BY <1>1, <1>2

\* InsertAt() of an element that a list does not have.
LEMMA InsertingAt ==
  ASSUME NEW S, NEW s \in Seq(S), IsInjective(s), NEW e \in S \ ToSet(s), NEW k \in 1 .. Len(s) + 1
  PROVE  /\ InsertAt(s, k, e) \in Seq(S)
         /\ IsInjective(InsertAt(s, k, e))
         /\ ToSet(InsertAt(s, k, e)) = ToSet(s) \cup {e}
<1> DEFINE r == InsertAt(s, k, e)
           a == SubSeq(s, 1, k - 1)
           b == SubSeq(s, k, Len(s))
           c == a \o <<e>>
<1>1. Len(s) \in Nat /\ k \in Nat /\ DOMAIN s = 1 .. Len(s)
  BY LenProperties
<1>2. a \in Seq(S) /\ Len(a) = k - 1 /\ \A i \in 1 .. k - 1 : a[i] = s[i]
  BY Splitting
<1>3. b \in Seq(S) /\ Len(b) = Len(s) - k + 1 /\ \A i \in 1 .. Len(s) - k + 1 : b[i] = s[k + i - 1]
  BY Splitting
<1>4. r = c \o b
  BY DEF InsertAt
<1>5. <<e>> \in Seq(S) /\ Len(<<e>>) = 1 /\ <<e>>[1] = e
  OBVIOUS
<1> HIDE DEF a, b, c, r
<1>6. c \in Seq(S) /\ Len(c) = k /\ c[k] = e /\ \A i \in 1 .. k - 1 : c[i] = s[i]
  <2>1. /\ c \in Seq(S) /\ Len(c) = Len(a) + Len(<<e>>)
        /\ \A i \in 1 .. Len(a) + Len(<<e>>) : c[i] = IF i <= Len(a) THEN a[i] ELSE <<e>>[i - Len(a)]
    BY <1>2, <1>5, ConcatProperties DEF c
  <2>2. Len(a) + Len(<<e>>) = k /\ k - Len(a) = 1 /\ ~(k <= Len(a))
    BY <1>1, <1>2, <1>5
  <2>3. c[k] = e
    <3>1. k \in 1 .. Len(a) + Len(<<e>>)
      BY <1>1, <2>2
    <3>2. c[k] = <<e>>[k - Len(a)]
      BY <2>1, <2>2, <3>1
    <3> QED
      BY <1>5, <2>2, <3>2
  <2>4. ASSUME NEW i \in 1 .. k - 1 PROVE c[i] = s[i]
    BY <1>1, <1>2, <2>1, <2>2
  <2> QED
    BY <2>1, <2>2, <2>3, <2>4
<1>7. /\ r \in Seq(S) /\ Len(r) = Len(s) + 1
      /\ \A i \in 1 .. Len(s) + 1 : r[i] = IF i <= k THEN c[i] ELSE b[i - k]
  <2>1. /\ r \in Seq(S) /\ Len(r) = Len(c) + Len(b)
        /\ \A i \in 1 .. Len(c) + Len(b) : r[i] = IF i <= Len(c) THEN c[i] ELSE b[i - Len(c)]
    BY <1>3, <1>4, <1>6, ConcatProperties
  <2>2. Len(c) + Len(b) = Len(s) + 1
    BY <1>1, <1>3, <1>6
  <2> QED
    BY <1>6, <2>1, <2>2
<1>8. DOMAIN r = 1 .. Len(s) + 1
  BY <1>7, LenProperties
<1>9. ASSUME NEW i \in 1 .. k - 1 PROVE i \in 1 .. Len(s) + 1 /\ i \in 1 .. Len(s) /\ r[i] = s[i]
  BY <1>1, <1>6, <1>7
<1>10. k \in 1 .. Len(s) + 1 /\ r[k] = e
  BY <1>1, <1>6, <1>7
<1>11. ASSUME NEW i \in k .. Len(s) PROVE i \in 1 .. Len(s) /\ i + 1 \in 1 .. Len(s) + 1 /\ r[i + 1] = s[i]
  <2>1. i \in 1 .. Len(s) /\ i + 1 \in 1 .. Len(s) + 1 /\ ~(i + 1 <= k)
    BY <1>1
  <2>2. PICK x \in 1 .. Len(s) - k + 1 : x = i + 1 - k /\ k + x - 1 = i
    BY <1>1
  <2>3. r[i + 1] = b[x]
    BY <1>7, <2>1, <2>2
  <2>4. b[x] = s[i]
    BY <1>3, <2>2
  <2> QED
    BY <2>1, <2>3, <2>4
<1>12. \A i \in 1 .. Len(s) + 1 :
          i # k => \E j \in 1 .. Len(s) : r[i] = s[j] /\ (i < k => i = j) /\ (i > k => i = j + 1)
  <2> SUFFICES ASSUME NEW i \in 1 .. Len(s) + 1, i # k
               PROVE  \E j \in 1 .. Len(s) : r[i] = s[j] /\ (i < k => i = j) /\ (i > k => i = j + 1)
    OBVIOUS
  <2>1. CASE i < k
    BY <1>1, <1>9, <2>1
  <2>2. CASE i > k
    <3>1. i - 1 \in k .. Len(s) /\ (i - 1) + 1 = i /\ i - 1 \in Int /\ ~(i < k)
      BY <1>1, <2>2
    <3> QED
      BY <1>11, <3>1
  <2> QED
    BY <1>1, <2>1, <2>2
<1>13. \A i \in 1 .. Len(s) : s[i] # e
  BY <1>1 DEF ToSet
<1>14. IsInjective(r)
  <2> SUFFICES ASSUME NEW i \in 1 .. Len(s) + 1, NEW j \in 1 .. Len(s) + 1, r[i] = r[j] PROVE i = j
    BY <1>8 DEF IsInjective
  <2>1. CASE i = k \/ j = k
    BY <1>10, <1>12, <1>13, <2>1
  <2>2. CASE i # k /\ j # k
    <3>1. PICK x \in 1 .. Len(s) : r[i] = s[x] /\ (i < k => i = x) /\ (i > k => i = x + 1)
      BY <1>12, <2>2
    <3>2. PICK y \in 1 .. Len(s) : r[j] = s[y] /\ (j < k => j = y) /\ (j > k => j = y + 1)
      BY <1>12, <2>2
    <3>3. x = y
      BY <1>1, <3>1, <3>2 DEF IsInjective
    <3> QED
      BY <1>1, <2>2, <3>1, <3>2, <3>3
  <2> QED
    BY <2>1, <2>2
<1>15. ToSet(r) \subseteq ToSet(s) \cup {e}
  BY <1>1, <1>8, <1>10, <1>12 DEF ToSet
<1>16. e \in ToSet(r)
  BY <1>8, <1>10 DEF ToSet
<1>17. ToSet(s) \subseteq ToSet(r)
  <2> SUFFICES ASSUME NEW j \in 1 .. Len(s) PROVE \E i \in 1 .. Len(s) + 1 : r[i] = s[j]
    BY <1>1, <1>8 DEF ToSet
  <2>1. j \in 1 .. k - 1 \/ j \in k .. Len(s)
    BY <1>1
  <2> QED
    BY <1>9, <1>11, <2>1
<1> QED
  BY <1>7, <1>14, <1>15, <1>16, <1>17 DEF r

-----------------------------------------------------------------------------
(* A child is put in, a node is made, a node is removed *)

\* A document whose nodes may be without a parent, or go round in circles.
Shape(d) ==
  /\ DOMAIN d = {"type", "kids", "at", "look", "text", "next", "tokens", "styles"}
  /\ d.next \in Nat
  /\ Page \in Nodes(d) /\ Nodes(d) \subseteq 1 .. d.next - 1
  /\ DOMAIN d.kids = Nodes(d) /\ DOMAIN d.at = Nodes(d) /\ DOMAIN d.look = Nodes(d) /\ DOMAIN d.text = Nodes(d)
  /\ \A n \in Nodes(d) : d.at[n] \in Int
  /\ \A p \in Nodes(d) : d.kids[p] \in Seq(Nodes(d) \ {Page}) /\ IsInjective(d.kids[p])

\* A tree, if every node has one parent, and the parents lead to the page.
LEMMA IsATree ==
  ASSUME NEW e, Shape(e), NEW par,
         \A m \in Nodes(e) \ {Page} : par[m] \in Nodes(e),
         \A m \in Nodes(e) \ {Page} : \A q \in Nodes(e) : m \in ToSet(e.kids[q]) <=> q = par[m],
         \A T \in SUBSET (Nodes(e) \ {Page}) : (\A m \in T : par[m] \in T) => T = {}
  PROVE  IsTree(e) /\ \A m \in Nodes(e) \ {Page} : ParentOf(e, m) = par[m]
<1>1. \A m \in Nodes(e) \ {Page} : ParentOf(e, m) = par[m]
  BY DEF ParentOf
<1>2. \A m \in Nodes(e) \ {Page} : \E p \in Nodes(e) : \A q \in Nodes(e) : m \in ToSet(e.kids[q]) <=> q = p
  <2> TAKE m \in Nodes(e) \ {Page}
  <2> WITNESS par[m] \in Nodes(e)
  <2> QED
    OBVIOUS
<1>3. \A T \in SUBSET (Nodes(e) \ {Page}) : T # {} => \E m \in T : ParentOf(e, m) \notin T
  BY <1>1
<1> QED
  BY <1>1, <1>2, <1>3 DEF IsTree, Shape

\* A tree has the shape, before anything is said of parents.
LEMMA TreeIsShaped == ASSUME NEW d, IsTree(d) PROVE Shape(d)
BY DEF IsTree, Shape

\* Nothing changes but the lists of children.
KidsOnly(d, e) ==
  /\ DOMAIN e = DOMAIN d
  /\ e.type = d.type /\ e.at = d.at /\ e.look = d.look /\ e.text = d.text /\ e.next = d.next
  /\ e.tokens = d.tokens /\ e.styles = d.styles

\* A node that is taken out of all lists of children.
LEMMA Detaching ==
  ASSUME NEW d, Shape(d), NEW n
  PROVE  LET e == Detached(d, n) IN
         /\ KidsOnly(d, e) /\ Shape(e)
         /\ \A q \in Nodes(d) : ToSet(e.kids[q]) = ToSet(d.kids[q]) \ {n}
<1> DEFINE e == Detached(d, n)
<1>1. KidsOnly(d, e) /\ e.kids = [p \in Nodes(d) |-> RemoveFirst(d.kids[p], n)]
  BY DEF Detached, KidsOnly, Shape
<1>2. ASSUME NEW p \in Nodes(d)
      PROVE  /\ e.kids[p] \in Seq(Nodes(d) \ {Page}) /\ IsInjective(e.kids[p])
             /\ ToSet(e.kids[p]) = ToSet(d.kids[p]) \ {n}
  <2>1. d.kids[p] \in Seq(Nodes(d) \ {Page}) /\ IsInjective(d.kids[p])
    BY DEF Shape
  <2>2. e.kids[p] = RemoveFirst(d.kids[p], n)
    BY <1>1
  <2> HIDE DEF e
  <2> QED
    BY <2>1, <2>2, RemovingFirst
<1> HIDE DEF e
<1>3. Shape(e)
  BY <1>1, <1>2 DEF Shape, KidsOnly, Nodes
<1> QED
  BY <1>1, <1>2, <1>3 DEF e

\* insertChild(): the node is in the list of its new parent, and in no other.
LEMMA InsertingChild ==
  ASSUME NEW d, Shape(d), NEW p \in Nodes(d), NEW n \in Nodes(d) \ {Page}, NEW index \in Nat
  PROVE  LET e == InsertChild(d, p, index, n) IN
         /\ KidsOnly(d, e) /\ Shape(e)
         /\ \A m \in Nodes(d) \ {Page}, q \in Nodes(d) :
              m \in ToSet(e.kids[q]) <=> IF m = n THEN q = p ELSE m \in ToSet(d.kids[q])
<1> DEFINE f == Detached(d, n)
           e == InsertChild(d, p, index, n)
           k == IF index > Len(f.kids[p]) THEN Len(f.kids[p]) + 1 ELSE index + 1
<1>1. KidsOnly(d, f) /\ Shape(f) /\ \A q \in Nodes(d) : ToSet(f.kids[q]) = ToSet(d.kids[q]) \ {n}
  BY Detaching
<1>2. Nodes(f) = Nodes(d)
  BY <1>1 DEF KidsOnly, Nodes
<1>3. e = [f EXCEPT !.kids[p] = InsertAt(@, k, n)]
  BY DEF InsertChild
<1> HIDE DEF f, e
<1>4. KidsOnly(d, e) /\ DOMAIN e.kids = Nodes(d) /\ e.kids[p] = InsertAt(f.kids[p], k, n)
      /\ \A q \in Nodes(d) : q # p => e.kids[q] = f.kids[q]
  BY <1>1, <1>2, <1>3 DEF KidsOnly, Shape
<1>5. /\ f.kids[p] \in Seq(Nodes(d) \ {Page}) /\ IsInjective(f.kids[p])
      /\ n \notin ToSet(f.kids[p])
  BY <1>1, <1>2 DEF Shape
<1>6. k \in 1 .. Len(f.kids[p]) + 1
  <2>1. Len(f.kids[p]) \in Nat
    BY <1>5
  <2> QED
    BY <2>1
<1> HIDE DEF k
<1>7. /\ e.kids[p] \in Seq(Nodes(d) \ {Page}) /\ IsInjective(e.kids[p])
      /\ ToSet(e.kids[p]) = ToSet(f.kids[p]) \cup {n}
  BY <1>4, <1>5, <1>6, InsertingAt
<1>8. Shape(e)
  <2>1. \A q \in Nodes(d) : e.kids[q] \in Seq(Nodes(d) \ {Page}) /\ IsInjective(e.kids[q])
    BY <1>1, <1>2, <1>4, <1>7 DEF Shape
  <2>2. Nodes(e) = Nodes(d)
    BY <1>4 DEF KidsOnly, Nodes
  <2> QED
    BY <1>4, <2>1, <2>2 DEF Shape, KidsOnly
<1>9. \A m \in Nodes(d) \ {Page}, q \in Nodes(d) :
        m \in ToSet(e.kids[q]) <=> IF m = n THEN q = p ELSE m \in ToSet(d.kids[q])
  BY <1>1, <1>4, <1>7
<1> QED
  BY <1>4, <1>8, <1>9 DEF e

\* A node becomes the child of one that is not part of it.
LEMMA InsertedInTree ==
  ASSUME NEW d, IsTree(d), NEW p \in Nodes(d), NEW n \in Nodes(d) \ {Page}, n \notin Above(d, p), NEW index \in Nat
  PROVE  LET e == InsertChild(d, p, index, n) IN
         /\ KidsOnly(d, e) /\ IsTree(e) /\ Nodes(e) = Nodes(d)
         /\ \A m \in Nodes(d) \ {Page} : ParentOf(e, m) = IF m = n THEN p ELSE ParentOf(d, m)
<1> DEFINE e == InsertChild(d, p, index, n)
           par == [m \in Nodes(d) \ {Page} |-> IF m = n THEN p ELSE ParentOf(d, m)]
<1>1. /\ KidsOnly(d, e) /\ Shape(e)
      /\ \A m \in Nodes(d) \ {Page}, q \in Nodes(d) :
           m \in ToSet(e.kids[q]) <=> IF m = n THEN q = p ELSE m \in ToSet(d.kids[q])
  BY TreeIsShaped, InsertingChild
<1>2. Nodes(e) = Nodes(d)
  BY <1>1 DEF KidsOnly, Nodes
<1> HIDE DEF e
<1>3. \A m \in Nodes(e) \ {Page} : par[m] \in Nodes(e)
  BY <1>2, OneParent
<1>4. \A m \in Nodes(e) \ {Page} : \A q \in Nodes(e) : m \in ToSet(e.kids[q]) <=> q = par[m]
  BY <1>1, <1>2, OneParent
<1>5. ASSUME NEW T \in SUBSET (Nodes(d) \ {Page}), \A m \in T : par[m] \in T PROVE T = {}
  <2>1. CASE n \notin T
    BY <1>5, <2>1, TreeInduction
  <2>2. CASE n \in T
    <3> DEFINE U == T \cap Above(d, p)
    <3>1. p \in U
      BY <1>5, <2>2, AboveIsClosed
    <3>2. \A m \in U : ParentOf(d, m) \in U
      BY <1>5, AboveIsClosed
    <3>3. U \subseteq Nodes(d) \ {Page}
      OBVIOUS
    <3> HIDE DEF U
    <3> QED
      BY <3>1, <3>2, <3>3, TreeInduction
  <2> QED
    BY <2>1, <2>2
<1> HIDE DEF par
<1>6. IsTree(e) /\ \A m \in Nodes(e) \ {Page} : ParentOf(e, m) = par[m]
  BY <1>1, <1>2, <1>3, <1>4, <1>5, IsATree
<1> QED
  BY <1>1, <1>2, <1>6 DEF e, par

\* A node and its place in the tree stay as they are.
Spared(d, e, m) ==
  /\ m \in Nodes(e) \ {Page} /\ ParentOf(e, m) = ParentOf(d, m)
  /\ e.type[m] = d.type[m] /\ e.look[m] = d.look[m] /\ e.text[m] = d.text[m]

\* A new node is below the page, and every other node is as it was.
LEMMA Making ==
  ASSUME NEW d, IsTree(d), NEW type, NEW text
  PROVE  LET e == Made(d, type, text) IN
         /\ IsTree(e) /\ Nodes(e) = Nodes(d) \cup {d.next} /\ e.next = d.next + 1
         /\ d.next \notin Nodes(d) /\ d.next # Page /\ ParentOf(e, d.next) = Page
         /\ \A m \in Nodes(d) : e.at[m] = d.at[m] /\ e.type[m] = d.type[m]
         /\ \A m \in Nodes(d) \ {Page} : Spared(d, e, m)
<1> DEFINE n == d.next
           b == [d EXCEPT !.type = With(@, n, type), !.kids = With(@, n, <<>>), !.at = With(@, n, 0),
                          !.look = With(@, n, "made"), !.text = With(@, n, text), !.next = n + 1]
           e == Made(d, type, text)
           par == [m \in Nodes(d) \cup {n} |-> IF m = n THEN Page ELSE ParentOf(d, m)]
<1>1. n \in Nat /\ n \notin Nodes(d) /\ n # Page /\ Page \in Nodes(d)
  BY DEF IsTree, Page
<1>2. /\ DOMAIN b = DOMAIN d /\ b.next = n + 1 /\ b.type = With(d.type, n, type) /\ b.kids = With(d.kids, n, <<>>)
      /\ b.at = With(d.at, n, 0) /\ b.look = With(d.look, n, "made") /\ b.text = With(d.text, n, text)
  BY DEF IsTree
<1> HIDE DEF b
<1>3. /\ Nodes(b) = Nodes(d) \cup {n} /\ DOMAIN b.kids = Nodes(b) /\ DOMAIN b.at = Nodes(b)
      /\ DOMAIN b.look = Nodes(b) /\ DOMAIN b.text = Nodes(b)
      /\ b.kids[n] = <<>> /\ b.at[n] = 0
      /\ \A m \in Nodes(d) : /\ b.type[m] = d.type[m] /\ b.kids[m] = d.kids[m] /\ b.at[m] = d.at[m]
                             /\ b.look[m] = d.look[m] /\ b.text[m] = d.text[m]
  BY <1>1, <1>2 DEF With, Nodes, IsTree
<1>4. ASSUME NEW q \in Nodes(b) PROVE b.kids[q] \in Seq(Nodes(b) \ {Page}) /\ IsInjective(b.kids[q])
  <2>1. CASE q = n
    <3>1. <<>> \in Seq(Nodes(b) \ {Page}) /\ DOMAIN <<>> = {}
      OBVIOUS
    <3> QED
      BY <1>3, <2>1, <3>1 DEF IsInjective
  <2>2. CASE q \in Nodes(d)
    <3>1. b.kids[q] \in Seq(Nodes(d) \ {Page}) /\ IsInjective(b.kids[q])
      BY <1>3, <2>2 DEF IsTree
    <3>2. Nodes(d) \ {Page} \subseteq Nodes(b) \ {Page}
      BY <1>3
    <3> QED
      BY <3>1, <3>2, SeqMonotonic
  <2> QED
    BY <1>3, <2>1, <2>2
<1>5. Shape(b)
  <2>1. \A m \in Nodes(b) : b.at[m] \in Int
    BY <1>3 DEF IsTree
  <2>2. Nodes(b) \subseteq 1 .. b.next - 1
    BY <1>1, <1>2, <1>3 DEF IsTree, Page
  <2> QED
    BY <1>1, <1>2, <1>3, <1>4, <2>1, <2>2 DEF Shape, IsTree
<1>6. PICK index \in Nat : e = InsertChild(b, Page, index, n)
  <2>1. Len(b.kids[Page]) \in Nat
    BY <1>1, <1>3, <1>4
  <2> QED
    BY <2>1 DEF Made, AppendChild, b
<1> HIDE DEF e
<1>7. /\ KidsOnly(b, e) /\ Shape(e)
      /\ \A m \in Nodes(b) \ {Page}, q \in Nodes(b) :
           m \in ToSet(e.kids[q]) <=> IF m = n THEN q = Page ELSE m \in ToSet(b.kids[q])
  BY <1>1, <1>3, <1>5, <1>6, InsertingChild
<1>8. Nodes(e) = Nodes(b)
  BY <1>7 DEF KidsOnly, Nodes
<1>9. ASSUME NEW m \in Nodes(e) \ {Page}, NEW q \in Nodes(e) PROVE m \in ToSet(e.kids[q]) <=> q = par[m]
  <2>1. CASE m = n
    BY <1>3, <1>7, <1>8, <2>1
  <2>2. CASE m # n /\ q = n
    <3>1. ToSet(b.kids[n]) = {}
      BY <1>3 DEF ToSet
    <3> QED
      BY <1>1, <1>3, <1>7, <1>8, <2>2, <3>1, OneParent
  <2>3. CASE m # n /\ q # n
    BY <1>3, <1>7, <1>8, <2>3, OneParent
  <2> QED
    BY <2>1, <2>2, <2>3
<1>10. \A m \in Nodes(e) \ {Page} : par[m] \in Nodes(e)
  BY <1>1, <1>3, <1>8, OneParent
<1>11. ASSUME NEW T \in SUBSET (Nodes(e) \ {Page}), \A m \in T : par[m] \in T PROVE T = {}
  <2>1. n \notin T
    BY <1>3, <1>8, <1>11
  <2>2. T \subseteq Nodes(d) \ {Page} /\ \A m \in T : ParentOf(d, m) \in T
    BY <1>3, <1>8, <1>11, <2>1
  <2> QED
    BY <2>2, TreeInduction
<1>12. IsTree(e) /\ \A m \in Nodes(e) \ {Page} : ParentOf(e, m) = par[m]
  <2> HIDE DEF par
  <2> QED
    BY <1>7, <1>9, <1>10, <1>11, IsATree
<1>13. /\ e.next = n + 1
       /\ \A m \in Nodes(d) : /\ e.at[m] = d.at[m] /\ e.type[m] = d.type[m]
                              /\ e.look[m] = d.look[m] /\ e.text[m] = d.text[m]
  BY <1>2, <1>3, <1>7 DEF KidsOnly
<1>14. \A m \in Nodes(d) \ {Page} : Spared(d, e, m)
  BY <1>1, <1>3, <1>8, <1>12, <1>13 DEF Spared
<1>15. ParentOf(e, n) = Page
  BY <1>1, <1>3, <1>8, <1>12
<1> QED
  BY <1>1, <1>3, <1>8, <1>12, <1>13, <1>14, <1>15 DEF e

\* A node goes with all that is below it.
LEMMA Removing ==
  ASSUME NEW d, IsTree(d), NEW n \in Nodes(d) \ {Page}
  PROVE  LET e == Removed(d, n) IN
         /\ IsTree(e) /\ Nodes(e) = Nodes(d) \ Below(d, n) /\ e.next = d.next
         /\ \A m \in Nodes(e) : e.at[m] = d.at[m] /\ e.type[m] = d.type[m]
         /\ \A m \in Nodes(e) \ {Page} : Spared(d, e, m)
<1> DEFINE left == Nodes(d) \ Below(d, n)
           f == Detached(d, n)
           e == Removed(d, n)
           par == [m \in Nodes(d) \ {Page} |-> ParentOf(d, m)]
<1>1. KidsOnly(d, f) /\ Shape(f) /\ \A q \in Nodes(d) : ToSet(f.kids[q]) = ToSet(d.kids[q]) \ {n}
  BY TreeIsShaped, Detaching
<1>2. Nodes(f) = Nodes(d)
  BY <1>1 DEF KidsOnly, Nodes
<1>3. /\ DOMAIN e = DOMAIN d /\ e.next = d.next
      /\ e.type = Restrict(f.type, left) /\ e.kids = Restrict(f.kids, left) /\ e.at = Restrict(f.at, left)
      /\ e.look = Restrict(f.look, left) /\ e.text = Restrict(f.text, left)
  <2> HIDE DEF f, left
  <2>1. e = [f EXCEPT !.type = Restrict(@, left), !.kids = Restrict(@, left), !.at = Restrict(@, left),
                      !.look = Restrict(@, left), !.text = Restrict(@, left)]
    BY DEF Removed, f, left
  <2> QED
    BY <1>1, <2>1 DEF KidsOnly, Shape
<1> HIDE DEF e, f
<1>4. /\ Nodes(e) = left /\ DOMAIN e.kids = left /\ DOMAIN e.at = left /\ DOMAIN e.look = left /\ DOMAIN e.text = left
      /\ \A m \in left : /\ e.type[m] = d.type[m] /\ e.kids[m] = f.kids[m] /\ e.at[m] = d.at[m]
                         /\ e.look[m] = d.look[m] /\ e.text[m] = d.text[m]
  BY <1>1, <1>3 DEF Restrict, Nodes, KidsOnly
<1>5. n \notin left /\ Page \in left
  BY AboveUnfolds, AboveIsClosed DEF Below, IsTree
<1>6. ASSUME NEW m \in left \ {Page} PROVE ParentOf(d, m) \in left
  BY <1>6, OneParent, AboveUnfolds DEF Below
<1>7. ASSUME NEW m \in Nodes(d) \ {n, Page}, ParentOf(d, m) \in left PROVE m \in left
  BY <1>7, AboveUnfolds DEF Below
<1> HIDE DEF left
<1>8. left \subseteq Nodes(d)
  BY DEF left
<1>9. ASSUME NEW q \in left PROVE e.kids[q] \in Seq(left \ {Page}) /\ IsInjective(e.kids[q])
  <2>1. e.kids[q] \in Seq(Nodes(d) \ {Page}) /\ IsInjective(e.kids[q])
    BY <1>1, <1>2, <1>4, <1>8 DEF Shape
  <2>2. ToSet(e.kids[q]) = ToSet(d.kids[q]) \ {n}
    BY <1>1, <1>4, <1>8
  <2>3. \A i \in 1 .. Len(e.kids[q]) : e.kids[q][i] \in left \ {Page}
    <3> TAKE i \in 1 .. Len(e.kids[q])
    <3>1. e.kids[q][i] \in ToSet(e.kids[q]) /\ e.kids[q][i] \in Nodes(d) \ {Page}
      BY <2>1 DEF ToSet
    <3>2. PICK m \in Nodes(d) \ {n, Page} : m = e.kids[q][i] /\ m \in ToSet(d.kids[q])
      BY <2>2, <3>1
    <3>3. ParentOf(d, m) = q
      BY <1>8, <3>2, OneParent
    <3> QED
      BY <1>7, <3>2, <3>3
  <2> QED
    BY <2>1, <2>3
<1>10. Shape(e)
  BY <1>3, <1>4, <1>5, <1>8, <1>9 DEF Shape, IsTree
<1>11. \A m \in left \ {Page} : par[m] \in left
  BY <1>6, <1>8
<1>12. ASSUME NEW m \in left \ {Page}, NEW q \in left PROVE m \in ToSet(e.kids[q]) <=> q = par[m]
  <2>1. m \in Nodes(d) \ {Page} /\ m # n /\ q \in Nodes(d)
    BY <1>5, <1>8
  <2>2. ToSet(e.kids[q]) = ToSet(d.kids[q]) \ {n}
    BY <1>1, <1>4, <1>8
  <2> QED
    BY <2>1, <2>2, OneParent
<1>13. ASSUME NEW T \in SUBSET (left \ {Page}), \A m \in T : par[m] \in T PROVE T = {}
  BY <1>8, <1>13, TreeInduction
<1>14. IsTree(e) /\ \A m \in left \ {Page} : ParentOf(e, m) = par[m]
  <2> HIDE DEF par
  <2> QED
    BY <1>4, <1>10, <1>11, <1>12, <1>13, IsATree
<1>15. \A m \in left \ {Page} : Spared(d, e, m)
  <2> TAKE m \in left \ {Page}
  <2>1. m \in Nodes(e) \ {Page} /\ ParentOf(e, m) = ParentOf(d, m)
    BY <1>4, <1>8, <1>14
  <2> QED
    BY <1>4, <2>1 DEF Spared
<1> QED
  BY <1>3, <1>4, <1>14, <1>15 DEF e, left

\* A node that has no children goes alone.
LEMMA BelowALeaf ==
  ASSUME NEW d, IsTree(d), NEW n \in Nodes(d) \ {Page}, \A m \in Nodes(d) \ {Page} : ParentOf(d, m) # n
  PROVE  Below(d, n) = {n}
<1> DEFINE T == {m \in Nodes(d) : m # n /\ n \in Above(d, m)}
<1>1. \A m \in T : m # Page /\ ParentOf(d, m) \in T
  BY AboveUnfolds, OneParent
<1>2. T = {}
  <2>1. T \subseteq Nodes(d) \ {Page}
    BY <1>1
  <2> HIDE DEF T
  <2> QED
    BY <1>1, <2>1, TreeInduction
<1> QED
  BY <1>2, AboveIsClosed DEF Below

-----------------------------------------------------------------------------
(* What is done step by step *)

\* A set of naturals has a least one.
LEMMA Least ==
  ASSUME NEW T, T \subseteq Nat, T # {}
  PROVE  \E m \in T : \A k \in T : m <= k
<1>1. PICK m \in T : \A k \in T : ~(<<k, m>> \in OpToRel(<, Nat))
  BY WFMin, NatLessThanWellFounded, Zenon
<1>2. \A k \in T : ~(k < m)
  BY <1>1 DEF OpToRel
<1> QED
  BY <1>2

\* From 0 up.
LEMMA UpTo ==
  ASSUME NEW n \in Nat, NEW T, 0 \in T, \A i \in 1 .. n : i - 1 \in T => i \in T
  PROVE  \A i \in 0 .. n : i \in T
<1> DEFINE bad == {i \in 0 .. n : i \notin T}
<1> SUFFICES ASSUME bad # {} PROVE FALSE
  OBVIOUS
<1>1. PICK i \in bad : \A j \in bad : i <= j
  <2>1. bad \subseteq Nat
    OBVIOUS
  <2> HIDE DEF bad
  <2> QED
    BY <2>1, Least
<1>2. i \in 1 .. n /\ i - 1 \in 0 .. n /\ ~(i <= i - 1)
  OBVIOUS
<1> QED
  BY <1>1, <1>2

\* One step of each of the folds: how tells them apart.
Stepped(how, x, y) ==
  CASE how.fold = "gathered" -> Reparented(x, how.p, how.place, y)
    [] how.fold = "reordered" -> InsertChild(x, how.p, y - 1, how.nodes[y])
    [] how.fold = "items" -> OneMore(x, how.op, y, how.before)
    [] how.fold = "tidied" -> IF y \in Nodes(x) THEN Removed(x, y) ELSE x

\* The recursive function of a fold, for the sets of places up to n.
Unrolled(how, base, seq, n, g) ==
  g = [s \in SUBSET (1 .. n) |-> IF s = {} THEN base ELSE Stepped(how, g[s \ {Max(s)}], seq[Max(s)])]

\* The fold starts at the last place.
LEMMA GreatestPlace ==
  ASSUME NEW k \in Nat, NEW s \in SUBSET (1 .. k + 1), k + 1 \in s
  PROVE  Max(s) = k + 1
<1>1. \A x \in s : k + 1 >= x
  OBVIOUS
<1>2. \A x \in s : (\A y \in s : x >= y) => x = k + 1
  OBVIOUS
<1> QED
  BY <1>1, <1>2 DEF Max

\* The recursive function of a fold is there, for the places up to any n.
LEMMA FoldExists ==
  ASSUME NEW how, NEW base, NEW seq, NEW n \in Nat
  PROVE  \E g : Unrolled(how, base, seq, n, g)
<1> DEFINE T == {k \in 0 .. n : \E g : Unrolled(how, base, seq, k, g)}
<1>1. 0 \in T
  <2> DEFINE g == [s \in SUBSET (1 .. 0) |-> base]
  <2>1. \A s \in SUBSET (1 .. 0) : s = {}
    OBVIOUS
  <2>2. Unrolled(how, base, seq, 0, g)
    BY <2>1 DEF Unrolled
  <2> QED
    BY <2>2
<1>2. ASSUME NEW k \in 0 .. n, k + 1 <= n, NEW g, Unrolled(how, base, seq, k, g)
      PROVE  \E h : Unrolled(how, base, seq, k + 1, h)
  <2> DEFINE h == [s \in SUBSET (1 .. k + 1) |->
                     IF k + 1 \in s THEN Stepped(how, g[s \ {k + 1}], seq[k + 1]) ELSE g[s]]
  <2>1. ASSUME NEW s \in SUBSET (1 .. k + 1)
        PROVE  h[s] = IF s = {} THEN base ELSE Stepped(how, h[s \ {Max(s)}], seq[Max(s)])
    <3>1. CASE k + 1 \in s
      <4>1. Max(s) = k + 1 /\ s # {} /\ s \ {k + 1} \in SUBSET (1 .. k + 1) /\ k + 1 \notin s \ {k + 1}
        BY <3>1, GreatestPlace
      <4>2. h[s \ {k + 1}] = g[s \ {k + 1}]
        BY <4>1
      <4>3. h[s] = Stepped(how, g[s \ {k + 1}], seq[k + 1])
        BY <3>1
      <4> HIDE DEF h
      <4> QED
        BY <4>1, <4>2, <4>3
    <3>2. CASE k + 1 \notin s
      <4>1. s \in SUBSET (1 .. k) /\ s \ {Max(s)} \in SUBSET (1 .. k + 1) /\ k + 1 \notin s \ {Max(s)}
        <5>1. \A x \in 1 .. k + 1 : x # k + 1 => x \in 1 .. k
          OBVIOUS
        <5> QED
          BY <3>2, <5>1
      <4>2. h[s] = g[s] /\ h[s \ {Max(s)}] = g[s \ {Max(s)}]
        BY <3>2, <4>1
      <4>3. g[s] = IF s = {} THEN base ELSE Stepped(how, g[s \ {Max(s)}], seq[Max(s)])
        BY <1>2, <4>1 DEF Unrolled
      <4> HIDE DEF h
      <4> QED
        BY <4>2, <4>3
    <3> QED
      BY <3>1, <3>2
  <2>2. Unrolled(how, base, seq, k + 1, h)
    BY <2>1 DEF Unrolled
  <2> QED
    BY <2>2
<1>3. \A i \in 1 .. n : i - 1 \in T => i \in T
  <2> SUFFICES ASSUME NEW i \in 1 .. n, i - 1 \in T PROVE i \in T
    OBVIOUS
  <2>1. i - 1 \in 0 .. n /\ (i - 1) + 1 = i /\ (i - 1) + 1 <= n
    OBVIOUS
  <2>2. PICK g : Unrolled(how, base, seq, i - 1, g)
    OBVIOUS
  <2>3. \E h : Unrolled(how, base, seq, (i - 1) + 1, h)
    BY <1>2, <2>1, <2>2
  <2> QED
    BY <2>1, <2>3
<1>4. n \in T
  <2> HIDE DEF T
  <2> QED
    BY <1>1, <1>3, UpTo
<1> QED
  BY <1>4

\* The stages of a fold, one after the other.
Staged(how, base, seq, n, last, h) ==
  h[0] = base /\ h[n] = last /\ \A i \in 1 .. n : h[i] = Stepped(how, h[i - 1], seq[i])

\* What a fold computes is the last of n stages.
LEMMA FoldStages ==
  ASSUME NEW how, NEW base, NEW seq, NEW n \in Nat, NEW g, Unrolled(how, base, seq, n, g)
  PROVE  \E h : Staged(how, base, seq, n, g[1 .. n], h)
<1> DEFINE h == [i \in 0 .. n |-> g[1 .. i]]
<1>1. h[0] = base
  <2>1. 1 .. 0 = {} /\ {} \in SUBSET (1 .. n)
    OBVIOUS
  <2>2. g[{}] = base
    BY <2>1 DEF Unrolled
  <2> QED
    BY <2>1, <2>2
<1>2. ASSUME NEW i \in 1 .. n PROVE h[i] = Stepped(how, h[i - 1], seq[i])
  <2>1. i - 1 \in Nat /\ (i - 1) + 1 = i /\ 1 .. i \in SUBSET (1 .. (i - 1) + 1) /\ i \in 1 .. i /\ i - 1 \in 0 .. n
    OBVIOUS
  <2>2. Max(1 .. i) = i
    BY <2>1, GreatestPlace
  <2>3. (1 .. i) \ {i} = 1 .. i - 1 /\ 1 .. i # {} /\ 1 .. i \in SUBSET (1 .. n)
    <3>1. i \in 1 .. n
      OBVIOUS
    <3>2. \A x \in 1 .. i : x # i => x \in 1 .. i - 1
      BY <3>1
    <3>3. \A x \in 1 .. i - 1 : x \in 1 .. i /\ x # i
      BY <3>1
    <3>4. \A x \in 1 .. i : x \in 1 .. n
      BY <3>1
    <3> QED
      BY <2>1, <3>2, <3>3, <3>4
  <2>4. g[1 .. i] = Stepped(how, g[1 .. i - 1], seq[i])
    BY <2>2, <2>3 DEF Unrolled
  <2> QED
    BY <2>1, <2>4
<1>3. h[n] = g[1 .. n]
  OBVIOUS
<1>4. Staged(how, base, seq, n, g[1 .. n], h)
  BY <1>1, <1>2, <1>3 DEF Staged
<1> QED
  BY <1>4

\* The stages of Gathered().
Gathers(h, d, p, place, nodes, n) ==
  /\ h[0] = d /\ h[n] = Gathered(d, p, place, nodes)
  /\ \A i \in 1 .. n : h[i] = Reparented(h[i - 1], p, place, nodes[i])

LEMMA GatheredStages ==
  ASSUME NEW d, NEW p, NEW place, NEW nodes, NEW n \in Nat, DOMAIN nodes = 1 .. n
  PROVE  \E h : Gathers(h, d, p, place, nodes, n)
<1> DEFINE how == [fold |-> "gathered", p |-> p, place |-> place]
           U(g) == g = [s \in SUBSET DOMAIN nodes |->
                          IF s = {} THEN d ELSE Reparented(g[s \ {Max(s)}], p, place, nodes[Max(s)])]
           g == CHOOSE f : U(f)
<1>1. \A x, y : Stepped(how, x, y) = Reparented(x, p, place, y)
  BY DEF Stepped
<1> HIDE DEF how
<1>2. \A f : Unrolled(how, d, nodes, n, f) <=> U(f)
  BY <1>1 DEF Unrolled
<1>3. Unrolled(how, d, nodes, n, g)
  <2> HIDE DEF U
  <2> QED
    BY <1>2, FoldExists
<1>4. Gathered(d, p, place, nodes) = g[DOMAIN nodes]
  BY DEF Gathered, FoldLeft, MapThenFoldSet
<1> HIDE DEF g, U
<1>5. PICK h : Staged(how, d, nodes, n, g[1 .. n], h)
  BY <1>3, FoldStages
<1>6. Gathers(h, d, p, place, nodes, n)
  BY <1>1, <1>4, <1>5 DEF Staged, Gathers
<1> QED
  BY <1>6

\* The stages of Reordered().
Reorders(h, d, p, nodes, n) ==
  /\ h[0] = d /\ h[n] = Reordered(d, p, nodes)
  /\ \A i \in 1 .. n : h[i] = InsertChild(h[i - 1], p, i - 1, nodes[i])

LEMMA ReorderedStages ==
  ASSUME NEW d, NEW p, NEW nodes, NEW n \in Nat, DOMAIN nodes = 1 .. n
  PROVE  \E h : Reorders(h, d, p, nodes, n)
<1> DEFINE how == [fold |-> "reordered", p |-> p, nodes |-> nodes]
           places == [i \in DOMAIN nodes |-> i]
           Inserted(x, y) == InsertChild(x, p, places[y] - 1, nodes[places[y]])
           U(g) == g = [s \in SUBSET DOMAIN places |->
                          IF s = {} THEN d ELSE Inserted(g[s \ {Max(s)}], Max(s))]
           g == CHOOSE f : U(f)
<1>1. \A x, y : Stepped(how, x, y) = InsertChild(x, p, y - 1, nodes[y])
  BY DEF Stepped
<1> HIDE DEF how
<1>2. DOMAIN places = 1 .. n /\ \A i \in 1 .. n : places[i] = i
  OBVIOUS
<1>3. Reordered(d, p, nodes) = g[DOMAIN places]
  BY DEF Reordered, FoldLeftDomain, FoldLeft, MapThenFoldSet
<1> HIDE DEF places
<1>4. ASSUME NEW f PROVE Unrolled(how, d, places, n, f) <=> U(f)
  <2>1. \A x, y : Stepped(how, x, places[y]) = Inserted(x, y)
    BY <1>1
  <2>2. SUBSET DOMAIN places = SUBSET (1 .. n)
    BY <1>2
  <2> HIDE DEF Inserted
  <2> QED
    BY <2>1, <2>2 DEF Unrolled
<1>5. Unrolled(how, d, places, n, g)
  <2> HIDE DEF U
  <2> QED
    BY <1>4, FoldExists
<1> HIDE DEF g, U
<1>6. PICK h : Staged(how, d, places, n, g[1 .. n], h)
  BY <1>5, FoldStages
<1>7. Reorders(h, d, p, nodes, n)
  BY <1>1, <1>2, <1>3, <1>6 DEF Staged, Reorders
<1> QED
  BY <1>7

\* The stages of ItemsDone().
DoesItems(h, d, op, items, n) ==
  /\ h[0] = Outcome(d, <<>>, TRUE) /\ h[n] = ItemsDone(d, op, items)
  /\ \A i \in 1 .. n : h[i] = OneMore(h[i - 1], op, items[i], d)

LEMMA ItemsStages ==
  ASSUME NEW d, NEW op, NEW items, NEW n \in Nat, DOMAIN items = 1 .. n
  PROVE  \E h : DoesItems(h, d, op, items, n)
<1> DEFINE how == [fold |-> "items", op |-> op, before |-> d]
           base == Outcome(d, <<>>, TRUE)
           U(g) == g = [s \in SUBSET DOMAIN items |->
                          IF s = {} THEN base ELSE OneMore(g[s \ {Max(s)}], op, items[Max(s)], d)]
           g == CHOOSE f : U(f)
<1>1. \A x, y : Stepped(how, x, y) = OneMore(x, op, y, d)
  BY DEF Stepped
<1> HIDE DEF how
<1>2. ItemsDone(d, op, items) = g[DOMAIN items]
  BY DEF ItemsDone, FoldLeft, MapThenFoldSet
<1> HIDE DEF base
<1>3. \A f : Unrolled(how, base, items, n, f) <=> U(f)
  BY <1>1 DEF Unrolled
<1>4. Unrolled(how, base, items, n, g)
  <2> HIDE DEF U
  <2> QED
    BY <1>3, FoldExists
<1> HIDE DEF g, U
<1>5. PICK h : Staged(how, base, items, n, g[1 .. n], h)
  BY <1>4, FoldStages
<1>6. DoesItems(h, d, op, items, n)
  BY <1>1, <1>2, <1>5 DEF Staged, DoesItems, base
<1> QED
  BY <1>6

-----------------------------------------------------------------------------

\* The same tree, with other fields.
LEMMA SameTree ==
  ASSUME NEW d, IsTree(d), NEW e, DOMAIN e = DOMAIN d, e.type = d.type, e.kids = d.kids, e.next = d.next,
         DOMAIN e.at = Nodes(d), DOMAIN e.look = Nodes(d), DOMAIN e.text = Nodes(d),
         \A m \in Nodes(d) : e.at[m] \in Int
  PROVE  IsTree(e) /\ Nodes(e) = Nodes(d) /\ \A m : ParentOf(e, m) = ParentOf(d, m)
<1>1. Nodes(e) = Nodes(d)
  BY DEF Nodes
<1>2. \A m : ParentOf(e, m) = ParentOf(d, m)
  BY <1>1 DEF ParentOf
<1>3. Shape(e)
  BY <1>1 DEF IsTree, Shape
<1> DEFINE par == [m \in Nodes(d) \ {Page} |-> ParentOf(d, m)]
<1>4. \A m \in Nodes(e) \ {Page} : par[m] \in Nodes(e) /\ \A q \in Nodes(e) : m \in ToSet(e.kids[q]) <=> q = par[m]
  BY <1>1, OneParent
<1>5. \A T \in SUBSET (Nodes(e) \ {Page}) : (\A m \in T : par[m] \in T) => T = {}
  BY <1>1, TreeInduction
<1> HIDE DEF par
<1> QED
  BY <1>1, <1>2, <1>3, <1>4, <1>5, IsATree

\* What is there later was there before, and of the same type, or is new.
Later(d, e) ==
  /\ d.next <= e.next
  /\ \A m \in Nodes(e) : (m \in Nodes(d) /\ e.type[m] = d.type[m]) \/ m >= d.next

\* What is there is seen where it was, or what is in it, if it is a group.
Still(d, e) == \A m \in Nodes(d) \cap Nodes(e) : d.type[m] # "GROUP" => Absolute(e, m) = Absolute(d, m)

\* Only the nodes of M are touched, and the children of those of K.
Spares(d, e, M, K) == \A m \in Nodes(d) \ {Page} : m \notin M /\ ParentOf(d, m) \notin K => Spared(d, e, m)

\* One change after another.
LEMMA Transitive ==
  ASSUME NEW d, IsTree(d), NEW e, IsTree(e), NEW f, IsTree(f), Later(d, e), Later(e, f)
  PROVE  /\ Later(d, f)
         /\ Still(d, e) /\ Still(e, f) => Still(d, f)
         /\ \A M, K : Spares(d, e, M, K) /\ Spares(e, f, M, K) => Spares(d, f, M, K)
<1>1. d.next \in Nat /\ e.next \in Nat /\ f.next \in Nat
  BY DEF IsTree
<1>2. Nodes(d) \subseteq 1 .. d.next - 1 /\ Nodes(e) \subseteq 1 .. e.next - 1 /\ Nodes(f) \subseteq 1 .. f.next - 1
  BY DEF IsTree
<1>3. Later(d, f)
  BY <1>1, <1>2 DEF Later
<1>4. ASSUME NEW m \in Nodes(d) \cap Nodes(f) PROVE m \in Nodes(e) /\ e.type[m] = d.type[m]
  <2>1. ~(m >= e.next) /\ ~(m >= d.next)
    BY <1>1, <1>2 DEF Later
  <2> QED
    BY <2>1 DEF Later
<1>5. Still(d, e) /\ Still(e, f) => Still(d, f)
  BY <1>4 DEF Still
<1>6. ASSUME NEW M, NEW K, Spares(d, e, M, K), Spares(e, f, M, K) PROVE Spares(d, f, M, K)
  BY <1>6 DEF Spares, Spared
<1> QED
  BY <1>3, <1>5, <1>6

\* No change at all.
LEMMA Reflexive ==
  ASSUME NEW d, IsTree(d)
  PROVE  Later(d, d) /\ Still(d, d) /\ \A M, K : Spares(d, d, M, K)
<1>1. d.next \in Nat
  BY DEF IsTree
<1> QED
  BY <1>1 DEF Later, Still, Spares, Spared

\* The groups from a group down to the nodes that are in it.
Loose(d, n) == {m \in Below(d, n) : \A k \in Above(d, m) \cap Below(d, n) : d.type[k] = "GROUP"}

\* A node with what is below it: it carries itself, or, if it is a group, the nodes
\* of which the parent is such a group, unless they are groups, too.
LEMMA Carrying ==
  ASSUME NEW d, IsTree(d), NEW n \in Nodes(d) \ {Page}
  PROVE  /\ Page \notin Carried(d, n) \cup Loose(d, n)
         /\ Carried(d, n) \cup Loose(d, n) \subseteq Below(d, n)
         /\ n \in Loose(d, n) <=> d.type[n] = "GROUP"
         /\ n \in Carried(d, n) <=> d.type[n] # "GROUP"
         /\ \A m \in Nodes(d) \ {n, Page} :
              /\ m \in Below(d, n) <=> ParentOf(d, m) \in Below(d, n)
              /\ m \in Loose(d, n) <=> d.type[m] = "GROUP" /\ ParentOf(d, m) \in Loose(d, n)
              /\ m \in Carried(d, n) <=> d.type[m] # "GROUP" /\ ParentOf(d, m) \in Loose(d, n)
         /\ \A m \in Loose(d, n) : d.type[m] = "GROUP"
<1> DEFINE I(m) == Above(d, m) \cap Below(d, n)
<1>1. Page \notin Below(d, n) /\ n \in Below(d, n)
  BY AboveUnfolds, AboveIsClosed DEF Below, IsTree
<1>2. I(n) = {n}
  <2>1. ASSUME NEW k \in I(n), k # n PROVE FALSE
    <3>1. ParentOf(d, n) \in Nodes(d) /\ k \in Above(d, ParentOf(d, n)) /\ n \in Above(d, k)
      BY <2>1, AboveUnfolds, OneParent DEF Below
    <3>2. n \in Above(d, ParentOf(d, n))
      BY <3>1, AboveIsTransitive
    <3> QED
      BY <3>2, NotAboveItself
  <2> QED
    BY <1>1, <2>1, AboveIsClosed
<1>3. ASSUME NEW m \in Nodes(d) \ {n, Page} PROVE m \in Below(d, n) <=> ParentOf(d, m) \in Below(d, n)
  BY AboveUnfolds, OneParent DEF Below
<1>4. ASSUME NEW m \in Nodes(d) \ {n, Page}, m \in Below(d, n)
      PROVE  I(m) = {m} \cup I(ParentOf(d, m)) /\ m \notin I(ParentOf(d, m))
  BY <1>4, AboveUnfolds, NotAboveItself
<1>5. ASSUME NEW m \in Below(d, n) PROVE m \in I(m)
  BY AboveIsClosed DEF Below
<1>6. /\ \A m : m \in Loose(d, n) <=> m \in Below(d, n) /\ \A k \in I(m) : d.type[k] = "GROUP"
      /\ \A m : m \in Carried(d, n) <=> /\ m \in Below(d, n) /\ d.type[m] # "GROUP"
                                        /\ \A k \in I(m) \ {m} : d.type[k] = "GROUP"
  BY DEF Loose, Carried
<1> HIDE DEF I
<1> QED
  BY <1>1, <1>2, <1>3, <1>4, <1>5, <1>6

\* A node that moves without being seen to move: what is inside it is not seen to move either.
LEMMA Reparenting ==
  ASSUME NEW d, IsTree(d), NEW p \in Nodes(d), NEW n \in Nodes(d) \ {Page}, n \notin Above(d, p), NEW place \in Nat
  PROVE  LET e == Reparented(d, p, place, n) IN
         /\ IsTree(e) /\ Nodes(e) = Nodes(d) /\ e.next = d.next
         /\ \A m \in Nodes(d) \ {Page} : ParentOf(e, m) = IF m = n THEN p ELSE ParentOf(d, m)
         /\ Still(d, e) /\ Spares(d, e, {n}, {})
         /\ DOMAIN e = DOMAIN d /\ e.type = d.type
<1> DEFINE f == InsertChild(d, p, place, n)
           e == Reparented(d, p, place, n)
           C == Carried(d, n)
           x == Absolute(d, ParentOf(d, n)) - Absolute(d, p)
<1>1. /\ KidsOnly(d, f) /\ IsTree(f) /\ Nodes(f) = Nodes(d)
      /\ \A m \in Nodes(d) \ {Page} : ParentOf(f, m) = IF m = n THEN p ELSE ParentOf(d, m)
  BY InsertedInTree
<1>2. e = Shifted(f, C, x)
  BY DEF Reparented
<1>3. x \in Int
  BY AbsoluteUnfolds, OneParent
<1> HIDE DEF f, e, x, C
<1>4. /\ DOMAIN e = DOMAIN f /\ e.type = f.type /\ e.kids = f.kids /\ e.next = f.next /\ e.look = f.look
      /\ e.text = f.text /\ e.at = [m \in DOMAIN f.at |-> f.at[m] + (IF m \in C THEN x ELSE 0)]
  BY <1>1, <1>2 DEF IsTree, Shifted
<1>5. DOMAIN f.at = Nodes(f) /\ DOMAIN f.look = Nodes(f) /\ DOMAIN f.text = Nodes(f) /\ f.at = d.at
  BY <1>1 DEF IsTree, KidsOnly
<1>6. /\ DOMAIN e.at = Nodes(f)
      /\ \A m \in Nodes(f) : d.at[m] \in Int /\ e.at[m] = IF m \in C THEN d.at[m] + x ELSE d.at[m]
  <2>1. \A m \in Nodes(f) : d.at[m] \in Int
    BY <1>1 DEF IsTree
  <2>2. DOMAIN e.at = Nodes(f) /\ \A m \in Nodes(f) : e.at[m] = d.at[m] + (IF m \in C THEN x ELSE 0)
    BY <1>4, <1>5
  <2> QED
    BY <1>3, <2>1, <2>2
<1>7. \A m \in Nodes(f) : e.at[m] \in Int
  BY <1>3, <1>6
<1>8. IsTree(e) /\ Nodes(e) = Nodes(f) /\ \A m : ParentOf(e, m) = ParentOf(f, m)
  BY <1>1, <1>4, <1>5, <1>6, <1>7, SameTree
<1>9. ASSUME NEW m \in Nodes(d)
      PROVE  Absolute(e, m) = IF m \in Loose(d, n) THEN Absolute(d, m) - x ELSE Absolute(d, m)
  <2> DEFINE T == {k \in Nodes(d) : Absolute(e, k) # IF k \in Loose(d, n) THEN Absolute(d, k) - x ELSE Absolute(d, k)}
  <2>1. Page \notin T
    <3>1. Page \in Nodes(d) /\ Page \notin C /\ Page \notin Loose(d, n)
      BY Carrying DEF C, IsTree
    <3> QED
      BY <1>1, <1>6, <1>8, <3>1, AbsoluteUnfolds
  <2>2. ASSUME NEW k \in T, ParentOf(e, k) \notin T PROVE FALSE
    <3>1. k \in Nodes(d) \ {Page} /\ ParentOf(e, k) \in Nodes(d) /\ ParentOf(d, k) \in Nodes(d)
      BY <1>1, <1>8, <2>1, OneParent
    <3>2. /\ Absolute(e, k) = e.at[k] + Absolute(e, ParentOf(e, k))
          /\ Absolute(d, k) = d.at[k] + Absolute(d, ParentOf(d, k))
      BY <1>1, <1>8, <3>1, AbsoluteUnfolds
    <3>3. Absolute(d, ParentOf(d, k)) \in Int /\ Absolute(d, p) \in Int /\ Absolute(d, ParentOf(d, n)) \in Int
      BY <3>1, AbsoluteUnfolds, OneParent
    <3>4. CASE k = n
      <4>1. ParentOf(e, k) = p /\ p \notin Loose(d, n)
        BY <1>1, <1>8, <3>1, <3>4, Carrying DEF Below
      <4>2. Absolute(e, k) = e.at[k] + Absolute(d, p)
        BY <2>2, <3>1, <3>2, <4>1
      <4>3. k \in Loose(d, n) <=> k \notin C
        BY <3>4, Carrying DEF C
      <4> QED
        BY <1>1, <1>3, <1>6, <3>1, <3>2, <3>3, <3>4, <4>2, <4>3 DEF x
    <3>5. CASE k # n
      <4>1. ParentOf(e, k) = ParentOf(d, k)
        BY <1>1, <1>8, <3>1, <3>5
      <4>2. k \in Loose(d, n) \/ k \in C <=> ParentOf(d, k) \in Loose(d, n)
        BY <3>1, <3>5, Carrying DEF C
      <4>3. ~(k \in Loose(d, n) /\ k \in C)
        BY <3>1, <3>5, Carrying DEF C
      <4>4. Absolute(e, ParentOf(d, k)) =
              IF ParentOf(d, k) \in Loose(d, n) THEN Absolute(d, ParentOf(d, k)) - x ELSE Absolute(d, ParentOf(d, k))
        BY <2>2, <3>1, <4>1
      <4> QED
        BY <1>1, <1>3, <1>6, <3>1, <3>2, <3>3, <4>1, <4>2, <4>3, <4>4
    <3> QED
      BY <3>4, <3>5
  <2>3. T = {}
    <3>1. T \subseteq Nodes(e) \ {Page}
      BY <1>1, <1>8, <2>1
    <3> HIDE DEF T
    <3> QED
      BY <1>8, <2>2, <3>1, TreeInduction
  <2> QED
    BY <2>3
<1>10. Still(d, e)
  BY <1>9, Carrying DEF Still
<1>11. Spares(d, e, {n}, {})
  BY <1>1, <1>4, <1>8 DEF Spares, Spared, KidsOnly
<1> QED
  BY <1>1, <1>4, <1>8, <1>10, <1>11 DEF e, KidsOnly

-----------------------------------------------------------------------------
(* Nodes that move without being seen to move *)

\* The nodes of R have become children of p, and nothing else has changed.
Moved(d, e, p, R) ==
  /\ IsTree(e) /\ Nodes(e) = Nodes(d) /\ e.next = d.next
  /\ DOMAIN e = DOMAIN d /\ e.type = d.type
  /\ \A m \in Nodes(d) \ {Page} : ParentOf(e, m) = IF m \in R THEN p ELSE ParentOf(d, m)
  /\ Still(d, e) /\ Spares(d, e, R, {})

\* When no node above p moves, nothing new comes to be above it.
LEMMA AboveUnmoved ==
  ASSUME NEW d, IsTree(d), NEW e, IsTree(e), NEW p \in Nodes(d), Above(d, p) \subseteq Nodes(e),
         \A m \in Above(d, p) \ {Page} : ParentOf(e, m) = ParentOf(d, m)
  PROVE  Above(e, p) \subseteq Above(d, p)
<1>1. p \in Above(d, p) /\ \A m \in Above(d, p) \ {Page} : ParentOf(e, m) \in Above(d, p)
  BY AboveIsClosed
<1> QED
  BY <1>1, AboveWithin

\* One more node moves to p.
LEMMA GatheringOne ==
  ASSUME NEW d, IsTree(d), NEW p \in Nodes(d), NEW R, R \cap Above(d, p) = {}, NEW f, Moved(d, f, p, R),
         NEW n \in Nodes(d) \ {Page}, n \notin Above(d, p), NEW place \in Nat
  PROVE  Moved(d, Reparented(f, p, place, n), p, R \cup {n})
<1> DEFINE e == Reparented(f, p, place, n)
<1>1. Above(d, p) \subseteq Nodes(f) /\ \A m \in Above(d, p) \ {Page} : ParentOf(f, m) = ParentOf(d, m)
  BY AboveUnfolds DEF Moved
<1>2. n \notin Above(f, p)
  BY <1>1, AboveUnmoved DEF Moved
<1>3. /\ IsTree(e) /\ Nodes(e) = Nodes(d) /\ e.next = d.next
      /\ \A m \in Nodes(d) \ {Page} : ParentOf(e, m) = IF m = n THEN p ELSE ParentOf(f, m)
      /\ Still(f, e) /\ Spares(f, e, {n}, {})
      /\ DOMAIN e = DOMAIN d /\ e.type = d.type
  BY <1>2, Reparenting DEF Moved
<1> HIDE DEF e
<1>4. Still(d, e)
  BY <1>3 DEF Moved, Still
<1>5. Spares(d, e, R \cup {n}, {})
  <2> SUFFICES ASSUME NEW m \in Nodes(d) \ {Page}, m \notin R, m # n PROVE Spared(d, e, m)
    BY DEF Spares
  <2>1. Spared(d, f, m)
    BY DEF Moved, Spares
  <2>2. Spared(f, e, m)
    BY <1>3, <2>1 DEF Spares, Spared
  <2> QED
    BY <2>1, <2>2 DEF Spared
<1> QED
  BY <1>3, <1>4, <1>5 DEF Moved, e

\* Nodes that are not above p move to p, one after another.
LEMMA Gathering ==
  ASSUME NEW d, IsTree(d), NEW p \in Nodes(d), NEW nodes \in Seq(Nodes(d) \ {Page}),
         ToSet(nodes) \cap Above(d, p) = {}, NEW place \in Nat
  PROVE  Moved(d, Gathered(d, p, place, nodes), p, ToSet(nodes))
<1> DEFINE n == Len(nodes)
           R(i) == {nodes[j] : j \in 1 .. i}
<1>1. n \in Nat /\ DOMAIN nodes = 1 .. n /\ \A i \in 1 .. n : nodes[i] \in Nodes(d) \ {Page}
  BY LenProperties
<1>2. PICK h : Gathers(h, d, p, place, nodes, n)
  BY <1>1, GatheredStages
<1>3. /\ h[0] = d /\ h[n] = Gathered(d, p, place, nodes)
      /\ \A i \in 1 .. n : h[i] = Reparented(h[i - 1], p, place, nodes[i])
  BY <1>2 DEF Gathers
<1> DEFINE T == {i \in 0 .. n : Moved(d, h[i], p, R(i))}
<1>4. 0 \in T
  <2>1. R(0) = {}
    OBVIOUS
  <2>2. Moved(d, d, p, {})
    BY Reflexive DEF Moved
  <2>3. Moved(d, h[0], p, R(0))
    BY <1>3, <2>1, <2>2
  <2> HIDE DEF R, n
  <2> QED
    BY <1>1, <2>3
<1>5. ASSUME NEW i \in 1 .. n, i - 1 \in T PROVE i \in T
  <2>1. R(i - 1) \cup {nodes[i]} = R(i)
    <3>1. \A j \in 1 .. i : j = i \/ j \in 1 .. i - 1
      BY <1>1
    <3>2. \A j \in 1 .. i - 1 : j \in 1 .. i
      BY <1>1
    <3>3. i \in 1 .. i
      BY <1>1
    <3> QED
      BY <3>1, <3>2, <3>3
  <2>2. R(i) \subseteq ToSet(nodes)
    BY <1>1 DEF ToSet
  <2>3. Moved(d, h[i - 1], p, R(i - 1))
    BY <1>5
  <2>4. nodes[i] \in R(i)
    BY <2>1
  <2> HIDE DEF R, n
  <2>5. R(i - 1) \cap Above(d, p) = {} /\ nodes[i] \notin Above(d, p) /\ nodes[i] \in Nodes(d) \ {Page}
    BY <1>1, <2>1, <2>2, <2>4
  <2>6. Moved(d, Reparented(h[i - 1], p, place, nodes[i]), p, R(i))
    BY <2>1, <2>3, <2>5, GatheringOne
  <2> QED
    BY <1>1, <1>3, <2>6
<1>6. n \in T
  <2> HIDE DEF T, n
  <2>1. \A i \in 0 .. n : i \in T
    BY <1>1, <1>4, <1>5, UpTo
  <2> QED
    BY <1>1, <2>1
<1>7. R(n) = ToSet(nodes)
  BY <1>1 DEF ToSet
<1> QED
  BY <1>3, <1>6, <1>7

\* Children that change their order: none gets another parent.
LEMMA Reordering ==
  ASSUME NEW d, IsTree(d), NEW p \in Nodes(d), NEW n \in Nat, NEW nodes, DOMAIN nodes = 1 .. n,
         ToSet(nodes) \subseteq ToSet(d.kids[p])
  PROVE  Moved(d, Reordered(d, p, nodes), p, {})
<1>1. ASSUME NEW i \in 1 .. n PROVE nodes[i] \in Nodes(d) \ {Page} /\ ParentOf(d, nodes[i]) = p
  <2>1. d.kids[p] \in Seq(Nodes(d) \ {Page})
    BY DEF IsTree
  <2>2. nodes[i] \in ToSet(d.kids[p])
    BY DEF ToSet
  <2>3. ToSet(d.kids[p]) \subseteq Nodes(d) \ {Page}
    BY <2>1 DEF ToSet
  <2> QED
    BY <2>2, <2>3, OneParent
<1>2. PICK h : Reorders(h, d, p, nodes, n)
  BY ReorderedStages
<1>3. /\ h[0] = d /\ h[n] = Reordered(d, p, nodes)
      /\ \A i \in 1 .. n : h[i] = InsertChild(h[i - 1], p, i - 1, nodes[i])
  BY <1>2 DEF Reorders
<1> DEFINE Same(f) == Moved(d, f, p, {}) /\ KidsOnly(d, f)
           T == {i \in 0 .. n : Same(h[i])}
<1>4. 0 \in T
  BY <1>3, Reflexive DEF Moved, KidsOnly
<1>5. ASSUME NEW f, Same(f), NEW m \in Nodes(d) \ {Page}, ParentOf(d, m) = p, NEW index \in Nat
      PROVE  Same(InsertChild(f, p, index, m))
  <2> DEFINE e == InsertChild(f, p, index, m)
  <2>1. m \notin Above(f, p)
    BY <1>5, NotAboveItself DEF Moved
  <2>2. /\ KidsOnly(f, e) /\ IsTree(e) /\ Nodes(e) = Nodes(f)
        /\ \A k \in Nodes(f) \ {Page} : ParentOf(e, k) = IF k = m THEN p ELSE ParentOf(f, k)
    BY <1>5, <2>1, InsertedInTree DEF Moved
  <2> HIDE DEF e
  <2>3. KidsOnly(d, e) /\ Nodes(e) = Nodes(d) /\ \A k \in Nodes(d) \ {Page} : ParentOf(e, k) = ParentOf(d, k)
    BY <1>5, <2>2 DEF Moved, KidsOnly
  <2>4. Still(d, e)
    <3>1. \A k \in Nodes(d) \ {Page} : /\ ParentOf(e, k) \in Nodes(d)
                                       /\ e.at[k] + Absolute(d, ParentOf(e, k)) = Absolute(d, k)
      BY <2>3, OneParent, AbsoluteUnfolds DEF KidsOnly
    <3>2. e.at[Page] = d.at[Page]
      BY <2>3 DEF KidsOnly
    <3> QED
      BY <2>2, <2>3, <3>1, <3>2, PlacesKept DEF Still
  <2>5. Spares(d, e, {}, {})
    BY <2>3 DEF Spares, Spared, KidsOnly
  <2> QED
    BY <2>2, <2>3, <2>4, <2>5 DEF Moved, KidsOnly, e
<1>6. ASSUME NEW i \in 1 .. n, i - 1 \in T PROVE i \in T
  <2> HIDE DEF Same
  <2>1. Same(h[i - 1]) /\ i - 1 \in Nat /\ i \in 0 .. n
    BY <1>6
  <2>2. Same(InsertChild(h[i - 1], p, i - 1, nodes[i]))
    BY <1>1, <1>5, <2>1
  <2> QED
    BY <1>3, <2>1, <2>2
<1>7. n \in T
  <2> HIDE DEF T
  <2>1. \A i \in 0 .. n : i \in T
    BY <1>4, <1>6, UpTo
  <2> QED
    BY <2>1
<1> QED
  BY <1>3, <1>7

\* Nodes that keep their offsets and parents are seen where they were.
LEMMA NotMoved ==
  ASSUME NEW d, IsTree(d), NEW e, IsTree(e), NEW B, B \subseteq Nodes(d) \cap Nodes(e),
         \A m \in B : e.at[m] = d.at[m],
         \A m \in B \ {Page} : ParentOf(e, m) = ParentOf(d, m) /\ ParentOf(e, m) \in B
  PROVE  \A m \in B : Absolute(e, m) = Absolute(d, m)
<1> DEFINE T == {m \in B : Absolute(e, m) # Absolute(d, m)}
<1>1. Page \notin T
  BY AbsoluteUnfolds
<1>2. ASSUME NEW m \in T PROVE ParentOf(e, m) \in T
  <2>1. m \in B \ {Page} /\ ParentOf(e, m) = ParentOf(d, m) /\ ParentOf(e, m) \in B /\ e.at[m] = d.at[m]
    BY <1>1
  <2>2. /\ Absolute(e, m) = e.at[m] + Absolute(e, ParentOf(e, m))
        /\ Absolute(d, m) = d.at[m] + Absolute(d, ParentOf(d, m))
    BY <2>1, AbsoluteUnfolds
  <2> QED
    BY <2>1, <2>2
<1>3. T = {}
  <2>1. T \subseteq Nodes(e) \ {Page}
    BY <1>1
  <2> HIDE DEF T
  <2> QED
    BY <1>2, <2>1, TreeInduction
<1> QED
  BY <1>3

\* The same document but for some fields of the nodes of M.
LEMMA FieldsOnly ==
  ASSUME NEW d, IsTree(d), NEW e, DOMAIN e = DOMAIN d,
         e.type = d.type, e.kids = d.kids, e.at = d.at, e.next = d.next,
         DOMAIN e.look = Nodes(d), DOMAIN e.text = Nodes(d),
         NEW M, \A m \in Nodes(d) \ M : e.look[m] = d.look[m] /\ e.text[m] = d.text[m]
  PROVE  IsTree(e) /\ Later(d, e) /\ Spares(d, e, M, {})
<1>1. DOMAIN d.at = Nodes(d) /\ \A m \in Nodes(d) : d.at[m] \in Int
  BY DEF IsTree
<1>2. IsTree(e) /\ Nodes(e) = Nodes(d) /\ \A m : ParentOf(e, m) = ParentOf(d, m)
  BY <1>1, SameTree
<1>3. Later(d, e)
  <2>1. d.next \in Nat
    BY DEF IsTree
  <2> QED
    BY <1>2, <2>1 DEF Later
<1>4. Spares(d, e, M, {})
  BY <1>2 DEF Spares, Spared
<1> QED
  BY <1>2, <1>3, <1>4

\* A new node changes nothing of the others.
LEMMA MadeIsLater ==
  ASSUME NEW d, IsTree(d), NEW type, NEW text
  PROVE  LET e == Made(d, type, text) IN Later(d, e) /\ Still(d, e) /\ Spares(d, e, {}, {})
<1> DEFINE e == Made(d, type, text)
<1>1. /\ IsTree(e) /\ Nodes(e) = Nodes(d) \cup {d.next} /\ e.next = d.next + 1
      /\ d.next \notin Nodes(d)
      /\ \A m \in Nodes(d) : e.at[m] = d.at[m] /\ e.type[m] = d.type[m]
      /\ \A m \in Nodes(d) \ {Page} : Spared(d, e, m)
  BY Making
<1> HIDE DEF e
<1>2. Later(d, e)
  <2>1. d.next \in Nat
    BY DEF IsTree
  <2> QED
    BY <1>1, <2>1 DEF Later
<1>3. \A m \in Nodes(d) \ {Page} : ParentOf(e, m) = ParentOf(d, m) /\ ParentOf(e, m) \in Nodes(d)
  BY <1>1, OneParent DEF Spared
<1>4. Still(d, e)
  BY <1>1, <1>3, NotMoved DEF Still
<1> QED
  BY <1>1, <1>2, <1>4 DEF e, Spares

\* A node without children is removed, and nothing else.
LEMMA RemovedIsLater ==
  ASSUME NEW d, IsTree(d), NEW n \in Nodes(d) \ {Page}, \A m \in Nodes(d) \ {Page} : ParentOf(d, m) # n
  PROVE  LET e == Removed(d, n) IN
         IsTree(e) /\ Nodes(e) = Nodes(d) \ {n} /\ Later(d, e) /\ Still(d, e) /\ Spares(d, e, {n}, {})
<1> DEFINE e == Removed(d, n)
<1>1. /\ IsTree(e) /\ Nodes(e) = Nodes(d) \ Below(d, n) /\ e.next = d.next
      /\ \A m \in Nodes(e) : e.at[m] = d.at[m] /\ e.type[m] = d.type[m]
      /\ \A m \in Nodes(e) \ {Page} : Spared(d, e, m)
  BY Removing
<1> HIDE DEF e
<1>2. Nodes(e) = Nodes(d) \ {n}
  BY <1>1, BelowALeaf
<1>3. Later(d, e)
  <2>1. d.next \in Nat
    BY DEF IsTree
  <2> QED
    BY <1>1, <1>2, <2>1 DEF Later
<1>4. \A m \in Nodes(e) \ {Page} : ParentOf(e, m) = ParentOf(d, m) /\ ParentOf(e, m) \in Nodes(e)
  BY <1>1, OneParent DEF Spared
<1>5. Still(d, e)
  BY <1>1, <1>2, <1>4, NotMoved DEF Still
<1> QED
  BY <1>1, <1>2, <1>3, <1>5 DEF e, Spares

\* Insert() puts a node at some place among the children.
LEMMA InsertIsAt ==
  ASSUME NEW d, IsTree(d), NEW p \in Nodes(d), NEW index \in Nat, NEW n
  PROVE  \E place \in Nat : Insert(d, p, index, n) = InsertChild(d, p, place, n)
<1>1. Len(d.kids[p]) \in Nat
  BY DEF IsTree
<1>2. index # Absent => index - 1 \in Nat
  BY DEF Absent
<1> QED
  BY <1>1, <1>2 DEF Insert, AppendChild

\* What takes a node is in the document, and not inside that node.
LEMMA MayInsertInto ==
  ASSUME NEW d, NEW p, NEW n, Takes(d, p, n)
  PROVE  p \in Nodes(d) /\ n \notin Above(d, p)
BY DEF Takes, IsContainer, IsDescendant

\* What is moved is still there.
LEMMA MovedIsLater ==
  ASSUME NEW d, IsTree(d), NEW e, NEW p, NEW R, Moved(d, e, p, R)
  PROVE  Later(d, e) /\ Still(d, e) /\ Spares(d, e, R, {})
<1>1. d.next \in Nat
  BY DEF IsTree
<1> QED
  BY <1>1 DEF Moved, Later

\* A finite set of integers, listed by the nodes it is about, has a least one.
LEMMA LeastPlace ==
  ASSUME NEW N \in Nat, NEW C, C \subseteq 1 .. N, C # {}, NEW place, \A m \in C : place[m] \in Int
  PROVE  \E m \in C : \A k \in C : place[m] <= place[k]
<1> DEFINE T == {i \in 0 .. N : C \cap (1 .. i) = {}
                             \/ \E m \in C \cap (1 .. i) : \A k \in C \cap (1 .. i) : place[m] <= place[k]}
<1>1. 0 \in T
  <2>1. 1 .. 0 = {}
    OBVIOUS
  <2> QED
    BY <2>1
<1>2. ASSUME NEW i \in 1 .. N, i - 1 \in T PROVE i \in T
  <2>1. \A k \in C \cap (1 .. i) : k \in C \cap (1 .. i - 1) \/ k = i
    OBVIOUS
  <2>2. \A k \in C \cap (1 .. i - 1) : k \in C \cap (1 .. i)
    OBVIOUS
  <2>3. CASE i \notin C
    BY <1>2, <2>1, <2>2, <2>3
  <2>4. CASE i \in C /\ C \cap (1 .. i - 1) = {}
    <3>1. i \in C \cap (1 .. i) /\ \A k \in C \cap (1 .. i) : place[i] <= place[k]
      BY <2>1, <2>4
    <3> QED
      BY <3>1
  <2>5. CASE i \in C /\ C \cap (1 .. i - 1) # {}
    <3>1. PICK m \in C \cap (1 .. i - 1) : \A k \in C \cap (1 .. i - 1) : place[m] <= place[k]
      BY <1>2, <2>5
    <3>2. CASE place[m] <= place[i]
      BY <2>1, <2>2, <3>1, <3>2
    <3>3. CASE ~(place[m] <= place[i])
      <4>1. place[i] \in Int /\ place[m] \in Int /\ i \in C \cap (1 .. i)
        BY <2>5
      <4>2. \A k \in C \cap (1 .. i) : place[i] <= place[k]
        <5> TAKE k \in C \cap (1 .. i)
        <5>1. place[k] \in Int /\ (k = i \/ place[m] <= place[k])
          BY <2>1, <3>1
        <5> QED
          BY <3>3, <4>1, <5>1
      <4> QED
        BY <4>1, <4>2
    <3> QED
      BY <3>2, <3>3
  <2> QED
    BY <2>3, <2>4, <2>5
<1>3. N \in T
  <2> HIDE DEF T
  <2> QED
    BY <1>1, <1>2, UpTo
<1> QED
  BY <1>3

\* Where a node or group is seen is where one of those it carries is, and none
\* of them comes before.
LEMMA SeenThere ==
  ASSUME NEW d, IsTree(d), NEW n \in Nodes(d)
  PROVE  /\ Seen(d, n) \in Int
         /\ Carried(d, n) # {} =>
              \E m \in Carried(d, n) : Seen(d, n) = Absolute(d, m) /\ \A k \in Carried(d, n) : Absolute(d, m) <= Absolute(d, k)
<1>1. CASE Carried(d, n) = {}
  BY <1>1, AbsoluteUnfolds DEF Seen
<1>2. CASE Carried(d, n) # {}
  <2> DEFINE C == Carried(d, n)
             place == [m \in C |-> Absolute(d, m)]
             S == {Absolute(d, m) : m \in C}
  <2>1. C \subseteq Nodes(d) /\ \A m \in C : place[m] = Absolute(d, m) /\ Absolute(d, m) \in Int
    BY AbsoluteUnfolds DEF Carried, Below
  <2>2. d.next - 1 \in Nat /\ C \subseteq 1 .. d.next - 1
    BY <2>1 DEF IsTree, Page
  <2>3. PICK m \in C : \A k \in C : place[m] <= place[k]
    <3> HIDE DEF C, place
    <3> QED
      BY <1>2, <2>1, <2>2, LeastPlace DEF C
  <2>4. \A k \in C : Absolute(d, m) <= Absolute(d, k)
    BY <2>1, <2>3
  <2>5. Min(S) = Absolute(d, m)
    <3> HIDE DEF C
    <3>1. Absolute(d, m) \in S /\ \A y \in S : Absolute(d, m) <= y
      BY <2>4
    <3>2. \A x \in S : x \in Int
      BY <2>1
    <3>3. \A x \in S : (\A y \in S : x <= y) => x = Absolute(d, m)
      BY <3>1, <3>2
    <3> HIDE DEF S
    <3> QED
      BY <3>1, <3>3 DEF Min
  <2> QED
    BY <1>2, <2>1, <2>4, <2>5 DEF Seen
<1> QED
  BY <1>1, <1>2

\* A node other than a group is seen where it is.
LEMMA SeenItself ==
  ASSUME NEW d, IsTree(d), NEW n \in Nodes(d), d.type[n] # "GROUP"
  PROVE  Seen(d, n) = Absolute(d, n)
<1>1. n \in Below(d, n)
  BY AboveIsClosed DEF Below
<1>2. Carried(d, n) \subseteq {n}
  <2> SUFFICES ASSUME NEW m \in Carried(d, n), m # n PROVE FALSE
    OBVIOUS
  <2>1. n \in Above(d, m)
    BY DEF Carried, Below
  <2> QED
    BY <1>1, <2>1 DEF Carried
<1> QED
  BY <1>2, SeenThere DEF Seen

\* Inserting a node takes what is below it along.
LEMMA Displacing ==
  ASSUME NEW d, IsTree(d), NEW p \in Nodes(d), NEW n \in Nodes(d) \ {Page}, n \notin Above(d, p), NEW place \in Nat
  PROVE  LET e == InsertChild(d, p, place, n)
             x == Absolute(d, ParentOf(d, n)) - Absolute(d, p)
         IN /\ Carried(e, n) = Carried(d, n)
            /\ Seen(e, n) = Seen(d, n) - x
            /\ Absolute(e, p) = Absolute(d, p)
<1> DEFINE e == InsertChild(d, p, place, n)
           x == Absolute(d, ParentOf(d, n)) - Absolute(d, p)
<1>1. /\ KidsOnly(d, e) /\ IsTree(e) /\ Nodes(e) = Nodes(d)
      /\ \A m \in Nodes(d) \ {Page} : ParentOf(e, m) = IF m = n THEN p ELSE ParentOf(d, m)
  BY InsertedInTree
<1> HIDE DEF e
<1>2. e.type = d.type /\ e.at = d.at /\ n \in Nodes(e) \ {Page} /\ p \in Nodes(e)
  BY <1>1 DEF KidsOnly
<1>3. ASSUME NEW m \in Nodes(d)
      PROVE  (m \in Carried(e, n) <=> m \in Carried(d, n)) /\ (m \in Loose(e, n) <=> m \in Loose(d, n))
  <2> DEFINE T == {k \in Nodes(d) : ~(/\ k \in Carried(e, n) <=> k \in Carried(d, n)
                                      /\ k \in Loose(e, n) <=> k \in Loose(d, n))}
  <2>1. Page \notin T /\ n \notin T
    BY <1>1, <1>2, Carrying
  <2>2. ASSUME NEW k \in T, ParentOf(d, k) \notin T PROVE FALSE
    <3>1. k \in Nodes(d) \ {n, Page} /\ ParentOf(d, k) \in Nodes(d) /\ ParentOf(e, k) = ParentOf(d, k)
      BY <1>1, <2>1, OneParent
    <3>2. ParentOf(d, k) \in Loose(e, n) <=> ParentOf(d, k) \in Loose(d, n)
      BY <2>2, <3>1
    <3> HIDE DEF T
    <3>3. /\ k \in Loose(e, n) <=> d.type[k] = "GROUP" /\ ParentOf(d, k) \in Loose(e, n)
          /\ k \in Carried(e, n) <=> d.type[k] # "GROUP" /\ ParentOf(d, k) \in Loose(e, n)
      BY <1>1, <1>2, <3>1, Carrying
    <3>4. /\ k \in Loose(d, n) <=> d.type[k] = "GROUP" /\ ParentOf(d, k) \in Loose(d, n)
          /\ k \in Carried(d, n) <=> d.type[k] # "GROUP" /\ ParentOf(d, k) \in Loose(d, n)
      BY <3>1, Carrying
    <3> QED
      BY <3>2, <3>3, <3>4 DEF T
  <2>3. T = {}
    <3>1. T \subseteq Nodes(d) \ {Page}
      BY <2>1
    <3> HIDE DEF T
    <3> QED
      BY <2>2, <3>1, TreeInduction
  <2> QED
    BY <2>3
<1>4. Carried(e, n) = Carried(d, n) /\ Carried(d, n) \subseteq Below(d, n) /\ Below(d, n) \subseteq Nodes(d)
  <2>1. Carried(e, n) \subseteq Nodes(e) /\ Carried(d, n) \subseteq Nodes(d) /\ Below(d, n) \subseteq Nodes(d)
    BY DEF Carried, Below
  <2> QED
    BY <1>1, <1>3, <2>1, Carrying
<1>5. x \in Int /\ Absolute(d, p) \in Int /\ Absolute(d, ParentOf(d, n)) \in Int
  BY AbsoluteUnfolds, OneParent
<1>6. ASSUME NEW m \in Nodes(d)
      PROVE  Absolute(e, m) = IF m \in Below(d, n) THEN Absolute(d, m) - x ELSE Absolute(d, m)
  <2> DEFINE T == {k \in Nodes(d) : Absolute(e, k) # IF k \in Below(d, n) THEN Absolute(d, k) - x ELSE Absolute(d, k)}
  <2>1. Page \notin T
    <3>1. Page \in Nodes(d) /\ Page \notin Below(d, n)
      BY AboveUnfolds DEF Below, IsTree
    <3> QED
      BY <1>1, <1>2, <3>1, AbsoluteUnfolds
  <2>2. ASSUME NEW k \in T, ParentOf(e, k) \notin T PROVE FALSE
    <3>1. k \in Nodes(d) \ {Page} /\ ParentOf(e, k) \in Nodes(d) /\ ParentOf(d, k) \in Nodes(d) /\ d.at[k] \in Int
      BY <1>1, <2>1, OneParent DEF IsTree
    <3>2. /\ Absolute(e, k) = d.at[k] + Absolute(e, ParentOf(e, k))
          /\ Absolute(d, k) = d.at[k] + Absolute(d, ParentOf(d, k))
      BY <1>1, <1>2, <3>1, AbsoluteUnfolds
    <3>3. Absolute(d, ParentOf(d, k)) \in Int
      BY <3>1, AbsoluteUnfolds
    <3>4. CASE k = n
      <4>1. ParentOf(e, k) = p /\ p \notin Below(d, n) /\ k \in Below(d, n)
        BY <1>1, <3>1, <3>4, AboveIsClosed DEF Below
      <4>2. Absolute(e, k) = d.at[k] + Absolute(d, p)
        BY <2>2, <3>1, <3>2, <4>1
      <4> QED
        BY <1>5, <3>1, <3>2, <3>3, <3>4, <4>1, <4>2
    <3>5. CASE k # n
      <4>1. ParentOf(e, k) = ParentOf(d, k) /\ (k \in Below(d, n) <=> ParentOf(d, k) \in Below(d, n))
        BY <1>1, <3>1, <3>5, Carrying
      <4>2. Absolute(e, ParentOf(d, k)) =
              IF ParentOf(d, k) \in Below(d, n) THEN Absolute(d, ParentOf(d, k)) - x ELSE Absolute(d, ParentOf(d, k))
        BY <2>2, <3>1, <4>1
      <4> HIDE DEF x
      <4> QED
        BY <1>5, <3>1, <3>2, <3>3, <4>1, <4>2
    <3> QED
      BY <3>4, <3>5
  <2>3. T = {}
    <3>1. T \subseteq Nodes(e) \ {Page}
      BY <1>1, <2>1
    <3> HIDE DEF T
    <3> QED
      BY <1>1, <2>2, <3>1, TreeInduction
  <2> QED
    BY <2>3
<1>7. Absolute(e, p) = Absolute(d, p) /\ Absolute(e, n) = Absolute(d, n) - x
  BY <1>6, AboveIsClosed DEF Below
<1> HIDE DEF x
<1>8. Seen(e, n) = Seen(d, n) - x
  <2>1. CASE Carried(d, n) = {}
    BY <1>4, <1>7, <2>1 DEF Seen
  <2>2. CASE Carried(d, n) # {}
    <3>1. PICK a \in Carried(d, n) : Seen(d, n) = Absolute(d, a) /\ \A k \in Carried(d, n) : Absolute(d, a) <= Absolute(d, k)
      BY <2>2, SeenThere
    <3>2. PICK b \in Carried(d, n) : Seen(e, n) = Absolute(e, b) /\ \A k \in Carried(d, n) : Absolute(e, b) <= Absolute(e, k)
      BY <1>1, <1>4, <2>2, SeenThere
    <3>3. \A k \in Carried(d, n) : Absolute(e, k) = Absolute(d, k) - x /\ Absolute(d, k) \in Int
      BY <1>4, <1>6, AbsoluteUnfolds
    <3>4. Absolute(d, a) <= Absolute(d, b) /\ Absolute(e, b) <= Absolute(e, a)
      BY <3>1, <3>2
    <3> QED
      BY <1>5, <3>1, <3>2, <3>3, <3>4
  <2> QED
    BY <2>1, <2>2
<1> QED
  BY <1>4, <1>7, <1>8 DEF e, x

\* moveNode(): a node that is moved, but into a group, is not seen to move.
LEMMA Moving ==
  ASSUME NEW d, IsTree(d), NEW item, item.node \in Nodes(d) \ {Page}, item.parent \in Nodes(d), item.index \in Nat,
         MoveNode(d, item).ok
  PROVE  LET e == MoveNode(d, item).doc IN
         /\ IsTree(e) /\ Later(d, e) /\ Spares(d, e, {item.node}, {})
         /\ d.type[item.parent] # "GROUP" => Still(d, e)
<1> DEFINE n == item.node
           p == item.parent
           f == Insert(d, p, item.index, n)
           e == MoveNode(d, item).doc
           x == Absolute(f, p) + (Seen(d, n) - Seen(f, p)) - Seen(f, n)
<1>1. MayInsert(d, p, item.index, n) /\ e = Shifted(f, Carried(f, n), x)
  BY DEF MoveNode, Thrown, Outcome, MovedTo, RelativeToParent
<1>2. n \notin Above(d, p)
  BY <1>1, MayInsertInto DEF MayInsert
<1>3. PICK place \in Nat : f = InsertChild(d, p, place, n)
  BY InsertIsAt
<1> HIDE DEF n, p, e, f
<1>4. p \in Nodes(d) /\ n \in Nodes(d) \ {Page}
  BY DEF n, p
<1>5. /\ KidsOnly(d, f) /\ IsTree(f) /\ Nodes(f) = Nodes(d)
      /\ \A m \in Nodes(d) \ {Page} : ParentOf(f, m) = IF m = n THEN p ELSE ParentOf(d, m)
  BY <1>2, <1>3, <1>4, InsertedInTree
<1>6. x \in Int
  BY <1>4, <1>5, SeenThere, AbsoluteUnfolds
<1>7. d.type[p] # "GROUP" => e = Reparented(d, p, place, n)
  <2> SUFFICES ASSUME d.type[p] # "GROUP" PROVE e = Reparented(d, p, place, n)
    OBVIOUS
  <2> DEFINE y == Absolute(d, ParentOf(d, n)) - Absolute(d, p)
  <2>1. Carried(f, n) = Carried(d, n) /\ Seen(f, n) = Seen(d, n) - y
    BY <1>2, <1>3, <1>4, Displacing
  <2>2. Seen(f, p) = Absolute(f, p)
    <3>1. f.type[p] # "GROUP"
      BY <1>5 DEF KidsOnly
    <3> QED
      BY <1>4, <1>5, <3>1, SeenItself
  <2>3. y \in Int /\ Absolute(f, p) \in Int /\ Seen(d, n) \in Int
    BY <1>4, <1>5, SeenThere, AbsoluteUnfolds, OneParent
  <2>4. x = y
    <3> HIDE DEF y
    <3> QED
      BY <2>1, <2>2, <2>3
  <2> QED
    BY <1>1, <1>3, <2>1, <2>4 DEF Reparented
<1> HIDE DEF x
<1>8. /\ DOMAIN e = DOMAIN f /\ e.type = f.type /\ e.kids = f.kids /\ e.next = f.next /\ e.look = f.look
      /\ e.text = f.text /\ e.at = [m \in DOMAIN f.at |-> f.at[m] + (IF m \in Carried(f, n) THEN x ELSE 0)]
  BY <1>1, <1>5 DEF IsTree, Shifted
<1>9. /\ DOMAIN f.at = Nodes(f)
      /\ DOMAIN f.look = Nodes(f) /\ DOMAIN f.text = Nodes(f) /\ \A m \in Nodes(f) : f.at[m] \in Int
  BY <1>5 DEF IsTree
<1>10. DOMAIN e.at = Nodes(f) /\ \A m \in Nodes(f) : e.at[m] \in Int
  <2>1. DOMAIN e.at = Nodes(f) /\ \A m \in Nodes(f) : e.at[m] = f.at[m] + (IF m \in Carried(f, n) THEN x ELSE 0)
    BY <1>8, <1>9
  <2> QED
    BY <1>6, <1>9, <2>1
<1>11. IsTree(e) /\ Nodes(e) = Nodes(f) /\ \A m : ParentOf(e, m) = ParentOf(f, m)
  BY <1>5, <1>8, <1>9, <1>10, SameTree
<1>12. Later(d, e)
  <2>1. d.next \in Nat
    BY DEF IsTree
  <2> QED
    BY <1>5, <1>8, <1>11, <2>1 DEF Later, KidsOnly
<1>13. Spares(d, e, {n}, {})
  BY <1>5, <1>8, <1>11 DEF Spares, Spared, KidsOnly
<1>14. d.type[p] # "GROUP" => Still(d, e)
  <2> DEFINE g == Reparented(d, p, place, n)
  <2>1. Still(d, g)
    BY <1>2, <1>4, Reparenting
  <2> HIDE DEF g
  <2> QED
    BY <1>7, <2>1 DEF g
<1> QED
  BY <1>11, <1>12, <1>13, <1>14 DEF n, p, e

\* The children of a node: none of them is above it.
LEMMA KidsAreBelow ==
  ASSUME NEW d, IsTree(d), NEW n \in Nodes(d) \ {Page}
  PROVE  /\ d.kids[n] \in Seq(Nodes(d) \ {Page}) /\ ToSet(d.kids[n]) \subseteq Nodes(d) \ {Page}
         /\ ToSet(d.kids[n]) \cap Above(d, ParentOf(d, n)) = {}
         /\ \A m \in Nodes(d) \ {Page} : ParentOf(d, m) = n <=> m \in ToSet(d.kids[n])
         /\ ParentOf(d, n) # n
<1>1. d.kids[n] \in Seq(Nodes(d) \ {Page}) /\ ToSet(d.kids[n]) \subseteq Nodes(d) \ {Page}
  <2>1. d.kids[n] \in Seq(Nodes(d) \ {Page})
    BY DEF IsTree
  <2> QED
    BY <2>1 DEF ToSet
<1>2. \A m \in Nodes(d) \ {Page} : ParentOf(d, m) = n <=> m \in ToSet(d.kids[n])
  BY OneParent
<1>3. ParentOf(d, n) \in Nodes(d) /\ n \notin Above(d, ParentOf(d, n))
  BY OneParent, NotAboveItself
<1>4. ASSUME NEW m \in ToSet(d.kids[n]) PROVE m \notin Above(d, ParentOf(d, n))
  <2> SUFFICES ASSUME m \in Above(d, ParentOf(d, n)) PROVE FALSE
    OBVIOUS
  <2>1. m \in Nodes(d) \ {Page} /\ ParentOf(d, m) = n
    BY <1>1, <1>2
  <2>2. n \in Above(d, ParentOf(d, n))
    BY <1>3, <2>1, AboveIsClosed
  <2> QED
    BY <1>3, <2>2
<1> QED
  BY <1>1, <1>2, <1>3, <1>4, AboveIsClosed

\* A node has a place among the children of its parent.
LEMMA PlaceIsThere ==
  ASSUME NEW d, IsTree(d), NEW n \in Nodes(d) \ {Page}
  PROVE  PlaceOf(d, n) - 1 \in Nat
<1>1. ParentOf(d, n) \in Nodes(d) /\ n \in ToSet(d.kids[ParentOf(d, n)])
  BY OneParent
<1>2. DOMAIN d.kids[ParentOf(d, n)] \subseteq Nat \ {0}
  <2>1. d.kids[ParentOf(d, n)] \in Seq(Nodes(d) \ {Page})
    BY <1>1 DEF IsTree
  <2> QED
    BY <2>1, LenProperties
<1>3. \E i \in DOMAIN d.kids[ParentOf(d, n)] : d.kids[ParentOf(d, n)][i] = n
  BY <1>1 DEF ToSet
<1>4. PlaceOf(d, n) \in DOMAIN d.kids[ParentOf(d, n)]
  BY <1>3 DEF PlaceOf
<1> QED
  BY <1>2, <1>4

\* Reverse() keeps the elements of a list.
LEMMA Reversing ==
  ASSUME NEW S, NEW s \in Seq(S)
  PROVE  Reverse(s) \in Seq(S) /\ ToSet(Reverse(s)) = ToSet(s)
<1>1. Len(s) \in Nat /\ DOMAIN s = 1 .. Len(s) /\ \A i \in 1 .. Len(s) : s[i] \in S
  BY LenProperties
<1>2. \A i \in 1 .. Len(s) : (Len(s) - i) + 1 \in 1 .. Len(s) /\ (Len(s) - ((Len(s) - i) + 1)) + 1 = i
  BY <1>1
<1>3. DOMAIN Reverse(s) = 1 .. Len(s) /\ \A i \in 1 .. Len(s) : Reverse(s)[i] = s[(Len(s) - i) + 1]
  BY <1>1 DEF Reverse
<1>4. Reverse(s) \in [1 .. Len(s) -> S]
  BY <1>1, <1>2 DEF Reverse
<1>5. Reverse(s) \in Seq(S)
  BY <1>1, <1>4
<1>6. ToSet(Reverse(s)) \subseteq ToSet(s)
  BY <1>1, <1>2, <1>3 DEF ToSet
<1>7. ASSUME NEW i \in 1 .. Len(s) PROVE s[i] \in ToSet(Reverse(s))
  <2>1. PICK j \in 1 .. Len(s) : (Len(s) - j) + 1 = i
    BY <1>2
  <2> QED
    BY <1>3, <2>1 DEF ToSet
<1> QED
  BY <1>1, <1>5, <1>6, <1>7 DEF ToSet

\* ungroupNode(): the children take the place of the node, and it is removed.
LEMMA Dissolving ==
  ASSUME NEW d, IsTree(d), NEW n \in Nodes(d) \ {Page}
  PROVE  LET e == Dissolved(d, n) IN IsTree(e) /\ Later(d, e) /\ Still(d, e) /\ Spares(d, e, {n}, {n})
<1> DEFINE p == ParentOf(d, n)
           R == ToSet(d.kids[n])
           g == Gathered(d, p, PlaceOf(d, n) - 1, Reverse(d.kids[n]))
           e == Dissolved(d, n)
<1>1. /\ R \subseteq Nodes(d) \ {Page} /\ R \cap Above(d, p) = {} /\ p # n /\ p \in Nodes(d)
      /\ \A m \in Nodes(d) \ {Page} : ParentOf(d, m) = n <=> m \in R
  BY KidsAreBelow, OneParent
<1>2. Reverse(d.kids[n]) \in Seq(Nodes(d) \ {Page}) /\ ToSet(Reverse(d.kids[n])) = R
  BY KidsAreBelow, Reversing
<1>3. Moved(d, g, p, R)
  <2>1. PlaceOf(d, n) - 1 \in Nat
    BY PlaceIsThere
  <2> HIDE DEF p, R
  <2> QED
    BY <1>1, <1>2, <2>1, Gathering
<1>4. e = Removed(g, n)
  BY DEF Dissolved
<1> HIDE DEF p, R, g, e
<1>5. Later(d, g) /\ Still(d, g) /\ Spares(d, g, R, {}) /\ IsTree(g) /\ Nodes(g) = Nodes(d)
  BY <1>3, MovedIsLater DEF Moved
<1>6. \A m \in Nodes(g) \ {Page} : ParentOf(g, m) # n
  BY <1>1, <1>3 DEF Moved
<1>7. IsTree(e) /\ Later(g, e) /\ Still(g, e) /\ Spares(g, e, {n}, {})
  BY <1>4, <1>5, <1>6, RemovedIsLater
<1>8. Later(d, e) /\ Still(d, e)
  BY <1>5, <1>7, Transitive
<1>9. Spares(d, g, {n}, {n}) /\ Spares(g, e, {n}, {n})
  BY <1>1, <1>5, <1>7 DEF Spares
<1> QED
  BY <1>5, <1>7, <1>8, <1>9, Transitive DEF e

-----------------------------------------------------------------------------
(* What an operation does to a document *)

\* What an operation does to the nodes of M, and to the children of those of K.
Touches(d, e, M, K) == IsTree(e) /\ Later(d, e) /\ Spares(d, e, M, K)

\* More may be said to be touched, of the nodes there were.
LEMMA TouchesMore ==
  ASSUME NEW d, NEW e, NEW M, NEW K, Touches(d, e, M, K), NEW N, NEW L,
         M \cap Nodes(d) \subseteq N, K \cap Nodes(d) \subseteq L, IsTree(d)
  PROVE  Touches(d, e, N, L)
<1>1. \A m \in Nodes(d) \ {Page} : ParentOf(d, m) \in Nodes(d)
  BY OneParent
<1> QED
  BY <1>1 DEF Touches, Spares

\* One operation after another.
LEMMA TouchesTwice ==
  ASSUME NEW d, IsTree(d), NEW e, NEW f, NEW M, NEW K, Touches(d, e, M, K), Touches(e, f, M, K)
  PROVE  Touches(d, f, M, K)
BY Transitive DEF Touches

\* insertChild() touches the node that is inserted.
LEMMA Inserting ==
  ASSUME NEW d, IsTree(d), NEW p \in Nodes(d), NEW n \in Nodes(d) \ {Page}, n \notin Above(d, p), NEW place \in Nat
  PROVE  Touches(d, InsertChild(d, p, place, n), {n}, {})
<1> DEFINE e == InsertChild(d, p, place, n)
<1>1. /\ KidsOnly(d, e) /\ IsTree(e) /\ Nodes(e) = Nodes(d)
      /\ \A m \in Nodes(d) \ {Page} : ParentOf(e, m) = IF m = n THEN p ELSE ParentOf(d, m)
  BY InsertedInTree
<1> HIDE DEF e
<1>2. Later(d, e)
  <2>1. d.next \in Nat
    BY DEF IsTree
  <2> QED
    BY <1>1, <2>1 DEF Later, KidsOnly
<1>3. Spares(d, e, {n}, {})
  BY <1>1 DEF Spares, Spared, KidsOnly
<1> QED
  BY <1>1, <1>2, <1>3 DEF Touches, e

\* A node may be placed where it is asked for.
LEMMA Placing ==
  ASSUME NEW d, IsTree(d), NEW n \in Nodes(d) \ {Page}, NEW item, item.index \in Nat, Placed(d, n, item).ok
  PROVE  Touches(d, Placed(d, n, item).doc, {n}, {})
<1>1. CASE item.parent = Absent
  BY <1>1, Reflexive DEF Placed, Outcome, Touches
<1>2. CASE item.parent # Absent
  <2>1. /\ MayInsert(d, item.parent, item.index, n)
        /\ Placed(d, n, item).doc = Insert(d, item.parent, item.index, n)
    BY <1>2 DEF Placed, Outcome, Thrown
  <2>2. item.parent \in Nodes(d) /\ n \notin Above(d, item.parent)
    BY <2>1, MayInsertInto DEF MayInsert
  <2>3. PICK place \in Nat : Insert(d, item.parent, item.index, n) = InsertChild(d, item.parent, place, n)
    BY <2>2, InsertIsAt
  <2> QED
    BY <2>1, <2>2, <2>3, Inserting
<1> QED
  BY <1>1, <1>2

\* The next number is of no node.
LEMMA NextIsNew ==
  ASSUME NEW d, IsTree(d)
  PROVE  d.next \in Nat /\ d.next \notin Nodes(d)
BY DEF IsTree

\* What is new may be placed.
LEMMA PlacingNew ==
  ASSUME NEW d, IsTree(d), NEW e, Touches(d, e, {}, {}), d.next \in Nodes(e) \ {Page},
         NEW item, item.index \in Nat, Placed(e, d.next, item).ok
  PROVE  Touches(d, Placed(e, d.next, item).doc, {}, {})
<1>1. IsTree(e) /\ d.next \notin Nodes(d)
  BY NextIsNew DEF Touches
<1>2. Touches(d, e, {}, {})
  OBVIOUS
<1>3. Placed(e, d.next, item).ok
  OBVIOUS
<1>4. Touches(e, Placed(e, d.next, item).doc, {d.next}, {})
  BY <1>1, <1>3, Placing
<1>5. Touches(d, e, {d.next}, {})
  BY <1>2, TouchesMore
<1>6. Touches(d, Placed(e, d.next, item).doc, {d.next}, {})
  BY <1>4, <1>5, TouchesTwice
<1> QED
  BY <1>1, <1>6, TouchesMore

\* What is made may be placed.
LEMMA PlacingMade ==
  ASSUME NEW d, IsTree(d), NEW type, NEW text, NEW item, item.index \in Nat,
         Placed(Made(d, type, text), d.next, item).ok
  PROVE  Touches(d, Placed(Made(d, type, text), d.next, item).doc, {}, {})
<1> DEFINE e == Made(d, type, text)
<1>1. IsTree(e) /\ d.next \in Nodes(e) \ {Page}
  BY Making
<1>2. Touches(d, e, {}, {})
  BY <1>1, MadeIsLater DEF Touches
<1> HIDE DEF e
<1> QED
  BY <1>1, <1>2, PlacingNew DEF e

\* A new node goes into the tree where an old one is, and has no children yet.
LEMMA MadeBeside ==
  ASSUME NEW d, IsTree(d), NEW type, NEW text, NEW p \in Nodes(d)
  PROVE  LET e == Made(d, type, text) IN
         IsTree(e) /\ p \in Nodes(e) /\ d.next \in Nodes(e) \ {Page} /\ d.next \notin Above(e, p)
         /\ Above(e, p) \subseteq Above(d, p)
<1> DEFINE e == Made(d, type, text)
<1>1. /\ IsTree(e) /\ Nodes(e) = Nodes(d) \cup {d.next} /\ d.next \notin Nodes(d) /\ d.next # Page
      /\ \A m \in Nodes(d) \ {Page} : Spared(d, e, m)
  BY Making
<1> HIDE DEF e
<1>2. Above(d, p) \subseteq Nodes(d)
  BY AboveUnfolds
<1>3. Above(e, p) \subseteq Above(d, p)
  BY <1>1, <1>2, AboveUnmoved DEF Spared
<1> QED
  BY <1>1, <1>2, <1>3 DEF e

\* duplicateNodes()
LEMMA Cloning ==
  ASSUME NEW d, IsTree(d), NEW item, item.index \in Nat, DuplicateNode(d, item).ok
  PROVE  Touches(d, DuplicateNode(d, item).doc, {}, {})
<1> DEFINE n == item.node
           e == Made(d, d.type[n], d.text[n])
           f == Made(e, "RECTANGLE", "")
           g == AppendChild(f, d.next, e.next)
<1>1. /\ IsTree(e) /\ d.next \in Nodes(e) \ {Page} /\ d.next \notin Nodes(d) /\ Touches(d, e, {}, {})
      /\ e.next = d.next + 1 /\ d.next \in Nat
  <2>1. /\ IsTree(e) /\ d.next \in Nodes(e) \ {Page} /\ d.next \notin Nodes(d) /\ e.next = d.next + 1
    BY Making
  <2>2. Touches(d, e, {}, {})
    BY <2>1, MadeIsLater DEF Touches
  <2> QED
    BY <2>1, <2>2, NextIsNew
<1>2. CASE d.type[n] # "GROUP"
  <2>1. DuplicateNode(d, item) = Placed(e, d.next, item)
    BY <1>2 DEF DuplicateNode, Cloned
  <2> HIDE DEF e
  <2> QED
    BY <1>1, <2>1, PlacingNew
<1>3. CASE d.type[n] = "GROUP"
  <2>1. DuplicateNode(d, item) = Placed(g, d.next, item)
    BY <1>3 DEF DuplicateNode, Cloned
  <2> HIDE DEF e
  <2>2. /\ IsTree(f) /\ Nodes(f) = Nodes(e) \cup {e.next} /\ e.next \in Nodes(f) \ {Page} /\ e.next \notin Nodes(e)
        /\ e.next \notin Above(f, d.next) /\ Touches(e, f, {}, {})
    <3>1. IsTree(f) /\ e.next \in Nodes(f) \ {Page} /\ e.next \notin Above(f, d.next)
      BY <1>1, MadeBeside
    <3>2. Nodes(f) = Nodes(e) \cup {e.next} /\ e.next \notin Nodes(e)
      <4>1. IsTree(e)
        BY <1>1
      <4> QED
        BY <4>1, Making
    <3>3. Touches(e, f, {}, {})
      BY <1>1, <3>1, MadeIsLater DEF Touches
    <3> QED
      BY <3>1, <3>2, <3>3
  <2> HIDE DEF f
  <2>3. Touches(f, g, {e.next}, {}) /\ Nodes(g) = Nodes(f)
    <3>1. d.next \in Nodes(f) /\ Len(f.kids[d.next]) \in Nat
      BY <1>1, <2>2 DEF IsTree
    <3>2. Nodes(g) = Nodes(f)
      BY <2>2, <3>1, InsertedInTree DEF AppendChild
    <3> QED
      BY <2>2, <3>1, <3>2, Inserting DEF AppendChild
  <2> HIDE DEF g
  <2>4. Touches(d, f, {}, {})
    BY <1>1, <2>2, TouchesTwice
  <2>5. Touches(d, f, {e.next}, {})
    BY <2>4, TouchesMore
  <2>6. Touches(d, g, {e.next}, {})
    BY <2>3, <2>5, TouchesTwice
  <2>7. e.next \notin Nodes(d)
    BY <1>1 DEF IsTree
  <2>8. Touches(d, g, {}, {}) /\ d.next \in Nodes(g) \ {Page}
    BY <1>1, <2>2, <2>3, <2>6, <2>7, TouchesMore
  <2> QED
    BY <2>1, <2>8, PlacingNew
<1> QED
  BY <1>2, <1>3

\* createComponentFromNode()
LEMMA Converting ==
  ASSUME NEW d, IsTree(d), NEW n \in Nodes(d) \ {Page}
  PROVE  Touches(d, Converted(d, n), {n}, {n}) /\ d.next \in Nodes(Converted(d, n)) \ {Page}
<1> DEFINE c == d.next
           p == ParentOf(d, n)
           a == Made(d, "COMPONENT", "")
           b == Reparented(a, p, PlaceOf(d, n) - 1, c)
           x == Seen(d, n) - Absolute(d, p)
           f == [b EXCEPT !.at[c] = x]
<1>1. p \in Nodes(d) /\ p # n /\ n \notin Above(d, p) /\ PlaceOf(d, n) - 1 \in Nat /\ Above(d, p) \subseteq Nodes(d)
  BY OneParent, KidsAreBelow, NotAboveItself, PlaceIsThere, AboveUnfolds
<1>2. /\ IsTree(a) /\ p \in Nodes(a) /\ c \in Nodes(a) \ {Page} /\ c \notin Above(a, p)
      /\ Above(a, p) \subseteq Above(d, p)
  BY <1>1, MadeBeside
<1>3. Touches(d, a, {}, {}) /\ c \notin Nodes(d) /\ Nodes(a) = Nodes(d) \cup {c}
  BY <1>2, Making, MadeIsLater DEF Touches
<1>4. Converted(d, n) = IF IsContainer(d, n) THEN Removed(Gathered(f, c, Len(d.kids[n]), d.kids[n]), n)
                        ELSE Gathered(f, c, 0, <<n>>)
  BY DEF Converted
<1>5. x \in Int
  BY <1>1, SeenThere, AbsoluteUnfolds
<1> HIDE DEF x
<1> HIDE DEF a
<1>6. /\ IsTree(b) /\ Nodes(b) = Nodes(a) /\ b.next = a.next /\ b.type = a.type
      /\ \A m \in Nodes(a) \ {Page} : ParentOf(b, m) = IF m = c THEN p ELSE ParentOf(a, m)
      /\ Spares(a, b, {c}, {})
  <2> HIDE DEF p, c, f
  <2> DEFINE place == PlaceOf(d, n) - 1
  <2>1. place \in Nat
    BY <1>1
  <2> HIDE DEF place
  <2> DEFINE e == Reparented(a, p, place, c)
  <2>2. /\ IsTree(e) /\ Nodes(e) = Nodes(a) /\ e.next = a.next /\ e.type = a.type
        /\ \A m \in Nodes(a) \ {Page} : ParentOf(e, m) = IF m = c THEN p ELSE ParentOf(a, m)
        /\ Spares(a, e, {c}, {})
    <3>1. p \in Nodes(a) /\ c \in Nodes(a) \ {Page} /\ c \notin Above(a, p) /\ IsTree(a)
      BY <1>2
    <3> QED
      BY <2>1, <3>1, Reparenting, SMTT(60)
  <2>3. b = e
    BY DEF place
  <2> QED
    BY <2>2, <2>3
<1> HIDE DEF b
<1>7. /\ DOMAIN f = DOMAIN b /\ f.type = b.type /\ f.kids = b.kids /\ f.next = b.next /\ f.look = b.look
      /\ f.text = b.text /\ f.at = [b.at EXCEPT ![c] = x]
  BY <1>6 DEF IsTree
<1>8. DOMAIN b.at = Nodes(b) /\ DOMAIN b.look = Nodes(b) /\ DOMAIN b.text = Nodes(b)
      /\ \A m \in Nodes(b) : b.at[m] \in Int
  BY <1>6 DEF IsTree
<1> HIDE DEF f
<1>9. IsTree(f) /\ Nodes(f) = Nodes(b) /\ \A m : ParentOf(f, m) = ParentOf(b, m)
  <2>1. DOMAIN f.at = Nodes(b) /\ \A m \in Nodes(b) : f.at[m] \in Int
    BY <1>7, <1>8, <1>5
  <2> QED
    BY <1>6, <1>7, <1>8, <2>1, SameTree
<1>10. Touches(a, f, {c}, {})
  <2>1. Spares(a, f, {c}, {})
    BY <1>6, <1>7, <1>9 DEF Spares, Spared
  <2>2. Later(a, f)
    <3>1. a.next \in Nat
      BY <1>2 DEF IsTree
    <3> QED
      BY <1>6, <1>7, <1>9, <3>1 DEF Later
  <2> QED
    BY <1>9, <2>1, <2>2 DEF Touches
<1>11. Touches(d, f, {c}, {})
  <2>1. Touches(d, a, {c}, {})
    BY <1>3, TouchesMore
  <2> QED
    BY <1>10, <2>1, TouchesTwice
<1>12. Above(f, c) \subseteq {c} \cup Above(d, p) /\ c \in Nodes(f) \ {Page} /\ ParentOf(f, c) = p
  <2>1. c \in Nodes(f) \ {Page} /\ ParentOf(f, c) = p
    BY <1>2, <1>6, <1>9
  <2>2. \A m \in Above(a, p) \ {Page} : ParentOf(f, m) = ParentOf(a, m)
    BY <1>2, <1>6, <1>9, AboveUnfolds
  <2>3. Above(a, p) \subseteq Nodes(f)
    BY <1>2, <1>6, <1>9, AboveUnfolds
  <2>4. Above(f, p) \subseteq Above(a, p)
    BY <1>2, <1>9, <2>2, <2>3, AboveUnmoved
  <2>5. Above(f, c) = {c} \cup Above(f, p)
    BY <1>9, <2>1, AboveUnfolds
  <2> QED
    BY <1>2, <2>1, <2>4, <2>5
<1>13. n \in Nodes(f) \ {Page} /\ n # c
  BY <1>3, <1>6, <1>9
<1>14. CASE IsContainer(d, n)
  <2> DEFINE R == ToSet(d.kids[n])
             g == Gathered(f, c, Len(d.kids[n]), d.kids[n])
             e == Removed(g, n)
  <2>1. /\ d.kids[n] \in Seq(Nodes(d) \ {Page}) /\ R \subseteq Nodes(d) \ {Page} /\ R \cap Above(d, p) = {}
        /\ \A m \in Nodes(d) \ {Page} : ParentOf(d, m) = n <=> m \in R
    BY KidsAreBelow
  <2>2. d.kids[n] \in Seq(Nodes(f) \ {Page}) /\ Len(d.kids[n]) \in Nat
    <3>1. Nodes(d) \ {Page} \subseteq Nodes(f) \ {Page}
      BY <1>3, <1>6, <1>9
    <3> QED
      BY <2>1, <3>1, SeqMonotonic
  <2>3. R \cap Above(f, c) = {}
    BY <1>3, <1>12, <2>1
  <2>4. Moved(f, g, c, R)
    <3> HIDE DEF c, f
    <3> QED
      BY <1>9, <1>12, <2>2, <2>3, Gathering
  <2> HIDE DEF g, R
  <2>5. \A m \in Nodes(g) \ {Page} : ParentOf(g, m) # n
    <3> SUFFICES ASSUME NEW m \in Nodes(f) \ {Page}, m \notin R PROVE ParentOf(f, m) # n
      BY <1>13, <2>4 DEF Moved
    <3>1. CASE m = c
      BY <1>1, <1>12, <3>1
    <3>2. CASE m # c
      <4>1. m \in Nodes(d) \ {Page}
        BY <1>3, <1>6, <1>9, <3>2
      <4>2. ParentOf(f, m) = ParentOf(d, m)
        BY <1>11, <3>2, <4>1 DEF Touches, Spares, Spared
      <4> QED
        BY <2>1, <4>1, <4>2
    <3> QED
      BY <3>1, <3>2
  <2>6. Touches(f, g, R, {}) /\ IsTree(g) /\ Nodes(g) = Nodes(f)
    BY <1>9, <2>4, MovedIsLater DEF Touches, Moved
  <2>7. Touches(g, e, {n}, {}) /\ Nodes(e) = Nodes(g) \ {n}
    BY <1>13, <2>5, <2>6, RemovedIsLater DEF Touches
  <2> HIDE DEF e
  <2>8. Touches(d, f, R \cup {c, n}, {})
    BY <1>11, TouchesMore
  <2>9. Touches(f, g, R \cup {c, n}, {})
    BY <1>9, <2>6, TouchesMore
  <2>10. Touches(g, e, R \cup {c, n}, {})
    BY <2>6, <2>7, TouchesMore
  <2>11. Touches(d, e, R \cup {c, n}, {})
    BY <1>9, <2>6, <2>8, <2>9, <2>10, TouchesTwice
  <2>12. Touches(d, e, {n}, {n})
    BY <1>3, <2>1, <2>11 DEF Touches, Spares
  <2>13. c \in Nodes(e) \ {Page}
    BY <1>12, <1>13, <2>6, <2>7
  <2> QED
    BY <1>4, <1>14, <2>12, <2>13 DEF e, g
<1>15. CASE ~IsContainer(d, n)
  <2> DEFINE g == Gathered(f, c, 0, <<n>>)
  <2>1. <<n>> \in Seq(Nodes(f) \ {Page}) /\ ToSet(<<n>>) = {n}
    BY <1>13 DEF ToSet
  <2>2. {n} \cap Above(f, c) = {}
    BY <1>1, <1>12, <1>13
  <2>3. Moved(f, g, c, {n})
    <3> HIDE DEF c, f
    <3> QED
      BY <1>9, <1>12, <2>1, <2>2, Gathering
  <2> HIDE DEF g
  <2>4. Touches(f, g, {n}, {}) /\ Nodes(g) = Nodes(f)
    BY <1>9, <2>3, MovedIsLater DEF Touches, Moved
  <2>5. Touches(d, f, {c, n}, {}) /\ Touches(f, g, {c, n}, {})
    BY <1>9, <1>11, <2>4, TouchesMore
  <2>6. Touches(d, g, {c, n}, {})
    BY <2>5, TouchesTwice
  <2>7. Touches(d, g, {n}, {n})
    BY <1>3, <2>6, TouchesMore
  <2> QED
    BY <1>4, <1>12, <1>15, <2>4, <2>7 DEF g
<1> QED
  BY <1>14, <1>15

\* Nothing is done.
LEMMA Kept ==
  ASSUME NEW d, IsTree(d)
  PROVE  Touches(d, d, {}, {}) /\ Still(d, d)
BY Reflexive DEF Touches

\* createNodes()
LEMMA CreatingNode ==
  ASSUME NEW d, IsTree(d), NEW item, NEW text, CreateNode(d, item, text).ok
  PROVE  Touches(d, CreateNode(d, item, text).doc, {}, {})
<1> DEFINE p == IF item.parent = Absent THEN Page ELSE item.parent
           type == IF text = "" THEN "FRAME" ELSE "TEXT"
           e == Made(d, type, text)
           f == AppendChild(e, p, d.next)
<1>1. Takes(e, p, d.next) /\ CreateNode(d, item, text).doc = f
  BY DEF CreateNode, Outcome, Thrown
<1> HIDE DEF type
<1>2. IsTree(e) /\ d.next \in Nodes(e) \ {Page} /\ d.next \notin Nodes(d)
  BY Making
<1>3. Touches(d, e, {}, {})
  BY <1>2, MadeIsLater DEF Touches
<1> HIDE DEF p, e
<1>4. p \in Nodes(e) /\ d.next \notin Above(e, p)
  BY <1>1, MayInsertInto
<1>5. Len(e.kids[p]) \in Nat
  BY <1>2, <1>4 DEF IsTree
<1>6. Touches(e, f, {d.next}, {})
  BY <1>2, <1>4, <1>5, Inserting DEF AppendChild
<1>7. Touches(d, e, {d.next}, {})
  BY <1>3, TouchesMore
<1> HIDE DEF f
<1>8. Touches(d, f, {d.next}, {})
  BY <1>6, <1>7, TouchesTwice
<1> QED
  BY <1>1, <1>2, <1>8, TouchesMore

\* createComponents()
LEMMA CreatingComponent ==
  ASSUME NEW d, IsTree(d), NEW item, item.index \in Nat,
         item.node # Absent => item.node \in Nodes(d) \ {Page}, CreateComponent(d, item).ok
  PROVE  Touches(d, CreateComponent(d, item).doc, {item.node}, {item.node})
<1>1. CASE item.node = Absent
  <2>1. CreateComponent(d, item) = Placed(Made(d, "COMPONENT", ""), d.next, item)
    BY <1>1 DEF CreateComponent
  <2>2. Touches(d, CreateComponent(d, item).doc, {}, {})
    BY <2>1, PlacingMade
  <2> QED
    BY <2>2, TouchesMore
<1>2. CASE item.node # Absent
  <2> DEFINE n == item.node
             c == d.next
             f == Converted(d, n)
             g == Placed(f, c, item).doc
  <2>1. CreateComponent(d, item) = Placed(f, c, item)
    BY <1>2 DEF CreateComponent
  <2>2. Touches(d, f, {n}, {n}) /\ c \in Nodes(f) \ {Page}
    BY <1>2, Converting
  <2>3. c \notin Nodes(d)
    BY DEF IsTree
  <2> HIDE DEF c, f
  <2>4. Touches(f, g, {c}, {})
    BY <2>1, <2>2, Placing DEF Touches
  <2> HIDE DEF g
  <2>5. Touches(d, f, {n, c}, {n})
    BY <2>2, TouchesMore
  <2>6. Touches(f, g, {n, c}, {n})
    BY <2>2, <2>4, TouchesMore DEF Touches
  <2>7. Touches(d, g, {n, c}, {n})
    BY <2>5, <2>6, TouchesTwice
  <2>8. Touches(d, g, {n}, {n})
    BY <2>3, <2>7, TouchesMore
  <2> QED
    BY <2>1, <2>8 DEF g
<1> QED
  BY <1>1, <1>2

\* setProperties(), applyAutoLayout() and others: how a node looks.
LEMMA Decorating ==
  ASSUME NEW d, IsTree(d), NEW n, NEW look
  PROVE  Touches(d, [d EXCEPT !.look[n] = look], {n}, {})
<1> DEFINE e == [d EXCEPT !.look[n] = look]
<1>1. /\ DOMAIN e = DOMAIN d /\ e.type = d.type /\ e.kids = d.kids
      /\ e.at = d.at /\ e.next = d.next /\ e.text = d.text
      /\ e.look = [d.look EXCEPT ![n] = look]
  BY DEF IsTree
<1>2. DOMAIN d.look = Nodes(d) /\ DOMAIN d.text = Nodes(d)
  BY DEF IsTree
<1> HIDE DEF e
<1>3. DOMAIN e.look = Nodes(d) /\ \A m \in Nodes(d) \ {n} : e.look[m] = d.look[m] /\ e.text[m] = d.text[m]
  BY <1>1, <1>2
<1>4. IsTree(e) /\ Later(d, e) /\ Spares(d, e, {n}, {})
  BY <1>1, <1>2, <1>3, FieldsOnly
<1> QED
  BY <1>4 DEF Touches, e

\* The text of a node.
LEMMA Rewriting ==
  ASSUME NEW d, IsTree(d), NEW n, NEW text
  PROVE  Touches(d, [d EXCEPT !.text[n] = text], {n}, {})
<1> DEFINE e == [d EXCEPT !.text[n] = text]
<1>1. /\ DOMAIN e = DOMAIN d /\ e.type = d.type /\ e.kids = d.kids
      /\ e.at = d.at /\ e.next = d.next /\ e.look = d.look
      /\ e.text = [d.text EXCEPT ![n] = text]
  BY DEF IsTree
<1>2. DOMAIN d.look = Nodes(d) /\ DOMAIN d.text = Nodes(d)
  BY DEF IsTree
<1> HIDE DEF e
<1>3. DOMAIN e.text = Nodes(d) /\ \A m \in Nodes(d) \ {n} : e.look[m] = d.look[m] /\ e.text[m] = d.text[m]
  BY <1>1, <1>2
<1>4. IsTree(e) /\ Later(d, e) /\ Spares(d, e, {n}, {})
  BY <1>1, <1>2, <1>3, FieldsOnly
<1> QED
  BY <1>4 DEF Touches, e

\* updateNodes()
LEMMA Updating ==
  ASSUME NEW d, IsTree(d), NEW item, NEW text
  PROVE  Touches(d, UpdateNode(d, item, text).doc, {item.node}, {})
<1> DEFINE n == item.node
           e == [d EXCEPT !.look[n] = "updated"]
           f == [e EXCEPT !.text[n] = text]
<1>1. UpdateNode(d, item, text).doc = e \/ UpdateNode(d, item, text).doc = f
  BY DEF UpdateNode, Outcome, Thrown
<1>2. Touches(d, e, {n}, {})
  BY Decorating
<1> HIDE DEF e
<1>3. Touches(e, f, {n}, {})
  BY <1>2, Rewriting DEF Touches
<1> HIDE DEF f
<1>4. Touches(d, f, {n}, {})
  BY <1>2, <1>3, TouchesTwice
<1> QED
  BY <1>1, <1>2, <1>4

\* upsertDesignTokens(): tokens and styles are beside the tree.
LEMMA Tokening ==
  ASSUME NEW d, IsTree(d), NEW item, NEW before
  PROVE  Touches(d, UpsertToken(d, item, before).doc, {}, {})
<1> DEFINE e == [d EXCEPT !.tokens = IF item.name \in DOMAIN @ THEN @ ELSE With(@, item.name, item.type)]
           f == [e EXCEPT !.styles = Append(@, item.name)]
           Same(g) == DOMAIN g = DOMAIN d /\ g.type = d.type /\ g.kids = d.kids /\ g.at = d.at /\ g.next = d.next
                      /\ g.look = d.look /\ g.text = d.text
<1>1. UpsertToken(d, item, before).doc \in {d, e, f}
  BY DEF UpsertToken, Outcome, Thrown
<1>2. Same(d) /\ Same(e)
  BY DEF IsTree
<1>3. Same(f)
  <2> HIDE DEF e
  <2> QED
    BY <1>2 DEF IsTree
<1> HIDE DEF e, f
<1>4. DOMAIN d.look = Nodes(d) /\ DOMAIN d.text = Nodes(d)
  BY DEF IsTree
<1>5. \A g : Same(g) => Touches(d, g, {}, {})
  <2> TAKE g
  <2> HAVE Same(g)
  <2>1. IsTree(g) /\ Later(d, g) /\ Spares(d, g, {}, {})
    BY <1>4, FieldsOnly
  <2> QED
    BY <2>1 DEF Touches
<1> QED
  BY <1>1, <1>2, <1>3, <1>5

\* ungroupNodes()
LEMMA Ungrouping ==
  ASSUME NEW d, IsTree(d), NEW item, item.node \in Nodes(d) \ {Page}, UngroupNode(d, item).ok
  PROVE  LET e == UngroupNode(d, item).doc IN Touches(d, e, {item.node}, {item.node}) /\ Still(d, e)
<1> DEFINE e == Dissolved(d, item.node)
<1>1. UngroupNode(d, item).doc = e
  BY DEF UngroupNode, Outcome, Thrown
<1>2. IsTree(e) /\ Later(d, e) /\ Still(d, e) /\ Spares(d, e, {item.node}, {item.node})
  BY Dissolving
<1> QED
  BY <1>1, <1>2 DEF Touches

\* A new node beside others stays where it is made; what was there is not seen to move.
LEMMA Enclosing ==
  ASSUME NEW d, IsTree(d), NEW type, NEW text, NEW p \in Nodes(d), NEW index \in Nat
  PROVE  LET e == Made(d, type, text)
             f == Insert(e, p, index, d.next) IN
         /\ Touches(d, f, {}, {}) /\ Still(d, f)
         /\ d.next \in Nodes(f) \ {Page} /\ d.next \notin Nodes(d) /\ Nodes(d) \subseteq Nodes(f)
         /\ Above(f, d.next) \subseteq {d.next} \cup Above(e, p) /\ d.next \notin Above(e, p)
<1> DEFINE c == d.next
           e == Made(d, type, text)
           f == Insert(e, p, index, c)
<1>1. /\ IsTree(e) /\ Nodes(e) = Nodes(d) \cup {c} /\ c \notin Nodes(d)
      /\ \A m \in Nodes(d) : e.at[m] = d.at[m]
      /\ \A m \in Nodes(d) \ {Page} : Spared(d, e, m)
  BY Making
<1>2. c \in Nodes(e) \ {Page} /\ p \in Nodes(e) /\ c \notin Above(e, p)
  BY MadeBeside
<1>3. Touches(d, e, {}, {})
  BY <1>1, MadeIsLater DEF Touches
<1> HIDE DEF c, e
<1>4. PICK place \in Nat : f = InsertChild(e, p, place, c)
  BY <1>1, <1>2, InsertIsAt
<1>5. Touches(e, f, {c}, {})
  BY <1>1, <1>2, <1>4, Inserting
<1>6. /\ KidsOnly(e, f) /\ IsTree(f) /\ Nodes(f) = Nodes(e)
      /\ \A m \in Nodes(e) \ {Page} : ParentOf(f, m) = IF m = c THEN p ELSE ParentOf(e, m)
  BY <1>1, <1>2, <1>4, InsertedInTree
<1> HIDE DEF f
<1>7. Touches(d, e, {c}, {})
  BY <1>3, TouchesMore
<1>8. Touches(d, f, {c}, {})
  BY <1>5, <1>7, TouchesTwice
<1>9. Touches(d, f, {}, {})
  BY <1>1, <1>8, TouchesMore
<1>10. Still(d, f)
  <2>1. \A m \in Nodes(d) \ {Page} : ParentOf(f, m) = ParentOf(d, m) /\ ParentOf(f, m) \in Nodes(d)
    BY <1>1, <1>6, OneParent DEF Spared
  <2>2. \A m \in Nodes(d) : f.at[m] = d.at[m]
    BY <1>1, <1>6 DEF KidsOnly
  <2> QED
    BY <1>1, <1>6, <2>1, <2>2, NotMoved DEF Still
<1>11. Above(f, c) \subseteq {c} \cup Above(e, p)
  <2>1. \A m \in Above(e, p) \ {Page} : ParentOf(f, m) = ParentOf(e, m)
    BY <1>1, <1>2, <1>6, AboveUnfolds
  <2>2. Above(e, p) \subseteq Nodes(f)
    BY <1>1, <1>2, <1>6, AboveUnfolds
  <2>3. Above(f, p) \subseteq Above(e, p)
    BY <1>1, <1>2, <1>6, <2>1, <2>2, AboveUnmoved
  <2>4. Above(f, c) = {c} \cup Above(f, p)
    BY <1>2, <1>6, AboveUnfolds
  <2> QED
    BY <2>3, <2>4
<1> QED
  BY <1>1, <1>2, <1>6, <1>9, <1>10, <1>11 DEF c, e, f

\* createComponentSet() and groupNodes()
LEMMA Surrounding ==
  ASSUME NEW d, IsTree(d), NEW op, NEW n \in Nat \ {0}, DOMAIN op.items = 1 .. n,
         \A i \in 1 .. n : op.items[i].node \in Nodes(d) \ {Page},
         op.items[1].index \in Nat, NEW type, NEW p \in Nodes(d), Around(d, op, type, p).ok
  PROVE  LET e == Around(d, op, type, p).doc IN Touches(d, e, ToSet(NodesOf(op)), {}) /\ Still(d, e)
<1> DEFINE nodes == NodesOf(op)
           R == ToSet(nodes)
           index == op.items[1].index
           c == d.next
           text == ""
           e == Made(d, type, text)
           f == Insert(e, p, index, c)
           g == Gathered(f, c, Len(nodes), nodes)
<1>1. Around(d, op, type, p).doc = g /\ \A m \in R : Takes(e, p, m)
  BY DEF Around, Outcome, Thrown, MayInsert
<1>2. nodes \in Seq(Nodes(d) \ {Page}) /\ Len(nodes) \in Nat
  <2>1. DOMAIN nodes = 1 .. n /\ \A i \in 1 .. n : nodes[i] \in Nodes(d) \ {Page}
    BY DEF NodesOf
  <2>2. nodes \in [1 .. n -> Nodes(d) \ {Page}]
    BY <2>1 DEF NodesOf
  <2> QED
    BY <2>2
<1>3. R \subseteq Nodes(d) \ {Page}
  BY <1>2 DEF ToSet
<1>4. \A m \in R : m \notin Above(e, p)
  BY <1>1, MayInsertInto
<1> HIDE DEF nodes, index, text
<1>5. /\ Touches(d, f, {}, {}) /\ Still(d, f)
      /\ c \in Nodes(f) \ {Page} /\ c \notin Nodes(d) /\ Nodes(d) \subseteq Nodes(f)
      /\ Above(f, c) \subseteq {c} \cup Above(e, p)
  <2>1. index \in Nat
    BY DEF index
  <2> QED
    BY <2>1, Enclosing
<1> HIDE DEF c, e, f
<1>6. R \cap Above(f, c) = {}
  BY <1>3, <1>4, <1>5
<1>7. nodes \in Seq(Nodes(f) \ {Page})
  BY <1>2, <1>5, SeqMonotonic
<1>8. Moved(f, g, c, R)
  BY <1>2, <1>5, <1>6, <1>7, Gathering DEF Touches
<1> HIDE DEF g, R
<1>9. Touches(f, g, R, {}) /\ Still(f, g)
  BY <1>5, <1>8, MovedIsLater DEF Touches, Moved
<1>10. Touches(d, f, R, {})
  BY <1>5, TouchesMore
<1>11. Touches(d, g, R, {})
  BY <1>9, <1>10, TouchesTwice
<1>12. Still(d, g)
  BY <1>5, <1>9, Transitive DEF Touches
<1> QED
  BY <1>1, <1>11, <1>12 DEF R, nodes, text

\* reorderNodes()
LEMMA ReorderingNodes ==
  ASSUME NEW d, IsTree(d), NEW op, NEW n \in Nat, DOMAIN op.items = 1 .. n,
         op.items[1].parent \in Nodes(d), ReorderNodes(d, op).ok
  PROVE  LET e == ReorderNodes(d, op).doc IN Touches(d, e, {}, {}) /\ Still(d, e)
<1> DEFINE nodes == NodesOf(op)
           p == op.items[1].parent
           e == Reordered(d, p, nodes)
<1>1. ReorderNodes(d, op).doc = e /\ ToSet(nodes) \subseteq ToSet(d.kids[p])
  BY DEF ReorderNodes, Outcome, Thrown
<1>2. DOMAIN nodes = 1 .. n
  BY DEF NodesOf
<1> HIDE DEF nodes
<1>3. Moved(d, e, p, {})
  BY <1>1, <1>2, Reordering
<1> HIDE DEF e
<1>4. Later(d, e) /\ Still(d, e) /\ Spares(d, e, {}, {})
  BY <1>3, MovedIsLater
<1> QED
  BY <1>1, <1>3, <1>4 DEF Moved, Touches

\* The nodes that an item is about, if it is about any that is there already.
Aims(op, item) == IF op.kind \in TokenKinds \cup {"createNodes"} THEN {} ELSE {item.node}
Empties(op, item) == IF op.kind = "searchReplaceText" THEN {} ELSE Aims(op, item)

\* The kinds of operations that only move nodes.
MovingKinds == {"moveNodes", "reorderNodes", "groupNodes", "ungroupNodes"}

\* An item that moves nodes about, and none of them into a group.
Unseen(d, op, item) ==
  /\ op.kind \in MovingKinds
  /\ op.kind = "moveNodes" =>
       /\ item.parent \in 1 .. d.next - 1
       /\ item.parent \in Nodes(d) => d.type[item.parent] # "GROUP"

\* What an item does, if it is done to the end.
Affects(d, e, op, item) ==
  /\ Touches(d, e, Aims(op, item), Empties(op, item))
  /\ Unseen(d, op, item) => Still(d, e)

\* An item of any kind, once it is found to fit.
LEMMA DoingItem ==
  ASSUME NEW d, IsTree(d), NEW op, op.kind \in BatchKinds \ (WholeKinds \cup TokenKinds),
         NEW item, item.index \in Nat, Found(d, op.kind, item), ItemDone(d, op, item).ok
  PROVE  Affects(d, ItemDone(d, op, item).doc, op, item)
<1> DEFINE n == item.node
           e == ItemDone(d, op, item).doc
<1>1. CASE op.kind = "createComponents"
  <2>1. ItemDone(d, op, item) = CreateComponent(d, item) /\ (n # Absent => n \in Nodes(d) \ {Page})
    BY <1>1 DEF ItemDone, Found, Suits, IsScene
  <2>2. Touches(d, e, {n}, {n})
    BY <2>1, CreatingComponent
  <2> QED
    BY <1>1, <2>2 DEF Affects, Unseen, Aims, Empties, MovingKinds, TokenKinds
<1>2. CASE op.kind = "createInstances"
  <2>1. ItemDone(d, op, item) = CreateInstance(d, item)
    BY <1>2 DEF ItemDone
  <2>2. Touches(d, e, {}, {})
    BY <2>1, PlacingMade DEF CreateInstance
  <2>3. Touches(d, e, {n}, {n})
    BY <2>2, TouchesMore
  <2> QED
    BY <1>2, <2>3 DEF Affects, Unseen, Aims, Empties, MovingKinds, TokenKinds
<1>3. CASE op.kind \in {"setInstanceVariantProperties", "applyAutoLayout", "applyVisualProperties"}
  <2>1. PICK look : e = [d EXCEPT !.look[n] = look]
    BY <1>3 DEF ItemDone, SetProperties, ApplyAutoLayout, ApplyVisualProperties, Decorated, Outcome, Thrown
  <2>2. Touches(d, [d EXCEPT !.look[n] = look], {n}, {})
    BY Decorating
  <2>3. Touches(d, e, {n}, {})
    BY <2>1, <2>2
  <2>4. Touches(d, e, {n}, {n})
    BY <2>3, TouchesMore
  <2> QED
    BY <1>3, <2>4 DEF Affects, Unseen, Aims, Empties, MovingKinds, TokenKinds
<1>4. CASE op.kind = "duplicateNodes"
  <2>1. ItemDone(d, op, item) = DuplicateNode(d, item)
    BY <1>4 DEF ItemDone
  <2>2. Touches(d, e, {}, {})
    BY <2>1, Cloning
  <2>3. Touches(d, e, {n}, {n})
    BY <2>2, TouchesMore
  <2> QED
    BY <1>4, <2>3 DEF Affects, Unseen, Aims, Empties, MovingKinds, TokenKinds
<1>5. CASE op.kind = "moveNodes"
  <2>1. ItemDone(d, op, item) = MoveNode(d, item) /\ n \in Nodes(d) \ {Page} /\ item.parent \in Nodes(d)
    BY <1>5 DEF ItemDone, Found, Suits, IsScene, IsContainer
  <2>2. Touches(d, e, {n}, {}) /\ (d.type[item.parent] # "GROUP" => Still(d, e))
    BY <2>1, Moving DEF Touches
  <2>3. Touches(d, e, {n}, {n})
    BY <2>2, TouchesMore
  <2> QED
    BY <1>5, <2>1, <2>2, <2>3 DEF Affects, Unseen, Aims, Empties, TokenKinds
<1>6. CASE op.kind = "ungroupNodes"
  <2>1. ItemDone(d, op, item) = UngroupNode(d, item) /\ n \in Nodes(d) \ {Page}
    BY <1>6 DEF ItemDone, Found, Suits, IsScene
  <2>2. Touches(d, e, {n}, {n}) /\ Still(d, e)
    BY <2>1, Ungrouping
  <2> QED
    BY <1>6, <2>2 DEF Affects, Aims, Empties, TokenKinds
<1>7. CASE op.kind = "createNodes"
  <2>1. ItemDone(d, op, item) = CreateNode(d, item, op.text)
    BY <1>7 DEF ItemDone
  <2>2. Touches(d, e, {}, {})
    BY <2>1, CreatingNode
  <2> QED
    BY <1>7, <2>2 DEF Affects, Unseen, Aims, Empties, MovingKinds
<1>8. CASE op.kind = "updateNodes"
  <2>1. ItemDone(d, op, item) = UpdateNode(d, item, op.text)
    BY <1>8 DEF ItemDone
  <2>2. Touches(d, e, {n}, {})
    BY <2>1, Updating
  <2>3. Touches(d, e, {n}, {n})
    BY <2>2, TouchesMore
  <2> QED
    BY <1>8, <2>3 DEF Affects, Unseen, Aims, Empties, MovingKinds, TokenKinds
<1>9. CASE op.kind = "searchReplaceText"
  <2>1. e = [d EXCEPT !.text[n] = "replaced"]
    BY <1>9 DEF ItemDone, ReplaceText, Outcome
  <2>2. Touches(d, [d EXCEPT !.text[n] = "replaced"], {n}, {})
    BY Rewriting
  <2>3. Touches(d, e, {n}, {})
    BY <2>1, <2>2
  <2> QED
    BY <1>9, <2>3 DEF Affects, Unseen, Aims, Empties, MovingKinds, TokenKinds
<1> QED
  BY <1>1, <1>2, <1>3, <1>4, <1>5, <1>6, <1>7, <1>8, <1>9 DEF BatchKinds, WholeKinds, TokenKinds

\* An item of any kind, if it does not fail.
LEMMA TryingItem ==
  ASSUME NEW d, IsTree(d), NEW op, op.kind \in BatchKinds \ WholeKinds,
         NEW item, op.kind \notin TokenKinds => item.index \in Nat, NEW before, ItemTried(d, op, item, before).ok
  PROVE  Affects(d, ItemTried(d, op, item, before).doc, op, item)
<1>1. CASE op.kind \in TokenKinds
  <2>1. ItemTried(d, op, item, before) = UpsertToken(d, item, before)
    BY <1>1 DEF ItemTried, TokenKinds, BatchKinds
  <2>2. Touches(d, ItemTried(d, op, item, before).doc, {}, {})
    BY <2>1, Tokening
  <2> QED
    BY <1>1, <2>2 DEF Affects, Unseen, Aims, Empties, MovingKinds, TokenKinds
<1>2. CASE op.kind \notin TokenKinds
  <2>1. ItemTried(d, op, item, before) = IF Found(d, op.kind, item) THEN ItemDone(d, op, item) ELSE Thrown(d)
    BY <1>2 DEF ItemTried, TokenKinds, BatchKinds
  <2>2. ~Thrown(d).ok
    BY DEF Thrown, Outcome
  <2>3. Found(d, op.kind, item) /\ ItemTried(d, op, item, before) = ItemDone(d, op, item)
    BY <2>1, <2>2
  <2> QED
    BY <1>2, <2>3, DoingItem
<1> QED
  BY <1>1, <1>2

\* There are finitely many nodes.
LEMMA NodesAreFinite ==
  ASSUME NEW d, IsTree(d)
  PROVE  IsFiniteSet(Nodes(d))
<1>1. d.next - 1 \in Int /\ Nodes(d) \in SUBSET (1 .. d.next - 1)
  BY DEF IsTree
<1>2. IsFiniteSet(1 .. d.next - 1)
  BY <1>1, FS_Interval
<1> QED
  BY <1>1, <1>2, FS_Subset

\* The members of a finite set, one after another.
LEMMA Listing ==
  ASSUME NEW T, IsFiniteSet(T)
  PROVE  \E n \in Nat : SetToSeq(T) \in [1 .. n -> T]
<1> DEFINE n == Cardinality(T)
           F == {g \in [1 .. n -> T] : IsInjective(g)}
<1>1. n \in Nat /\ ExistsBijection(1 .. n, T)
  BY FS_CardinalityType
<1>2. F # {}
  BY <1>1 DEF ExistsBijection, Bijection, Injection
<1>3. SetToSeq(T) \in [1 .. n -> T]
  BY <1>2 DEF SetToSeq
<1> HIDE DEF n
<1> QED
  BY <1>1, <1>3

\* One group goes, unless it went with another.
Without(d, g) == IF g \in Nodes(d) THEN Removed(d, g) ELSE d

\* One after another of these goes.
Thinned(d, nodes) == FoldLeft(LAMBDA e, g : IF g \in Nodes(e) THEN Removed(e, g) ELSE e, d, nodes)

\* The stages of Tidied().
Tidies(h, d, nodes, n) ==
  /\ h[0] = d /\ h[n] = Thinned(d, nodes)
  /\ \A i \in 1 .. n : h[i] = Without(h[i - 1], nodes[i])

LEMMA TidiedStages ==
  ASSUME NEW d, NEW nodes, NEW n \in Nat, DOMAIN nodes = 1 .. n
  PROVE  \E h : Tidies(h, d, nodes, n)
<1> DEFINE how == [fold |-> "tidied"]
           U(g) == g = [s \in SUBSET DOMAIN nodes |->
                          IF s = {} THEN d ELSE Without(g[s \ {Max(s)}], nodes[Max(s)])]
           g == CHOOSE f : U(f)
<1>1. \A x, y : Stepped(how, x, y) = Without(x, y)
  BY DEF Stepped, Without
<1>2. Thinned(d, nodes) = g[DOMAIN nodes]
  BY DEF Thinned, FoldLeft, MapThenFoldSet, Without
<1> HIDE DEF how
<1>3. \A f : Unrolled(how, d, nodes, n, f) <=> U(f)
  BY <1>1 DEF Unrolled
<1>4. Unrolled(how, d, nodes, n, g)
  <2> HIDE DEF U
  <2> QED
    BY <1>3, FoldExists
<1> HIDE DEF g, U
<1>5. PICK h : Staged(how, d, nodes, n, g[1 .. n], h)
  BY <1>4, FoldStages
<1>6. Tidies(h, d, nodes, n)
  BY <1>1, <1>2, <1>5 DEF Staged, Tidies
<1> QED
  BY <1>6

\* The same document but for some groups, which are gone.
Pruned(d, e) ==
  /\ IsTree(e) /\ Nodes(e) \subseteq Nodes(d) /\ e.next = d.next
  /\ \A m \in Nodes(e) : e.at[m] = d.at[m] /\ e.type[m] = d.type[m]
  /\ \A m \in Nodes(e) \ {Page} : Spared(d, e, m)
  /\ \A m \in Nodes(d) \ Nodes(e) : d.type[m] = "GROUP"

\* What is below a node of which nothing but groups was below is a group.
LEMMA PruningOne ==
  ASSUME NEW d, IsTree(d), NEW e, Pruned(d, e), NEW g \in Emptied(d), g \in Nodes(e)
  PROVE  Pruned(d, Removed(e, g))
<1> DEFINE f == Removed(e, g)
<1>1. IsTree(e) /\ g \in Nodes(e) \ {Page} /\ Nodes(e) \subseteq Nodes(d)
  BY DEF Emptied, Pruned
<1>2. /\ IsTree(f) /\ Nodes(f) = Nodes(e) \ Below(e, g) /\ f.next = e.next
      /\ \A m \in Nodes(f) : f.at[m] = e.at[m] /\ f.type[m] = e.type[m]
      /\ \A m \in Nodes(f) \ {Page} : Spared(e, f, m)
  BY <1>1, Removing
<1> HIDE DEF f
<1>3. ASSUME NEW m \in Below(e, g) PROVE d.type[m] = "GROUP"
  <2>1. m \in Nodes(e) /\ m \in Nodes(d) /\ g \in Above(e, m)
    BY <1>1 DEF Below
  <2> DEFINE B == Above(d, m) \cap Nodes(e)
  <2>2. m \in B
    BY <2>1, AboveIsClosed
  <2>3. \A k \in B \ {Page} : ParentOf(e, k) \in B
    <3> TAKE k \in B \ {Page}
    <3>1. ParentOf(e, k) = ParentOf(d, k) /\ ParentOf(e, k) \in Nodes(e)
      BY <1>1, OneParent DEF Pruned, Spared
    <3> QED
      BY <2>1, <3>1, AboveIsClosed
  <2>4. Above(e, m) \subseteq B
    <3> HIDE DEF B
    <3>1. B \subseteq Nodes(e)
      BY DEF B
    <3> QED
      BY <1>1, <2>2, <2>3, <3>1, AboveWithin
  <2>5. m \in Below(d, g)
    BY <2>1, <2>4 DEF Below
  <2> QED
    BY <2>5 DEF Emptied
<1>4. \A m \in Nodes(f) \ {Page} : Spared(d, f, m)
  BY <1>2 DEF Pruned, Spared
<1>5. \A m \in Nodes(d) \ Nodes(f) : d.type[m] = "GROUP"
  BY <1>2, <1>3 DEF Pruned
<1>6. /\ Nodes(f) \subseteq Nodes(d) /\ f.next = d.next
      /\ \A m \in Nodes(f) : f.at[m] = d.at[m] /\ f.type[m] = d.type[m]
  BY <1>1, <1>2 DEF Pruned
<1> QED
  BY <1>2, <1>4, <1>5, <1>6 DEF Pruned, f

\* A node stays as it is, or is a group that is gone.
Remains(d, e, m) == Spared(d, e, m) \/ (m \notin Nodes(e) /\ d.type[m] = "GROUP")

\* Only the nodes of M are touched, the children of those of K, and groups.
Leaves(d, e, M, K) == \A m \in Nodes(d) \ {Page} : m \notin M /\ ParentOf(d, m) \notin K => Remains(d, e, m)

\* Groups that are left empty go, and nothing else does or is seen to move.
LEMMA Tidying ==
  ASSUME NEW d, IsTree(d)
  PROVE  LET e == Tidied(d) IN IsTree(e) /\ Later(d, e) /\ Still(d, e) /\ Leaves(d, e, {}, {})
<1> DEFINE B == Emptied(d)
           nodes == SetToSeq(B)
           e == Tidied(d)
<1>1. IsFiniteSet(B)
  BY NodesAreFinite, FS_Subset DEF Emptied
<1>2. PICK n \in Nat : nodes \in [1 .. n -> B]
  <2> HIDE DEF B
  <2> QED
    BY <1>1, Listing
<1>3. PICK h : Tidies(h, d, nodes, n)
  BY <1>2, TidiedStages
<1> DEFINE T == {i \in 0 .. n : Pruned(d, h[i])}
<1>4. e = Thinned(d, nodes)
  BY DEF Tidied, Thinned, FoldLeft, MapThenFoldSet
<1> HIDE DEF B, nodes, e
<1>5. 0 \in T
  <2>1. Pruned(d, d)
    BY DEF Pruned, Spared
  <2> QED
    BY <1>3, <2>1 DEF Tidies
<1>6. ASSUME NEW i \in 1 .. n, i - 1 \in T PROVE i \in T
  <2>1. Pruned(d, h[i - 1]) /\ nodes[i] \in B
    BY <1>2, <1>6
  <2>2. h[i] = Without(h[i - 1], nodes[i])
    BY <1>3 DEF Tidies
  <2>3. Pruned(d, h[i])
    BY <2>1, <2>2, PruningOne DEF B, Without
  <2> QED
    BY <2>3
<1>7. n \in T
  <2> HIDE DEF T
  <2>1. \A i \in 0 .. n : i \in T
    BY <1>5, <1>6, UpTo
  <2> QED
    BY <2>1
<1>8. Pruned(d, e)
  BY <1>3, <1>7, <1>4 DEF Tidies
<1>9. Later(d, e)
  <2>1. d.next \in Nat
    BY DEF IsTree
  <2> QED
    BY <1>8, <2>1 DEF Later, Pruned
<1>10. Still(d, e)
  <2>1. IsTree(e) /\ \A m \in Nodes(e) \ {Page} : ParentOf(e, m) = ParentOf(d, m) /\ ParentOf(e, m) \in Nodes(e)
    BY <1>8, OneParent DEF Pruned, Spared
  <2> QED
    BY <1>8, <2>1, NotMoved DEF Still, Pruned
<1>11. Leaves(d, e, {}, {})
  BY <1>8 DEF Leaves, Remains, Pruned
<1> QED
  BY <1>8, <1>9, <1>10, <1>11 DEF Pruned, e

\* What is done, and the groups that go with it.
Results(d, e, M, K) == IsTree(e) /\ Later(d, e) /\ Leaves(d, e, M, K)

\* One result after another.
LEMMA ResultsTwice ==
  ASSUME NEW d, IsTree(d), NEW e, NEW f, NEW M, NEW K, Results(d, e, M, K), Results(e, f, M, K)
  PROVE  Results(d, f, M, K)
<1>1. IsTree(e) /\ IsTree(f) /\ Later(d, f)
  BY Transitive DEF Results
<1>2. ASSUME NEW m \in Nodes(d) \ {Page}, m \notin M, ParentOf(d, m) \notin K PROVE Remains(d, f, m)
  <2>1. Remains(d, e, m)
    BY <1>2 DEF Results, Leaves
  <2>2. CASE Spared(d, e, m)
    <3>1. m \in Nodes(e) \ {Page} /\ ParentOf(e, m) \notin K /\ e.type[m] = d.type[m]
      BY <1>2, <2>2 DEF Spared
    <3>2. Remains(e, f, m)
      BY <1>2, <3>1 DEF Results, Leaves
    <3> QED
      BY <2>2, <3>1, <3>2 DEF Remains, Spared
  <2>3. CASE m \notin Nodes(e) /\ d.type[m] = "GROUP"
    <3>1. m < d.next /\ d.next <= e.next /\ m \in Nat /\ d.next \in Nat /\ e.next \in Nat
      BY <1>1 DEF IsTree, Results, Later
    <3>2. m \notin Nodes(f)
      BY <2>3, <3>1 DEF Results, Later
    <3> QED
      BY <2>3, <3>2 DEF Remains
  <2> QED
    BY <2>1, <2>2, <2>3 DEF Remains
<1> QED
  BY <1>1, <1>2 DEF Results, Leaves

\* What is done, and then tidied.
LEMMA Completing ==
  ASSUME NEW d, IsTree(d), NEW e, NEW M, NEW K, Touches(d, e, M, K)
  PROVE  Results(d, Tidied(e), M, K) /\ (Still(d, e) => Still(d, Tidied(e)))
<1>1. IsTree(e) /\ Later(d, e) /\ Results(d, e, M, K)
  BY DEF Touches, Spares, Results, Leaves, Remains
<1>2. /\ IsTree(Tidied(e)) /\ Later(e, Tidied(e)) /\ Still(e, Tidied(e)) /\ Leaves(e, Tidied(e), {}, {})
  BY <1>1, Tidying
<1>3. Results(e, Tidied(e), M, K)
  BY <1>2 DEF Results, Leaves
<1> QED
  BY <1>1, <1>2, <1>3, ResultsTwice, Transitive

\* An operation that moves nodes about, and none of them into a group.
AllUnseen(d, op, items) == op.kind \in MovingKinds /\ \A i \in DOMAIN items : Unseen(d, op, items[i])

\* It is so whatever is done before: groups are not made of other nodes.
LEMMA UnseenOn ==
  ASSUME NEW d, IsTree(d), NEW e, IsTree(e), Later(d, e), NEW op, NEW item, Unseen(d, op, item)
  PROVE  Unseen(e, op, item)
<1>1. d.next \in Nat /\ e.next \in Nat /\ d.next <= e.next
  BY DEF IsTree, Later
<1> SUFFICES ASSUME op.kind = "moveNodes"
             PROVE  /\ item.parent \in 1 .. e.next - 1
                    /\ item.parent \in Nodes(e) => e.type[item.parent] # "GROUP"
  BY DEF Unseen
<1>2. item.parent \in 1 .. d.next - 1 /\ (item.parent \in Nodes(d) => d.type[item.parent] # "GROUP")
  BY DEF Unseen
<1>3. ~(item.parent >= d.next) /\ item.parent \in 1 .. e.next - 1
  BY <1>1, <1>2
<1> QED
  BY <1>2, <1>3 DEF Later

\* The items of an operation, one after another.
LEMMA DoingItems ==
  ASSUME NEW d, IsTree(d), NEW op, op.kind \in BatchKinds \ WholeKinds,
         NEW n \in Nat, NEW items, DOMAIN items = 1 .. n,
         op.kind \notin TokenKinds => \A i \in 1 .. n : items[i].index \in Nat,
         NEW M, NEW K, \A i \in 1 .. n : Aims(op, items[i]) \subseteq M /\ Empties(op, items[i]) \subseteq K,
         ItemsDone(d, op, items).ok
  PROVE  LET e == ItemsDone(d, op, items).doc IN Results(d, e, M, K) /\ (AllUnseen(d, op, items) => Still(d, e))
<1> DEFINE Fine(e) == Results(d, e, M, K) /\ (AllUnseen(d, op, items) => Still(d, e))
           Good(s) == s.ok => Fine(s.doc)
<1>1. PICK h : DoesItems(h, d, op, items, n)
  BY ItemsStages
<1>2. h[0] = Outcome(d, <<>>, TRUE) /\ h[n] = ItemsDone(d, op, items)
  BY <1>1 DEF DoesItems
<1>3. \A i \in 1 .. n : h[i] = OneMore(h[i - 1], op, items[i], d)
  BY <1>1 DEF DoesItems
<1>4. Good(h[0])
  <2>1. h[0].doc = d
    BY <1>2 DEF Outcome
  <2>2. Touches(d, d, {}, {}) /\ Still(d, d)
    BY Kept
  <2>3. Results(d, d, M, K)
    BY <2>2 DEF Touches, Spares, Results, Leaves, Remains
  <2> QED
    BY <2>1, <2>2, <2>3
<1>5. \A s : \A i \in 1 .. n : Good(s) => Good(OneMore(s, op, items[i], d))
  <2> SUFFICES ASSUME NEW s, NEW i \in 1 .. n, Good(s), OneMore(s, op, items[i], d).ok
      PROVE  Fine(OneMore(s, op, items[i], d).doc)
    OBVIOUS
  <2> DEFINE item == items[i]
             r == ItemTried(s.doc, op, item, d)
             A == Aims(op, item)
             B == Empties(op, item)
  <2>1. s.ok /\ r.ok /\ OneMore(s, op, item, d).doc = Tidied(r.doc)
    BY DEF OneMore, Outcome
  <2>2. Results(d, s.doc, M, K) /\ (AllUnseen(d, op, items) => Still(d, s.doc))
    BY <2>1
  <2>3. IsTree(s.doc) /\ Later(d, s.doc)
    BY <2>2 DEF Results
  <2>4. op.kind \notin TokenKinds => item.index \in Nat
    OBVIOUS
  <2>5. A \subseteq M /\ B \subseteq K
    OBVIOUS
  <2>6. AllUnseen(d, op, items) => Unseen(d, op, item)
    BY DEF AllUnseen
  <2> HIDE DEF item
  <2>7. Affects(s.doc, r.doc, op, item)
    BY <2>1, <2>3, <2>4, TryingItem
  <2>8. Touches(s.doc, r.doc, A, B) /\ (Unseen(s.doc, op, item) => Still(s.doc, r.doc))
    BY <2>7 DEF Affects
  <2>9. AllUnseen(d, op, items) => Still(s.doc, r.doc)
    BY <2>3, <2>6, <2>8, UnseenOn
  <2> HIDE DEF A, B, r, Good
  <2>10. Touches(s.doc, r.doc, M, K)
    BY <2>3, <2>5, <2>8, TouchesMore
  <2>11. Results(s.doc, Tidied(r.doc), M, K) /\ (AllUnseen(d, op, items) => Still(s.doc, Tidied(r.doc)))
    BY <2>3, <2>9, <2>10, Completing
  <2>12. Results(d, Tidied(r.doc), M, K)
    BY <2>2, <2>11, ResultsTwice
  <2>13. AllUnseen(d, op, items) => Still(d, Tidied(r.doc))
    BY <2>2, <2>3, <2>11, Transitive DEF Results
  <2> QED
    BY <2>1, <2>12, <2>13 DEF item
<1> DEFINE T == {i \in 0 .. n : Good(h[i])}
<1> HIDE DEF Good, Fine
<1>6. 0 \in T
  BY <1>4
<1>7. \A i \in 1 .. n : i - 1 \in T => i \in T
  <2> SUFFICES ASSUME NEW i \in 1 .. n, i - 1 \in T PROVE Good(h[i])
    OBVIOUS
  <2>1. Good(h[i - 1])
    OBVIOUS
  <2> QED
    BY <1>3, <1>5, <2>1
<1> HIDE DEF T
<1>8. n \in T
  BY <1>6, <1>7, UpTo
<1>9. Good(h[n])
  BY <1>8 DEF T
<1> QED
  BY <1>2, <1>9 DEF Good, Fine

\* The items of a search are the matches, each of them once.
LEMMA SearchedItems ==
  ASSUME NEW d, IsTree(d), NEW op, op.kind = "searchReplaceText"
  PROVE  \E n \in Nat : DOMAIN Items(d, op) = 1 .. n
                        /\ \A i \in 1 .. n : \E m \in Matches(d, op.text) : Items(d, op)[i] = Target(m)
<1> DEFINE B == Matches(d, op.text)
           T == {Target(m) : m \in B}
           f == [m \in B |-> Target(m)]
<1>1. IsFiniteSet(B)
  BY NodesAreFinite, FS_Subset DEF Matches
<1>2. f \in Surjection(B, T)
  BY DEF Surjection
<1> HIDE DEF f
<1>3. IsFiniteSet(T)
  BY <1>1, <1>2, FS_Surjection
<1>4. Items(d, op) = SetToSeq(T)
  BY DEF Items
<1>5. PICK n \in Nat : SetToSeq(T) \in [1 .. n -> T]
  <2> HIDE DEF T
  <2> QED
    BY <1>3, Listing
<1> QED
  BY <1>4, <1>5

\* An operation of a batch, when its references are resolved.
Given(op) ==
  /\ op.kind \in BatchKinds
  /\ \E n \in Nat :
       /\ DOMAIN op.items = 1 .. n
       /\ op.kind \in WholeKinds => n # 0
       /\ op.kind \notin TokenKinds => \A i \in 1 .. n : op.items[i].index \in Nat

\* The nodes that an operation is about, and those whose children it may move.
Reaches(d, op) ==
  IF op.kind = "searchReplaceText" THEN Matches(d, op.text) ELSE UNION {Aims(op, op.items[i]) : i \in DOMAIN op.items}

Enters(d, op) == IF op.kind = "searchReplaceText" THEN {} ELSE Reaches(d, op)

\* createComponentSet(), groupNodes() and reorderNodes() take all their nodes at once.
LEMMA TryingWhole ==
  ASSUME NEW d, IsTree(d), NEW op, Given(op), op.kind \in WholeKinds, WholeTried(d, op).ok
  PROVE  LET e == WholeTried(d, op).doc IN Touches(d, e, Reaches(d, op), Enters(d, op)) /\ Still(d, e)
<1> DEFINE R == ToSet(NodesOf(op))
           first == op.items[1]
           e == WholeTried(d, op).doc
<1>1. PICK n \in Nat \ {0} : DOMAIN op.items = 1 .. n /\ \A i \in 1 .. n : op.items[i].index \in Nat
  BY DEF Given, WholeKinds, TokenKinds
<1>2. \A i \in 1 .. n : Found(d, op.kind, op.items[i])
  BY <1>1 DEF WholeTried, Thrown, Outcome
<1>3. /\ WholeTried(d, op) = CASE op.kind = "createComponentSet" -> CreateComponentSet(d, op)
                              [] op.kind = "groupNodes" -> GroupNodes(d, op)
                              [] op.kind = "reorderNodes" -> ReorderNodes(d, op)
  BY <1>1, <1>2 DEF WholeTried
<1>4. Reaches(d, op) = R /\ Enters(d, op) = R
  BY <1>1 DEF Reaches, Enters, Aims, NodesOf, ToSet, WholeKinds, TokenKinds
<1>5. \A i \in 1 .. n : op.items[i].node \in Nodes(d) \ {Page}
  BY <1>2 DEF Found, Suits, IsScene, WholeKinds
<1>6. 1 \in 1 .. n /\ first.index \in Nat /\ first.node \in Nodes(d) \ {Page}
  BY <1>1, <1>5
<1>7. first.parent # Absent \/ op.kind = "reorderNodes" => first.parent \in Nodes(d)
  BY <1>2, <1>6 DEF Found, IsContainer
<1>8. CASE op.kind \in {"createComponentSet", "groupNodes"}
  <2>1. PICK type, p : p \in Nodes(d) /\ WholeTried(d, op) = Around(d, op, type, p)
    <3>1. CASE op.kind = "createComponentSet"
      <4> DEFINE p == IF first.parent = Absent THEN Page ELSE first.parent
      <4>1. p \in Nodes(d)
        BY <1>7 DEF IsTree
      <4>2. WholeTried(d, op) = Around(d, op, "COMPONENT_SET", p)
        BY <1>3, <3>1 DEF CreateComponentSet
      <4> HIDE DEF p
      <4> QED
        BY <4>1, <4>2
    <3>2. CASE op.kind = "groupNodes"
      <4> DEFINE p == IF first.parent = Absent THEN ParentOf(d, first.node) ELSE first.parent
      <4>1. p \in Nodes(d)
        BY <1>6, <1>7, OneParent
      <4>2. WholeTried(d, op) = Around(d, op, "GROUP", p)
        BY <1>3, <3>2 DEF GroupNodes
      <4> HIDE DEF p
      <4> QED
        BY <4>1, <4>2
    <3> QED
      BY <1>8, <3>1, <3>2
  <2>2. Touches(d, e, R, {}) /\ Still(d, e)
    BY <1>1, <1>5, <1>6, <2>1, Surrounding
  <2> HIDE DEF R, e
  <2>3. Touches(d, e, R, R)
    BY <2>2, TouchesMore
  <2> QED
    BY <1>4, <2>2, <2>3 DEF e
<1>9. CASE op.kind = "reorderNodes"
  <2>1. WholeTried(d, op) = ReorderNodes(d, op)
    BY <1>3, <1>9
  <2>2. Touches(d, e, {}, {}) /\ Still(d, e)
    BY <1>1, <1>7, <1>9, <2>1, ReorderingNodes
  <2> HIDE DEF R, e
  <2>3. Touches(d, e, R, R)
    BY <2>2, TouchesMore
  <2> QED
    BY <1>4, <2>2, <2>3 DEF e
<1> QED
  BY <1>8, <1>9 DEF WholeKinds

\* The whole of them, and the groups that go.
LEMMA DoingWhole ==
  ASSUME NEW d, IsTree(d), NEW op, Given(op), op.kind \in WholeKinds, WholeDone(d, op).ok
  PROVE  LET e == WholeDone(d, op).doc IN Results(d, e, Reaches(d, op), Enters(d, op)) /\ Still(d, e)
<1> DEFINE r == WholeTried(d, op)
<1>1. DOMAIN r = {"doc", "out", "ok"}
  BY DEF WholeTried, WholeKinds, CreateComponentSet, GroupNodes, ReorderNodes, Around, Thrown, Outcome
<1>2. WholeDone(d, op) = [r EXCEPT !.doc = Tidied(@)]
  BY DEF WholeDone
<1> HIDE DEF r
<1>3. r.ok /\ WholeDone(d, op).doc = Tidied(r.doc)
  BY <1>1, <1>2
<1>4. Touches(d, r.doc, Reaches(d, op), Enters(d, op)) /\ Still(d, r.doc)
  BY <1>3, TryingWhole DEF r
<1> QED
  BY <1>3, <1>4, Completing

\* An operation of a batch that is done to the end.
LEMMA Doing ==
  ASSUME NEW d, IsTree(d), NEW op, Given(op), Done(d, op).ok
  PROVE  LET e == Done(d, op).doc IN
         Results(d, e, Reaches(d, op), Enters(d, op)) /\ (AllUnseen(d, op, op.items) => Still(d, e))
<1>1. CASE op.kind \in WholeKinds
  <2>1. Done(d, op) = WholeDone(d, op)
    BY <1>1 DEF Done, WholeKinds
  <2> QED
    BY <1>1, <2>1, DoingWhole
<1>2. CASE op.kind \notin WholeKinds
  <2> DEFINE items == Items(d, op)
             M == Reaches(d, op)
             K == Enters(d, op)
  <2>1. Done(d, op) = ItemsDone(d, op, items) /\ op.kind \in BatchKinds \ WholeKinds
    BY <1>2 DEF Done, Given, BatchKinds
  <2>2. PICK n \in Nat : /\ DOMAIN items = 1 .. n
                         /\ op.kind \notin TokenKinds => \A i \in 1 .. n : items[i].index \in Nat
                         /\ \A i \in 1 .. n : Aims(op, items[i]) \subseteq M /\ Empties(op, items[i]) \subseteq K
    <3>1. CASE op.kind = "searchReplaceText"
      <4>1. PICK n \in Nat : DOMAIN items = 1 .. n
                             /\ \A i \in 1 .. n : \E m \in Matches(d, op.text) : items[i] = Target(m)
        BY <3>1, SearchedItems
      <4> HIDE DEF items
      <4>2. M = Matches(d, op.text)
        BY <3>1 DEF Reaches
      <4>3. \A m \in Matches(d, op.text) :
              Target(m).index \in Nat /\ Aims(op, Target(m)) = {m} /\ Empties(op, Target(m)) = {}
        BY <3>1 DEF Target, Absent, Aims, Empties, TokenKinds
      <4> HIDE DEF M, K
      <4> QED
        BY <4>1, <4>2, <4>3
    <3>2. CASE op.kind # "searchReplaceText"
      <4>1. items = op.items /\ K = M
        BY <3>2 DEF Items, Enters
      <4>2. PICK n \in Nat : DOMAIN op.items = 1 .. n
                             /\ (op.kind \notin TokenKinds => \A i \in 1 .. n : op.items[i].index \in Nat)
        BY DEF Given
      <4>3. \A i \in 1 .. n : Aims(op, op.items[i]) \subseteq M
        BY <3>2, <4>2 DEF Reaches
      <4>4. \A i \in 1 .. n : Empties(op, op.items[i]) = Aims(op, op.items[i])
        BY <3>2 DEF Empties
      <4> HIDE DEF items, M, K
      <4> QED
        BY <4>1, <4>2, <4>3, <4>4
    <3> QED
      BY <3>1, <3>2
  <2> HIDE DEF items, M, K
  <2>3. AllUnseen(d, op, op.items) => AllUnseen(d, op, items)
    BY DEF AllUnseen, MovingKinds, Items, items
  <2>4. /\ Results(d, ItemsDone(d, op, items).doc, M, K)
        /\ AllUnseen(d, op, items) => Still(d, ItemsDone(d, op, items).doc)
    BY <2>1, <2>2, DoingItems
  <2> QED
    BY <2>1, <2>3, <2>4 DEF M, K
<1> QED
  BY <1>1, <1>2

-----------------------------------------------------------------------------
(* A command from its plan to its end *)

\* Commands other than a batch find the nodes they were given, whatever was done.
LEMMA Dispatching ==
  ASSUME NEW c \in Commands, c.name # "batch.execute"
  PROVE  /\ ~RefersBack(c.ops[1])
         /\ \A i \in DOMAIN c.ops : i = 1
         /\ c.name \in Transactional => c.ops[1].kind # "searchReplaceText"
         /\ c.name \in {"nodes.create", "nodes.update"} => c.ops[1].kind \notin TokenKinds
<1>1. DOMAIN c.ops = {1} /\ <<c.name, c.ops[1].kind>> \in Dispatched /\ ~RefersBack(c.ops[1])
  BY CommandsAssumption
<1> QED
  BY <1>1 DEF Dispatched, Transactional, TokenKinds

\* The document the command found is the one it goes back to.
ReturnsTo ==
  /\ at = "idle" => doc = Document /\ committed = Document
  /\ at = "running" /\ cmd.name \in Transactional => committed = Document
  /\ TransactionsAreAtomic

\* Every named operation that was done has its result, and every reference that
\* is still to come was checked to be to one that comes before it.
ResultsAreThere ==
  /\ step \in Nat \ {0}
  /\ at = "idle" => step = 1
  /\ at = "running" =>
       /\ \A i \in DOMAIN cmd.ops : ReferencesEarlier(cmd.ops, i)
       /\ \A j \in 1 .. step - 1 : cmd.ops[j].id # "" => cmd.ops[j].id \in DOMAIN results
  /\ ReferencesAreAvailable

\* Nodes are created and updated only after all of them were found to fit.
FitsBefore ==
  /\ at = "running" /\ cmd.name \in {"nodes.create", "nodes.update"} =>
       Plannable(Document, Resolved(cmd.ops[1]))
  /\ RefusedBeforeTheFirst

CommandInv ==
  /\ at = "idle" => cmd = NoCommand
  /\ at # "idle" => cmd \in Commands
  /\ ReturnsTo /\ ResultsAreThere /\ FitsBefore

LEMMA InitCommand == CommandInit => CommandInv
<1> SUFFICES ASSUME CommandInit PROVE CommandInv
  OBVIOUS
<1>1. at = "idle" /\ cmd = NoCommand /\ doc = Document /\ committed = Document /\ step = 1 /\ why = ""
  BY DEF CommandInit
<1>2. ReturnsTo
  BY <1>1 DEF ReturnsTo, TransactionsAreAtomic
<1>3. ResultsAreThere
  <2>1. ReferencesAreAvailable
    BY <1>1 DEF ReferencesAreAvailable
  <2>2. at = "idle" /\ step = 1
    BY <1>1
  <2> QED
    BY <2>1, <2>2 DEF ResultsAreThere
<1>4. FitsBefore
  BY <1>1 DEF FitsBefore, RefusedBeforeTheFirst
<1> QED
  BY <1>1, <1>2, <1>3, <1>4 DEF CommandInv

\* What an operation without references is about does not depend on any result.
LEMMA ResolvedAlike ==
  ASSUME NEW op, ~RefersBack(op), op.kind \notin TokenKinds
  PROVE  Resolved(op)' = Resolved(op)
<1>1. \A i \in DOMAIN op.items : op.items[i].node.step = "" /\ op.items[i].parent.step = ""
  <2> SUFFICES ASSUME NEW i \in DOMAIN op.items
               PROVE  op.items[i].node.step = "" /\ op.items[i].parent.step = ""
    OBVIOUS
  <2>1. PICK item : item = op.items[i]
    OBVIOUS
  <2>2. item \in ToSet(op.items)
    BY <2>1 DEF ToSet
  <2>3. \A r \in {item.node, item.parent} : r \in UNION {{o.node, o.parent} : o \in ToSet(op.items)}
    BY <2>2
  <2>4. References(op) = {}
    BY DEF RefersBack
  <2>5. \A r \in {item.node, item.parent} : r.step = ""
    BY <2>3, <2>4 DEF References
  <2> QED
    BY <2>1, <2>5
<1>2. \A i \in DOMAIN op.items :
        /\ Resolve(op.items[i].node)' = Resolve(op.items[i].node)
        /\ Resolve(op.items[i].parent)' = Resolve(op.items[i].parent)
  BY <1>1 DEF Resolve
<1> QED
  BY <1>2 DEF Resolved

LEMMA ReceiveCommand ==
  ASSUME CommandInv, NEW c \in Commands, Receive(c)
  PROVE  CommandInv'
<1>1. /\ at = "idle" /\ cmd' = c /\ doc = Document /\ committed = Document /\ step = 1 /\ why # "unavailable step"
      /\ doc' = doc /\ step' = step /\ results' = results
  BY DEF Receive, CommandInv, ReturnsTo, ResultsAreThere, ReferencesAreAvailable
<1>2. CASE ~Accepted(c)
  <2>1. at' = "failed" /\ why' = "refused"
    BY <1>2 DEF Receive
  <2> QED
    BY <1>1, <2>1 DEF CommandInv, ReturnsTo, ResultsAreThere, FitsBefore, TransactionsAreAtomic,
                      ReferencesAreAvailable, RefusedBeforeTheFirst
<1>3. CASE Accepted(c)
  <2>1. /\ at' \in {"done", "running"} /\ why' = why
        /\ committed' = Document
    BY <1>1, <1>3 DEF Receive
  <2>2. ReturnsTo'
    BY <1>1, <2>1 DEF ReturnsTo, TransactionsAreAtomic
  <2>3. \A i \in DOMAIN c.ops : ReferencesEarlier(c.ops, i)
    <3>1. CASE c.name = "batch.execute"
      BY <1>3, <3>1 DEF Accepted, PlansFirst
    <3>2. CASE c.name # "batch.execute"
      BY <3>2, CommandsAssumption, Dispatching DEF ReferencesEarlier
    <3> QED
      BY <3>1, <3>2
  <2>4. ResultsAreThere'
    <3>1. \A i \in DOMAIN cmd'.ops : ReferencesEarlier(cmd'.ops, i)
      BY <1>1, <2>3
    <3>2. step' = 1
      BY <1>1
    <3>3. ReferencesAreAvailable'
      BY <1>1, <2>1 DEF ReferencesAreAvailable
    <3> QED
      BY <3>1, <3>2, <3>3 DEF ResultsAreThere
  <2>5. c.name \in {"nodes.create", "nodes.update"} => Plannable(Document, Resolved(c.ops[1])')
    <3> SUFFICES ASSUME c.name \in {"nodes.create", "nodes.update"}
                 PROVE  Plannable(Document, Resolved(c.ops[1])')
      OBVIOUS
    <3>1. ~RefersBack(c.ops[1]) /\ c.ops[1].kind \notin TokenKinds /\ 1 \in DOMAIN c.ops
      BY Dispatching, CommandsAssumption
    <3>2. Plannable(Document, Resolved(c.ops[1]))
      BY <1>1, <1>3, <3>1 DEF Accepted, PlansFirst, PlanFits
    <3> QED
      BY <3>1, <3>2, ResolvedAlike
  <2>6. FitsBefore'
    BY <1>1, <2>5 DEF FitsBefore, RefusedBeforeTheFirst
  <2> QED
    BY <1>1, <2>1, <2>2, <2>4, <2>6 DEF CommandInv
<1> QED
  BY <1>2, <1>3

\* What later steps do to the plan: nothing.
LEMMA FitsOn ==
  ASSUME CommandInv, cmd' = cmd, at = "running"
  PROVE  FitsBefore'
<1>1. CASE cmd.name \in {"nodes.create", "nodes.update"}
  <2>1. cmd \in Commands /\ Plannable(Document, Resolved(cmd.ops[1]))
    BY <1>1 DEF CommandInv, FitsBefore
  <2>2. ~RefersBack(cmd.ops[1]) /\ cmd.ops[1].kind \notin TokenKinds
    BY <1>1, <2>1, CommandsAssumption, Dispatching
  <2>3. PICK op : op = cmd.ops[1]
    OBVIOUS
  <2>4. Resolved(op)' = Resolved(op)
    BY <2>2, <2>3, ResolvedAlike
  <2> QED
    BY <2>1, <2>3, <2>4 DEF FitsBefore, RefusedBeforeTheFirst
<1>2. CASE cmd.name \notin {"nodes.create", "nodes.update"}
  BY <1>2 DEF FitsBefore, RefusedBeforeTheFirst
<1> QED
  BY <1>1, <1>2

LEMMA ExecuteCommand ==
  ASSUME CommandInv, Execute
  PROVE  CommandInv'
<1>1. /\ at = "running" /\ step \in DOMAIN cmd.ops /\ step' = step + 1 /\ step \in Nat \ {0} /\ cmd \in Commands
      /\ UNCHANGED <<cmd, at, named, deferred, why>>
  BY DEF Execute, CommandInv, ResultsAreThere
<1>2. DOMAIN results' = IF Current.id = "" THEN DOMAIN results ELSE DOMAIN results \cup {Current.id}
  BY DEF Execute
<1>3. cmd.name \in Transactional => committed' = committed
  <2> SUFFICES ASSUME cmd.name \in Transactional PROVE ~CommitsItself(Current)
    BY DEF Execute
  <2> QED
    BY <1>1, CommandsAssumption, Dispatching DEF CommitsItself, IsBatch,
       Current
<1>4. ReturnsTo'
  BY <1>1, <1>3 DEF CommandInv, ReturnsTo, TransactionsAreAtomic
<1>5. ResultsAreThere'
  <2>1. \A j \in 1 .. step' - 1 : j \in 1 .. step - 1 \/ j = step
    BY <1>1
  <2>2. \A j \in 1 .. step' - 1 : cmd.ops[j].id # "" => cmd.ops[j].id \in DOMAIN results'
    BY <1>1, <1>2, <2>1 DEF CommandInv, ResultsAreThere, Current
  <2>3. \A i \in DOMAIN cmd.ops : ReferencesEarlier(cmd.ops, i)
    BY <1>1 DEF CommandInv, ResultsAreThere
  <2>4. step' \in Nat \ {0}
    BY <1>1
  <2>5. ReferencesAreAvailable'
    BY <1>1 DEF CommandInv, ResultsAreThere, ReferencesAreAvailable
  <2>6. \A i \in DOMAIN cmd'.ops : ReferencesEarlier(cmd'.ops, i)
    BY <1>1, <2>3
  <2> QED
    BY <1>1, <2>2, <2>4, <2>5, <2>6 DEF ResultsAreThere
<1> QED
  BY <1>1, <1>4, <1>5, CommandsAssumption, FitsOn DEF CommandInv

LEMMA ThrowCommand ==
  ASSUME CommandInv, Throws
  PROVE  CommandInv'
<1>1. /\ at = "running" /\ step \in DOMAIN cmd.ops /\ at' = "failed" /\ cmd \in Commands /\ step \in Nat \ {0}
      /\ cmd.name \in Transactional => doc' = committed
      /\ UNCHANGED <<committed, cmd, step, results, named, deferred>>
  BY DEF Throws, CommandInv, ResultsAreThere
<1>2. ReturnsTo'
  BY <1>1 DEF CommandInv, ReturnsTo, TransactionsAreAtomic
<1>3. Available(Current)
  <2> SUFFICES ASSUME RefersBack(Current), NEW r \in References(Current)
               PROVE  r.step \in DOMAIN results
    BY DEF Available
  <2>1. r.step # ""
    BY DEF References
  <2>2. \E j \in 1 .. step - 1 : cmd.ops[j].id = r.step
    BY <1>1 DEF CommandInv, ResultsAreThere, ReferencesEarlier, Current
  <2> QED
    BY <1>1, <2>1, <2>2 DEF CommandInv, ResultsAreThere
<1>4. why' = "threw"
  BY <1>3 DEF Throws
<1>5. ResultsAreThere'
  BY <1>1, <1>4 DEF ResultsAreThere, ReferencesAreAvailable
<1> QED
  BY <1>1, <1>2, <1>5, CommandsAssumption, FitsOn DEF CommandInv

LEMMA FinishCommand ==
  ASSUME CommandInv, Finish
  PROVE  CommandInv'
<1>1. at = "running" /\ at' = "done" /\ UNCHANGED <<doc, cmd, step, results, named, deferred, why>>
  BY DEF Finish
<1>2. ReturnsTo' /\ ResultsAreThere'
  BY <1>1 DEF CommandInv, ReturnsTo, TransactionsAreAtomic, ResultsAreThere,
     ReferencesAreAvailable
<1> QED
  BY <1>1, <1>2, CommandsAssumption, FitsOn DEF CommandInv

LEMMA NextCommand ==
  ASSUME CommandInv, [CommandNext]_commandVars
  PROVE  CommandInv'
<1>1. CASE UNCHANGED commandVars
  BY <1>1 DEF commandVars, CommandInv, ReturnsTo, TransactionsAreAtomic, ResultsAreThere, ReferencesAreAvailable,
              ReferencesEarlier, FitsBefore, RefusedBeforeTheFirst, Resolved, Resolve
<1> QED
  BY <1>1, ReceiveCommand, ExecuteCommand, ThrowCommand, FinishCommand DEF
     CommandNext

\* The inductive invariant of a command.
THEOREM CommandInvariant ==
  CommandSpec => []CommandInv
<1>1. CommandInv /\ [CommandNext]_commandVars => CommandInv'
  BY NextCommand
<1> QED
  BY <1>1, InitCommand, PTL DEF CommandSpec

\* A transaction that fails leaves the document as it was: no operation that runs
\* in one commits on its own (dispatch(), executeStructureBatch(), commitUndo of
\* searchAndReplaceText()).
THEOREM Atomicity ==
  CommandSpec => []TransactionsAreAtomic
<1>1. CommandInv => TransactionsAreAtomic
  BY DEF CommandInv, ReturnsTo
<1> QED
  BY <1>1, CommandInvariant, PTL

\* A reference in an accepted batch finds the result of its step, of any batch of
\* any length: validateReferences() looks only at earlier operations, and each of
\* them was done.
THEOREM ReferenceResults ==
  CommandSpec => []ReferencesAreAvailable
<1>1. CommandInv => ReferencesAreAvailable
  BY DEF CommandInv, ResultsAreThere
<1> QED
  BY <1>1, CommandInvariant, PTL

\* Creations and updates that do not fit the document change nothing of it
\* (planCreateNodes(), planUpdateNodes()).
THEOREM Refusals ==
  CommandSpec => []RefusedBeforeTheFirst
<1>1. CommandInv => RefusedBeforeTheFirst
  BY DEF CommandInv, FitsBefore
<1> QED
  BY <1>1, CommandInvariant, PTL

-----------------------------------------------------------------------------
(* What a command does to the document *)

\* What a plan names is all that is reached of what was there.
LEMMA ListedAll ==
  ASSUME NEW d, IsTree(d), NEW query, Cardinality(Matches(d, query)) <= MaxMatches
  PROVE  Matches(d, query) \subseteq Listed(d, query)
<1> DEFINE B == Matches(d, query)
<1> SUFFICES ASSUME NEW n \in B PROVE Cardinality({m \in B : m <= n}) <= MaxMatches
  BY DEF Listed
<1> DEFINE A == {m \in B : m <= n}
<1>1. IsFiniteSet(B)
  BY NodesAreFinite, FS_Subset DEF Matches
<1>2. A \in SUBSET B
  OBVIOUS
<1> HIDE DEF A, B
<1>3. IsFiniteSet(A) /\ Cardinality(A) <= Cardinality(B)
  BY <1>1, <1>2, FS_Subset
<1>4. Cardinality(A) \in Nat /\ Cardinality(B) \in Nat
  BY <1>1, <1>3, FS_CardinalityType
<1>5. Cardinality(A) <= MaxMatches
  BY <1>3, <1>4, DocumentAssumption DEF B
<1> QED
  BY <1>5 DEF A

\* An operation reaches no node that is as it was but those the plan named.
LEMMA ReachesNamed ==
  ASSUME NEW d, IsTree(d), NEW e, NEW op, NEW N, Names(d, op) \subseteq N,
         op.kind = "searchReplaceText" => Cardinality(Matches(d, op.text)) <= MaxMatches
  PROVE  /\ \A m \in Nodes(d) \ N : Spared(d, e, m) => m \notin Reaches(e, op)
         /\ Enters(e, op) \cap Nodes(d) \subseteq N
<1>1. CASE op.kind = "searchReplaceText"
  <2>1. Matches(d, op.text) \subseteq N
    BY <1>1, ListedAll DEF Names, TokenKinds
  <2>2. \A m \in Nodes(d) : Spared(d, e, m) /\ m \in Matches(e, op.text) => m \in Matches(d, op.text)
    BY DEF Spared, Matches
  <2> QED
    BY <1>1, <2>1, <2>2 DEF Reaches, Enters
<1>2. CASE op.kind \in TokenKinds \cup {"createNodes"}
  <2>1. Reaches(e, op) = {} /\ Enters(e, op) = {}
    BY <1>2 DEF Reaches, Enters, Aims, TokenKinds
  <2> QED
    BY <2>1
<1>3. CASE op.kind \notin TokenKinds \cup {"createNodes", "searchReplaceText"}
  <2>1. Names(d, op) = {item.node : item \in ToSet(op.items)} \ {Absent}
    BY <1>3 DEF Names
  <2>2. Reaches(e, op) = UNION {{op.items[i].node} : i \in DOMAIN op.items} /\ Enters(e, op) = Reaches(e, op)
    BY <1>3 DEF Reaches, Enters, Aims
  <2>3. Reaches(e, op) \subseteq {item.node : item \in ToSet(op.items)}
    BY <2>2 DEF ToSet
  <2>4. Absent \notin Nodes(d)
    BY DEF Absent, IsTree
  <2> QED
    BY <2>1, <2>2, <2>3, <2>4
<1> QED
  BY <1>1, <1>2, <1>3

\* What was left so far is left by a step that touches only what is named.
LEMMA LeavesOn ==
  ASSUME NEW d, IsTree(d), NEW e, NEW f, NEW N, Results(d, e, N, N),
         NEW M, NEW K, Results(e, f, M, K),
         \A m \in Nodes(d) \ N : Spared(d, e, m) => m \notin M, K \cap Nodes(d) \subseteq N
  PROVE  Results(d, f, N, N)
<1>1. IsTree(e) /\ IsTree(f) /\ Later(d, f)
  BY Transitive DEF Results
<1>2. ASSUME NEW m \in Nodes(d) \ {Page}, m \notin N, ParentOf(d, m) \notin N PROVE Remains(d, f, m)
  <2>1. Remains(d, e, m)
    BY <1>2 DEF Results, Leaves
  <2>2. CASE Spared(d, e, m)
    <3>1. /\ m \in Nodes(e) \ {Page} /\ ParentOf(e, m) = ParentOf(d, m) /\ ParentOf(d, m) \in Nodes(d)
          /\ e.type[m] = d.type[m]
      BY <2>2, OneParent DEF Spared
    <3>2. m \notin M /\ ParentOf(e, m) \notin K
      BY <1>2, <2>2, <3>1
    <3>3. Remains(e, f, m)
      BY <3>1, <3>2 DEF Results, Leaves
    <3> QED
      BY <2>2, <3>1, <3>3 DEF Remains, Spared
  <2>3. CASE m \notin Nodes(e) /\ d.type[m] = "GROUP"
    <3>1. m < d.next /\ d.next <= e.next /\ m \in Nat /\ d.next \in Nat /\ e.next \in Nat
      BY <1>1 DEF IsTree, Results, Later
    <3>2. m \notin Nodes(f)
      BY <2>3, <3>1 DEF Results, Later
    <3> QED
      BY <2>3, <3>2 DEF Remains
  <2> QED
    BY <2>1, <2>2, <2>3 DEF Remains
<1> QED
  BY <1>1, <1>2 DEF Results, Leaves

\* Resolving the references of an operation leaves all else of it.
LEMMA ResolvedIsGiven ==
  ASSUME NEW c \in Commands, NEW i \in DOMAIN c.ops, c.ops[i].kind \in BatchKinds
  PROVE  LET op == c.ops[i] IN Given(Resolved(op)) /\ Resolved(op).kind = op.kind /\ Resolved(op).text = op.text
<1> DEFINE op == c.ops[i]
           r == Resolved(op)
<1>1. /\ DOMAIN op = {"id", "kind", "items", "text"}
      /\ op.items \in Seq(ToSet(op.items))
      /\ op.kind \in WholeKinds => op.items # <<>>
      /\ op.kind \notin TokenKinds => \A item \in ToSet(op.items) : item.index \in Nat
  BY ItemsAssumption
<1> HIDE DEF op
<1>2. PICK n \in Nat : DOMAIN op.items = 1 .. n
  BY <1>1
<1>3. op.kind \in WholeKinds => n # 0
  <2> SUFFICES ASSUME n = 0 PROVE op.items = <<>>
    BY <1>1
  <2> QED
    BY <1>1, <1>2
<1>4. op.kind \notin TokenKinds => \A k \in 1 .. n : op.items[k].index \in Nat
  BY <1>1, <1>2 DEF ToSet
<1>5. CASE op.kind \in TokenKinds
  BY <1>2, <1>3, <1>5 DEF Resolved, Given, op
<1>6. CASE op.kind \notin TokenKinds
  <2>1. /\ r.kind = op.kind /\ r.text = op.text /\ DOMAIN r.items = DOMAIN op.items
        /\ \A k \in DOMAIN op.items : r.items[k].index = op.items[k].index
    BY <1>1, <1>6 DEF Resolved
  <2> HIDE DEF r
  <2> QED
    BY <1>2, <1>3, <1>4, <2>1 DEF Given, op, r
<1> QED
  BY <1>5, <1>6

\* The kinds of the operations, and the plan.
Batchable == \A i \in DOMAIN cmd.ops : cmd.ops[i].kind \in BatchKinds
OnlyMoves == \A i \in DOMAIN cmd.ops : cmd.ops[i].kind \in MovingKinds
PlanCovers ==
  \A i \in DOMAIN cmd.ops : ~RefersBack(cmd.ops[i]) /\ Names(Document, Resolved(cmd.ops[i])) \subseteq named

\* The document is a tree, and what was done to the one that the command found is
\* what its operations may do.
Grown ==
  /\ IsTree(doc) /\ Later(Document, doc)
  /\ OnlyMoves /\ MovesIntoNoGroup => Still(Document, doc)

\* What the plan names, and what was done.
Foretold ==
  IsBatch /\ ~deferred => PlanCovers /\ (~Truncated => Results(Document, doc, named, named))

\* Whatever was done so far, as long as nothing failed.
DocInv ==
  at # "failed" =>
    /\ IsBatch => Batchable
    /\ Batchable => Grown
    /\ Foretold

LEMMA InitDocument == CommandInit => DocInv
<1> SUFFICES ASSUME CommandInit PROVE DocInv
  OBVIOUS
<1>1. cmd = NoCommand /\ doc = Document
  BY DEF CommandInit
<1>2. ~IsBatch
  BY <1>1 DEF IsBatch, NoCommand
<1>3. Grown
  BY <1>1, DocumentAssumption, Reflexive DEF Grown
<1> QED
  BY <1>2, <1>3 DEF DocInv, Foretold

\* What an operation reaches in a document that nothing was done to.
LEMMA NothingDone ==
  ASSUME NEW d, IsTree(d), NEW N
  PROVE  Later(d, d) /\ Still(d, d) /\ Results(d, d, N, N)
BY Reflexive DEF Spares, Results, Leaves, Remains

\* A plan is made of the document as it is.
LEMMA ReceiveDocument ==
  ASSUME CommandInv, NEW c \in Commands, Receive(c)
  PROVE  DocInv'
<1>1. at = "idle" /\ cmd' = c /\ doc = Document /\ doc' = doc /\ results' = results
  BY DEF Receive, CommandInv, ReturnsTo
<1>2. CASE ~Accepted(c)
  <2>1. at' = "failed"
    BY <1>2 DEF Receive
  <2> QED
    BY <2>1 DEF DocInv
<1>3. CASE Accepted(c)
  <2>1. /\ deferred' = \E op \in ToSet(c.ops) : RefersBack(op)
        /\ named' = UNION {Names(doc, Resolved(op)) : op \in {o \in ToSet(c.ops) : ~RefersBack(o)}}
    BY <1>3 DEF Receive
  <2>2. IsTree(Document) /\ Later(Document, Document) /\ Still(Document, Document)
        /\ \A N : Results(Document, Document, N, N)
    BY DocumentAssumption, NothingDone
  <2>3. IsBatch' => Batchable'
    BY <1>1, <1>3 DEF IsBatch, Batchable, Accepted, PlansFirst
  <2>4. Grown'
    BY <1>1, <2>2 DEF Grown
  <2>5. ASSUME ~deferred' PROVE PlanCovers'
    <3> SUFFICES ASSUME NEW i \in DOMAIN c.ops
                 PROVE  ~RefersBack(c.ops[i]) /\ Names(Document, Resolved(c.ops[i])') \subseteq named'
      BY <1>1 DEF PlanCovers
    <3>1. c.ops[i] \in ToSet(c.ops)
      BY DEF ToSet
    <3>2. ~RefersBack(c.ops[i])
      BY <2>1, <2>5, <3>1
    <3>3. Resolved(c.ops[i])' = Resolved(c.ops[i])
      BY <1>1 DEF Resolved, Resolve
    <3>4. Names(doc, Resolved(c.ops[i])) \subseteq named'
      BY <2>1, <3>1, <3>2
    <3> QED
      BY <1>1, <3>2, <3>3, <3>4
  <2>6. Foretold'
    BY <1>1, <2>2, <2>5 DEF Foretold
  <2> QED
    BY <2>3, <2>4, <2>6 DEF DocInv
<1> QED
  BY <1>2, <1>3

\* The operation that is done, as it is by then.
LEMMA ExecuteAffects ==
  ASSUME CommandInv, DocInv, Execute, Batchable
  PROVE  LET r == Resolved(Current) IN
         /\ Results(doc, doc', Reaches(doc, r), Enters(doc, r))
         /\ AllUnseen(doc, r, r.items) => Still(doc, doc')
         /\ r.kind = Current.kind /\ r.text = Current.text
<1> DEFINE r == Resolved(Current)
<1>1. cmd \in Commands /\ step \in DOMAIN cmd.ops /\ at = "running"
  BY DEF Execute, CommandInv
<1>2. Given(r) /\ r.kind = Current.kind /\ r.text = Current.text
  BY <1>1, ResolvedIsGiven DEF Batchable, Current
<1>3. Done(doc, r).ok /\ doc' = Done(doc, r).doc
  BY DEF Execute
<1>4. IsTree(doc)
  BY <1>1 DEF DocInv, Grown
<1> HIDE DEF r
<1>5. /\ Results(doc, Done(doc, r).doc, Reaches(doc, r), Enters(doc, r))
      /\ AllUnseen(doc, r, r.items) => Still(doc, Done(doc, r).doc)
  BY <1>2, <1>3, <1>4, Doing
<1> QED
  BY <1>2, <1>3, <1>5 DEF r

\* A command that only moves nodes, and none of them into a group, does so in each
\* operation.
LEMMA QuietMoves ==
  ASSUME CommandInv, Execute, Batchable, OnlyMoves, MovesIntoNoGroup, IsTree(doc), Later(Document, doc)
  PROVE  LET r == Resolved(Current) IN AllUnseen(doc, r, r.items)
<1> DEFINE op == Current
           r == Resolved(op)
<1>1. cmd \in Commands /\ step \in DOMAIN cmd.ops
  BY DEF Execute, CommandInv
<1>2. r.kind = op.kind /\ op.kind \in MovingKinds /\ op \in ToSet(cmd.ops) /\ op.kind \notin TokenKinds
  BY <1>1, ResolvedIsGiven DEF Batchable, Current, OnlyMoves, ToSet, MovingKinds, TokenKinds
<1>3. DOMAIN op = {"id", "kind", "items", "text"}
  BY <1>1, ItemsAssumption DEF Current
<1>4. DOMAIN r.items = DOMAIN op.items /\ \A i \in DOMAIN op.items : r.items[i].parent = Resolve(op.items[i].parent)
  BY <1>2, <1>3 DEF Resolved
<1> HIDE DEF op, r
<1>5. ASSUME NEW i \in DOMAIN r.items PROVE Unseen(Document, r, r.items[i])
  <2> SUFFICES ASSUME r.kind = "moveNodes"
               PROVE  /\ r.items[i].parent \in 1 .. Document.next - 1
                      /\ Document.type[r.items[i].parent] # "GROUP"
    BY <1>2 DEF Unseen
  <2>1. op.items[i] \in ToSet(op.items)
    BY <1>4 DEF ToSet
  <2>2. /\ op.items[i].parent.step = "" /\ op.items[i].parent.node \in Nodes(Document)
        /\ Document.type[op.items[i].parent.node] # "GROUP"
    BY <1>2, <2>1 DEF MovesIntoNoGroup
  <2>3. r.items[i].parent = op.items[i].parent.node
    BY <1>4, <2>2 DEF Resolve
  <2>4. Nodes(Document) \subseteq 1 .. Document.next - 1
    BY DocumentAssumption DEF IsTree
  <2> QED
    BY <2>2, <2>3, <2>4
<1>6. \A i \in DOMAIN r.items : Unseen(doc, r, r.items[i])
  BY <1>5, DocumentAssumption, UnseenOn
<1> QED
  BY <1>2, <1>6 DEF AllUnseen, op, r

\* An operation is done.
LEMMA ExecuteDocument ==
  ASSUME CommandInv, DocInv, Execute
  PROVE  DocInv'
<1> DEFINE r == Resolved(Current)
           M == Reaches(doc, r)
           K == Enters(doc, r)
<1>1. /\ at = "running" /\ step \in DOMAIN cmd.ops /\ cmd' = cmd /\ at' = at /\ named' = named /\ deferred' = deferred
  BY DEF Execute
<1>2. /\ IsBatch' = IsBatch /\ Batchable' = Batchable /\ OnlyMoves' = OnlyMoves /\ Truncated' = Truncated
      /\ MovesIntoNoGroup' = MovesIntoNoGroup
  BY <1>1 DEF IsBatch, Batchable, OnlyMoves, Truncated, MovesIntoNoGroup
<1>3. ASSUME Batchable
      PROVE  /\ Results(doc, doc', M, K) /\ (AllUnseen(doc, r, r.items) => Still(doc, doc'))
             /\ r.kind = Current.kind /\ r.text = Current.text
  BY <1>3, ExecuteAffects
<1> HIDE DEF r, M, K
<1>4. ASSUME Batchable PROVE Grown'
  <2>1. Grown
    BY <1>1, <1>4 DEF DocInv
  <2>2. IsTree(Document) /\ IsTree(doc) /\ IsTree(doc') /\ Later(Document, doc) /\ Later(doc, doc')
    BY <1>3, <1>4, <2>1, DocumentAssumption DEF Grown, Results
  <2>3. OnlyMoves /\ MovesIntoNoGroup => AllUnseen(doc, r, r.items)
    BY <1>4, <2>2, QuietMoves DEF r
  <2>4. OnlyMoves /\ MovesIntoNoGroup => Still(Document, doc) /\ Still(doc, doc')
    BY <1>3, <1>4, <2>1, <2>3 DEF Grown
  <2>5. Later(Document, doc') /\ (OnlyMoves /\ MovesIntoNoGroup => Still(Document, doc'))
    BY <2>2, <2>4, Transitive
  <2> QED
    BY <1>2, <2>2, <2>5 DEF Grown
<1>5. ASSUME PlanCovers PROVE PlanCovers'
  <2> SUFFICES ASSUME NEW i \in DOMAIN cmd.ops
               PROVE  ~RefersBack(cmd.ops[i]) /\ Names(Document, Resolved(cmd.ops[i])') \subseteq named
    BY <1>1 DEF PlanCovers
  <2>1. PICK op : op = cmd.ops[i]
    OBVIOUS
  <2>2. ~RefersBack(op) /\ Names(Document, Resolved(op)) \subseteq named
    BY <1>5, <2>1 DEF PlanCovers
  <2>3. Resolved(op)' = Resolved(op)
    <3>1. CASE op.kind \in TokenKinds
      BY <3>1 DEF Resolved
    <3>2. CASE op.kind \notin TokenKinds
      BY <2>2, <3>2, ResolvedAlike
    <3> QED
      BY <3>1, <3>2
  <2> QED
    BY <1>1, <2>1, <2>2, <2>3
<1>6. ASSUME IsBatch, ~deferred, ~Truncated PROVE Results(Document, doc', named, named)
  <2>1. Batchable /\ PlanCovers /\ Results(Document, doc, named, named)
    BY <1>1, <1>6 DEF DocInv, Foretold
  <2>2. Results(doc, doc', M, K) /\ r.kind = Current.kind /\ r.text = Current.text
    BY <1>3, <2>1
  <2>3. Names(Document, r) \subseteq named
    BY <1>1, <2>1 DEF PlanCovers, Current, r
  <2>4. r.kind = "searchReplaceText" => Cardinality(Matches(Document, r.text)) <= MaxMatches
    <3> SUFFICES ASSUME r.kind = "searchReplaceText" PROVE Cardinality(Matches(Document, r.text)) <= MaxMatches
      OBVIOUS
    <3>1. Current \in ToSet(cmd.ops) /\ Current.kind = "searchReplaceText"
      BY <1>1, <2>2 DEF Current, ToSet
    <3>2. ~(Cardinality(Matches(Document, r.text)) > MaxMatches)
      BY <1>6, <2>2, <3>1 DEF Truncated
    <3>3. IsFiniteSet(Matches(Document, r.text))
      BY DocumentAssumption, NodesAreFinite, FS_Subset DEF Matches
    <3>4. Cardinality(Matches(Document, r.text)) \in Nat
      BY <3>3, FS_CardinalityType
    <3> QED
      BY <3>2, <3>4, DocumentAssumption
  <2>5. /\ \A m \in Nodes(Document) \ named : Spared(Document, doc, m) => m \notin M
        /\ K \cap Nodes(Document) \subseteq named
    BY <2>3, <2>4, DocumentAssumption, ReachesNamed DEF M, K
  <2> QED
    BY <2>1, <2>2, <2>5, DocumentAssumption, LeavesOn
<1>7. Foretold'
  <2>1. IsBatch /\ ~deferred => PlanCovers
    BY <1>1 DEF DocInv, Foretold
  <2> QED
    BY <1>1, <1>2, <1>5, <1>6, <2>1 DEF Foretold
<1> QED
  BY <1>1, <1>2, <1>4, <1>7 DEF DocInv

LEMMA NextDocument ==
  ASSUME CommandInv, DocInv, [CommandNext]_commandVars
  PROVE  DocInv'
<1>1. CASE Throws
  BY <1>1 DEF Throws, DocInv
<1>2. CASE Finish
  <2>1. at = "running" /\ UNCHANGED <<doc, cmd, step, results, named, deferred, why>>
    BY <1>2 DEF Finish
  <2>2. /\ IsBatch' = IsBatch /\ Batchable' = Batchable /\ Grown' = Grown /\ Foretold' = Foretold
    BY <2>1 DEF IsBatch, Batchable, OnlyMoves, MovesIntoNoGroup, Grown, Foretold, Truncated, PlanCovers,
              Resolved, Resolve
  <2> QED
    BY <2>1, <2>2 DEF DocInv
<1>3. CASE UNCHANGED commandVars
  <2>1. /\ at' = at /\ doc' = doc /\ cmd' = cmd /\ results' = results /\ named' = named /\ deferred' = deferred
    BY <1>3 DEF commandVars
  <2>2. /\ IsBatch' = IsBatch /\ Batchable' = Batchable /\ Grown' = Grown /\ Foretold' = Foretold
    BY <2>1 DEF IsBatch, Batchable, OnlyMoves, MovesIntoNoGroup, Grown, Foretold, Truncated, PlanCovers,
              Resolved, Resolve
  <2> QED
    BY <2>1, <2>2 DEF DocInv
<1> QED
  BY <1>1, <1>2, <1>3, ReceiveDocument, ExecuteDocument DEF CommandNext

\* The inductive invariant of the document, beside the one of the command.
LEMMA DocumentInvariant == CommandSpec => []DocInv
<1>1. CommandInv /\ DocInv /\ [CommandNext]_commandVars => DocInv'
  BY NextDocument
<1> QED
  BY <1>1, InitDocument, CommandInvariant, PTL DEF CommandSpec

\* Nodes that are moved, reordered, grouped and ungrouped, in any order and any
\* number, stay where they are seen, with all that is inside them, in a document
\* of any depth and through groups that go when they are left empty, as long as
\* none is moved into a group (moveNode(), reorderNodes(), groupNodes(),
\* ungroupNode()).
THEOREM Stillness ==
  CommandSpec => []NothingIsSeenToMove
<1>1. DocInv => NothingIsSeenToMove
  <2> SUFFICES ASSUME DocInv, at = "done", \A op \in ToSet(cmd.ops) : op.kind \in MovingKinds, MovesIntoNoGroup
               PROVE  Still(Document, doc)
    BY DEF NothingIsSeenToMove, OnlyRearranges, PlacesAreKept, MovingKinds, Still
  <2>1. \A i \in DOMAIN cmd.ops : cmd.ops[i] \in ToSet(cmd.ops)
    BY DEF ToSet
  <2>2. OnlyMoves
    BY <2>1 DEF OnlyMoves
  <2>3. Batchable
    BY <2>2 DEF OnlyMoves, MovingKinds, Batchable, BatchKinds
  <2> QED
    BY <2>2, <2>3 DEF DocInv, Grown
<1> QED
  BY <1>1, DocumentInvariant, PTL

\* A batch of any operations changes no node that was there but those its plan
\* named, their children, and groups that Figma takes away because the batch left
\* them empty, though operations find what earlier ones left
\* (planStructureBatch(), executeStructureBatch()).
THEOREM Previews ==
  CommandSpec => []PreviewNamesTargets
<1>1. DocInv => PreviewNamesTargets
  <2> SUFFICES ASSUME DocInv, at = "done", IsBatch, ~deferred, ~Truncated,
                      NEW n \in Nodes(Document) \ {Page}, n \notin named, ParentOf(Document, n) \notin named
               PROVE  Changed(n) => LeftEmpty(n)
    BY DEF PreviewNamesTargets
  <2>1. Remains(Document, doc, n)
    BY DEF DocInv, Foretold, Results, Leaves
  <2> QED
    BY <2>1 DEF Remains, Spared, Changed, LeftEmpty
<1> QED
  BY <1>1, DocumentInvariant, PTL
=============================================================================
