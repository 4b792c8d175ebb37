------------------------------- MODULE PluginUi -------------------------------
(***************************************************************************)
(* figma-plugin/src/ui.html: the plugin's window. It connects to the       *)
(* companion on this computer or to the relay, proves itself or pairs or   *)
(* registers, tries again when a connection is lost, and shows what it     *)
(* does.                                                                   *)
(*                                                                         *)
(* Proofs are computed in plain JavaScript (bridge-auth.js), so the awaits *)
(* of a message's handler end before another event is handled, and a       *)
(* handler is one action. Only calls of the relay and answers of the       *)
(* plugin's main thread are waited for across events. What listens on this *)
(* computer is the companion, which sends its proofs when server.mjs does, *)
(* or a program that has neither token nor code and whose proofs are wrong *)
(* unless they need neither; either may send any other message at any      *)
(* time. The relay sends what plugin-gateway.mjs sends.                    *)
(***************************************************************************)
EXTENDS Naturals

CONSTANTS
  Attempts,   \* the WebSockets there may be at a time; one that is gone is used again
  None

ASSUME UiAssumption == None \notin Attempts

VARIABLES
  initialized,       \* bridge-init has arrived
  mode,              \* state.mode: the tab that is shown
  token,             \* whether there is a state.token
  relayDevice,       \* whether there is a state.relayDevice
  saving,            \* a save-token was posted and not answered
  socket,            \* the current socket
  current,           \* the attempt whose generation is the present one
  kind,              \* what an attempt is for: "auth", "pair", "hello", "register"
  readyState,        \* "connecting", "open", "closing" or "closed"
  session,           \* connectLocal's session, by attempt
  localSession,      \* the attempt whose session is state.localSession
  connected,         \* state.connected
  retry,             \* the connection that the retry timer will try
  waiting,           \* the call of Disconnect is in flight
  woken,             \* it has ended, and its handler continues at once
  status,            \* what setStatus last said
  connectDisabled,   \* the Connect button
  registerDisabled,  \* the button of the register form
  proven             \* history: the attempts whose other side proved itself

saved == <<mode, token, relayDevice>>
buttons == <<connectDisabled, registerDisabled>>
network == <<socket, current, kind, readyState, connected, retry, waiting, woken>>
vars == <<initialized, saved, saving, network, session, localSession, status, buttons, proven>>

Kinds == {"auth", "pair", "hello", "register"}

Sessions == [serverNonce : BOOLEAN, code : BOOLEAN, paired : BOOLEAN, awaitingCode : BOOLEAN, helloTimer : BOOLEAN]

NoSession == [serverNonce |-> FALSE, code |-> FALSE, paired |-> FALSE, awaitingCode |-> FALSE, helloTimer |-> FALSE]

NewSession == [NoSession EXCEPT !.helloTimer = TRUE]

\* "told" is any text that says what happened and leaves the next step to the
\* user; "try again" and "forgotten" are two of these texts.
Statuses == {"ready", "connecting", "connected", "retrying", "told", "try again", "forgotten"}

Init ==
  /\ initialized = FALSE
  /\ mode = "local" /\ token = FALSE /\ relayDevice = FALSE /\ saving = FALSE
  /\ socket = None /\ current = None
  /\ kind = [w \in Attempts |-> "none"]
  /\ readyState = [w \in Attempts |-> "closed"]
  /\ session = [w \in Attempts |-> NoSession]
  /\ localSession = None
  /\ connected = FALSE /\ retry = "none" /\ waiting = FALSE /\ woken = FALSE
  /\ status = "ready"
  /\ connectDisabled = FALSE /\ registerDisabled = FALSE
  /\ proven = {}

-----------------------------------------------------------------------------
(* Connections *)

\* Mutant: the window stays connected.
Leave_Connected ==
  /\ retry' = "none"
  /\ waiting' = FALSE
  /\ woken' = waiting
  /\ UNCHANGED connected

\* What closeSocket() does besides closing: every call fails, and the handler
\* of Disconnect, which catches that, goes on.
Leave ==
  /\ connected' = FALSE
  /\ retry' = "none"
  /\ waiting' = FALSE
  /\ woken' = waiting

\* Mutant: a socket that is not open yet is not closed.
Left_OpenOnly == [w \in Attempts |-> IF w = socket /\ readyState[w] = "open" THEN "closing" ELSE readyState[w]]

Left == [w \in Attempts |-> IF w = socket THEN "closing" ELSE readyState[w]]

\* closeSocket(). The close event of the socket will be that of an earlier
\* generation.
CloseSocket ==
  /\ Leave
  /\ socket' = None /\ current' = None
  /\ readyState' = Left
  /\ UNCHANGED kind

\* open(), with a socket of which nothing is left.
Open(w, k) ==
  /\ readyState[w] = "closed" /\ ~session[w].helloTimer /\ localSession' # w
  /\ Leave
  /\ socket' = w /\ current' = w
  /\ readyState' = [Left EXCEPT ![w] = "connecting"]
  /\ kind' = [kind EXCEPT ![w] = k]

\* Mutant: the session of an earlier pairing is not forgotten.
ConnectLocal_KeepsSession(pair) ==
  \/ /\ ~token' /\ ~pair
     /\ CloseSocket
     /\ status' = "ready"
     /\ UNCHANGED <<session, localSession, connectDisabled>>
  \/ /\ token' \/ pair
     /\ UNCHANGED localSession
     /\ \E w \in Attempts :
          /\ Open(w, IF pair THEN "pair" ELSE "auth")
          /\ session' = [session EXCEPT ![w] = NewSession]
     /\ connectDisabled' = pair
     /\ status' = "connecting"

\* connectLocal(). Without a token there is nothing to connect with.
ConnectLocal(pair) ==
  \/ /\ ~token' /\ ~pair
     /\ CloseSocket
     /\ status' = "ready"
     /\ UNCHANGED <<session, localSession, connectDisabled>>
  \/ /\ token' \/ pair
     /\ localSession' = None
     /\ \E w \in Attempts :
          /\ Open(w, IF pair THEN "pair" ELSE "auth")
          /\ session' = [session EXCEPT ![w] = NewSession]
     /\ connectDisabled' = pair
     /\ status' = "connecting"

\* connectRelay()
ConnectRelay(registration) ==
  /\ UNCHANGED <<session, localSession, connectDisabled>>
  /\ \/ /\ ~relayDevice' /\ ~registration
        /\ CloseSocket
        /\ status' = "ready"
     \/ /\ relayDevice' \/ registration
        /\ \E w \in Attempts : Open(w, IF registration THEN "register" ELSE "hello")
        /\ status' = "connecting"

Connect ==
  \/ mode' = "local" /\ ConnectLocal(FALSE)
  \/ mode' = "relay" /\ ConnectRelay(FALSE)

MarkConnected ==
  /\ connected' = TRUE
  /\ status' = "connected"

-----------------------------------------------------------------------------
(* The user *)

\* A click on the other tab.
SelectMode ==
  /\ mode' = (IF mode = "local" THEN "relay" ELSE "local")
  /\ UNCHANGED <<token, relayDevice>>
  /\ Connect
  /\ UNCHANGED <<initialized, saving, registerDisabled, proven>>

\* Connect, on the local tab of a window that is neither connected nor paired.
ClickConnect ==
  /\ mode = "local" /\ ~connected /\ ~token /\ ~connectDisabled
  /\ UNCHANGED saved
  /\ ConnectLocal(TRUE)
  /\ UNCHANGED <<initialized, saving, registerDisabled, proven>>

Unpair ==
  /\ mode = "local" /\ token
  /\ CloseSocket
  /\ token' = FALSE
  /\ localSession' = None
  /\ status' = "told"
  /\ UNCHANGED <<initialized, mode, relayDevice, saving, session, buttons, proven>>

\* The code form. The code goes to the socket there is, which should be the one
\* that asked for it.
SubmitCode ==
  /\ mode = "local" /\ ~connected /\ localSession # None
  /\ session[localSession].awaitingCode
  /\ LET open == socket # None /\ readyState[socket] = "open" IN
     /\ session' = [session EXCEPT ![localSession].code = TRUE, ![localSession].awaitingCode = ~open]
     /\ status' = IF open THEN "connecting" ELSE "told"
  /\ UNCHANGED <<initialized, saved, saving, network, localSession, buttons, proven>>

\* A token pasted by hand is stored by the plugin's main thread first.
SaveToken ==
  /\ mode = "local" /\ ~connected /\ ~token /\ ~saving
  /\ saving' = TRUE
  /\ UNCHANGED <<initialized, saved, network, session, localSession, status, buttons, proven>>

SubmitRegistration ==
  /\ mode = "relay" /\ ~relayDevice /\ ~registerDisabled
  /\ registerDisabled' = TRUE
  /\ UNCHANGED saved
  /\ ConnectRelay(TRUE)
  /\ UNCHANGED <<initialized, saving, proven>>

\* Disconnect, on the relay tab: the device is removed with a call, which fails
\* at once without a connection. (Other calls fail in the same ways, and their
\* handlers show what comes of them.)
Forget ==
  /\ mode = "relay" /\ relayDevice /\ ~waiting
  /\ LET callable == connected /\ readyState[socket] = "open" IN
     /\ waiting' = callable
     /\ woken' = ~callable
  /\ UNCHANGED <<initialized, saved, saving, socket, current, kind, readyState, connected, retry,
                 session, localSession, status, buttons, proven>>

\* Its handler, after the call. The tab may be another one by then.
ForgetContinues ==
  /\ woken
  /\ relayDevice' = FALSE
  /\ CloseSocket
  /\ status' = "forgotten"
  /\ UNCHANGED <<initialized, mode, token, saving, session, localSession, buttons, proven>>

-----------------------------------------------------------------------------
(* The plugin's main thread *)

\* bridge-init, with what was stored when the window asked for it.
BridgeInit ==
  /\ ~initialized
  /\ initialized' = TRUE
  /\ token' \in BOOLEAN /\ relayDevice' \in BOOLEAN /\ mode' \in {"local", "relay"}
  /\ Connect
  /\ UNCHANGED <<saving, registerDisabled, proven>>

\* token-saved, whichever tab is shown by now.
TokenSaved ==
  /\ saving
  /\ saving' = FALSE
  /\ token' = TRUE
  /\ UNCHANGED <<mode, relayDevice>>
  /\ ConnectLocal(FALSE)
  /\ UNCHANGED <<initialized, registerDisabled, proven>>

-----------------------------------------------------------------------------
(* Timers *)

RetryFires ==
  /\ retry # "none"
  /\ UNCHANGED saved
  /\ IF retry = "local" THEN ConnectLocal(FALSE) ELSE ConnectRelay(FALSE)
  /\ UNCHANGED <<initialized, saving, registerDisabled, proven>>

\* The attempt is the current one, and its companion has not said hello.
Silent(w) == ~session[w].serverNonce /\ socket = w /\ readyState[w] = "open"

\* session.helloTimer. It is left running when its attempt is replaced.
HelloTimer(w) ==
  /\ session[w].helloTimer
  /\ session' = [session EXCEPT ![w].helloTimer = FALSE]
  /\ IF Silent(w)
     THEN CloseSocket /\ status' = "told"
     ELSE UNCHANGED <<network, status>>
  /\ UNCHANGED <<initialized, saved, saving, localSession, buttons, proven>>

-----------------------------------------------------------------------------
(* Events of a socket *)

SocketOpens(w) ==
  /\ readyState[w] = "connecting"
  /\ readyState' = [readyState EXCEPT ![w] = "open"]
  /\ UNCHANGED <<initialized, saved, saving, socket, current, kind, connected, retry, waiting, woken,
                 session, localSession, status, buttons, proven>>

\* A message that is handled: an earlier generation's is not.
Receives(w, kinds) ==
  /\ current = w
  /\ readyState[w] = "open"
  /\ kind[w] \in kinds

\* The handler throws.
Failed(text) ==
  /\ CloseSocket
  /\ status' = text

\* hello, of a companion of this protocol or not.
HelloMessage(w, fits) ==
  /\ Receives(w, {"auth", "pair"})
  /\ session' = [session EXCEPT ![w].helloTimer = FALSE, ![w].serverNonce = @ \/ fits]
  /\ IF fits THEN UNCHANGED <<network, status>> ELSE Failed("told")
  /\ UNCHANGED <<initialized, saved, saving, localSession, buttons, proven>>

PairCode(w) ==
  /\ Receives(w, {"auth", "pair"})
  /\ session' = [session EXCEPT ![w].awaitingCode = TRUE]
  /\ localSession' = w
  /\ status' = "connecting"
  /\ UNCHANGED <<initialized, saved, saving, network, buttons, proven>>

\* pair.ok, with the right proof of the code or not. Who was not sent the code
\* and a nonce has none.
PairOk(w, right) ==
  /\ Receives(w, {"auth", "pair"})
  /\ right => session[w].code /\ session[w].serverNonce
  /\ IF right
     THEN /\ session' = [session EXCEPT ![w].paired = TRUE]
          /\ token' = TRUE
          /\ proven' = proven \cup {w}
          /\ UNCHANGED <<network, status>>
     ELSE Failed("try again") /\ UNCHANGED <<session, token, proven>>
  /\ UNCHANGED <<initialized, mode, relayDevice, saving, localSession, buttons>>

\* auth.ok, with the right proof of state.token or not: the companion proves it in
\* answer to auth. After pairing no proof is needed. In an attempt to pair that has
\* not come so far state.token is empty, and whoever was sent the client's nonce,
\* which goes with the code, has the right proof of that; it proves nothing.
AuthOk(w, right) ==
  /\ Receives(w, {"auth", "pair"})
  /\ right => IF token THEN kind[w] = "auth" /\ session[w].serverNonce ELSE session[w].code
  /\ IF session[w].paired \/ right
     THEN /\ MarkConnected
          /\ localSession' = None
          /\ connectDisabled' = FALSE
          /\ proven' = IF session[w].paired \/ token THEN proven \cup {w} ELSE proven
          /\ UNCHANGED <<socket, current, kind, readyState, retry, waiting, woken>>
     ELSE Failed("told") /\ UNCHANGED <<localSession, connectDisabled, proven>>
  /\ UNCHANGED <<initialized, saved, saving, session, registerDisabled>>

\* register.ok or hello.ok, whichever was asked for.
RelayOk(w) ==
  /\ Receives(w, {"hello", "register"})
  /\ w \notin proven
  /\ relayDevice' = (relayDevice \/ kind[w] = "register")
  /\ MarkConnected
  /\ proven' = proven \cup {w}
  /\ UNCHANGED <<initialized, mode, token, saving, socket, current, kind, readyState, retry, waiting, woken,
                 session, localSession, buttons>>

RegisterError(w) ==
  /\ Receives(w, {"register"})
  /\ w \notin proven
  /\ registerDisabled' = FALSE
  /\ Failed("told")
  /\ UNCHANGED <<initialized, saved, saving, session, localSession, connectDisabled, proven>>

\* call.result, of the relay or of its refusal: the handler does not care.
CallResult(w) ==
  /\ Receives(w, {"hello", "register"})
  /\ waiting
  /\ waiting' = FALSE
  /\ woken' = TRUE
  /\ UNCHANGED <<initialized, saved, saving, socket, current, kind, readyState, connected, retry,
                 session, localSession, status, buttons, proven>>

\* The other side, or the network, ends the connection; its close event follows.
PeerCloses(w) ==
  /\ readyState[w] = "open"
  /\ readyState' = [readyState EXCEPT ![w] = "closing"]
  /\ UNCHANGED <<initialized, saved, saving, socket, current, kind, connected, retry, waiting, woken,
                 session, localSession, status, buttons, proven>>

Tries(connection) ==
  /\ status' = "retrying"
  /\ retry' = connection

\* onClose of connectLocal()
LocalClosed(w, code) ==
  /\ session' = [session EXCEPT ![w] = NoSession]
  /\ localSession' = None
  /\ connectDisabled' = FALSE
  /\ CASE code = 4403 ->
            /\ token' = (token /\ kind[w] = "pair")
            /\ status' = "told"
            /\ UNCHANGED retry
       [] code = 4408 -> status' = "told" /\ UNCHANGED <<token, retry>>
       [] OTHER -> Tries(IF token THEN "local" ELSE retry) /\ UNCHANGED token
  /\ UNCHANGED <<relayDevice, registerDisabled>>

\* Mutant: only a connection that was there is tried again.
RelayClosed_NoRetry(code) ==
  /\ registerDisabled' = FALSE
  /\ CASE code = 4403 /\ relayDevice ->
            relayDevice' = FALSE /\ status' = "told" /\ UNCHANGED retry
       [] code # 4403 /\ relayDevice /\ connected -> Tries("relay") /\ UNCHANGED relayDevice
       [] OTHER -> UNCHANGED <<relayDevice, status, retry>>
  /\ UNCHANGED <<token, session, localSession, connectDisabled>>

\* onClose of connectRelay()
RelayClosed(code) ==
  /\ registerDisabled' = FALSE
  /\ CASE code = 4403 /\ relayDevice ->
            relayDevice' = FALSE /\ status' = "told" /\ UNCHANGED retry
       [] code # 4403 /\ relayDevice -> Tries("relay") /\ UNCHANGED relayDevice
       [] OTHER -> UNCHANGED <<relayDevice, status, retry>>
  /\ UNCHANGED <<token, session, localSession, connectDisabled>>

\* The close event of a socket. Of an earlier generation it is ignored. What the
\* socket was for is of no more interest.
CloseEvent(w, code) ==
  /\ readyState[w] \in {"connecting", "closing"}
  /\ readyState' = [readyState EXCEPT ![w] = "closed"]
  /\ kind' = [kind EXCEPT ![w] = "none"]
  /\ proven' = proven \ {w}
  /\ IF current = w
     THEN /\ socket' = None
          /\ connected' = FALSE
          /\ waiting' = FALSE
          /\ woken' = waiting
          /\ IF kind[w] \in {"auth", "pair"} THEN LocalClosed(w, code) ELSE RelayClosed(code)
     ELSE UNCHANGED <<token, relayDevice, socket, connected, retry, waiting, woken, session, localSession,
                      status, buttons>>
  /\ UNCHANGED <<initialized, mode, saving, current>>

-----------------------------------------------------------------------------

\* A handler that was woken continues before the next event.
Next ==
  \/ ForgetContinues
  \/ /\ ~woken
     /\ \/ SelectMode \/ ClickConnect \/ Unpair \/ SubmitCode \/ SaveToken \/ SubmitRegistration \/ Forget
        \/ BridgeInit \/ TokenSaved
        \/ RetryFires
        \/ \E w \in Attempts :
             \/ HelloTimer(w) \/ SocketOpens(w) \/ PeerCloses(w)
             \/ PairCode(w) \/ RelayOk(w) \/ RegisterError(w) \/ CallResult(w)
             \/ \E b \in BOOLEAN : HelloMessage(w, b) \/ PairOk(w, b) \/ AuthOk(w, b)
             \/ \E code \in {1006, 4403, 4408} : CloseEvent(w, code)

Spec == Init /\ [][Next]_vars

-----------------------------------------------------------------------------
(* Properties *)

\* Every variable has its type.
TypeOK ==
  /\ {initialized, token, relayDevice, saving, connected, waiting, woken, connectDisabled, registerDisabled} \subseteq BOOLEAN
  /\ mode \in {"local", "relay"}
  /\ socket \in Attempts \cup {None} /\ current \in Attempts \cup {None} /\ localSession \in Attempts \cup {None}
  /\ kind \in [Attempts -> Kinds \cup {"none"}]
  /\ readyState \in [Attempts -> {"connecting", "open", "closing", "closed"}]
  /\ session \in [Attempts -> Sessions]
  /\ retry \in {"none", "local", "relay"}
  /\ status \in Statuses
  /\ proven \subseteq Attempts

\* There is one connection at a time, and nothing outlives it: no other socket
\* is being opened or open, no retry is due while there is one, and a call waits
\* only while connected.
NothingOutlivesItsConnection ==
  /\ \A w \in Attempts : readyState[w] \in {"connecting", "open"} => w = socket
  /\ retry # "none" => socket = None
  /\ waiting => connected

\* "Commands run only after the peer proved who it is." (ui.html:224): a window that
\* has a token, or uses the relay, is connected only by a socket whose other side
\* proved itself, and every window says that it is connected only when it is. The
\* one that has no token yet, in an attempt to pair, is the exception.
ConnectedIsProven ==
  /\ connected => socket \in proven \cup {w \in Attempts : kind[w] = "pair" /\ ~token}
  /\ status = "connected" => connected

\* The sentence as it stands, without the exception. The code does not keep it
\* (ui.html:302).
EveryPeerIsProven == connected => socket \in proven

\* The code that is asked for on the local tab goes to the companion that asked:
\* an earlier pairing's form never sends it on a later connection.
CodeGoesToItsAttempt ==
  mode = "local" /\ localSession # None /\ socket # None => localSession = socket

Credentials == IF mode = "local" THEN token ELSE relayDevice

\* A window that could connect and neither does nor will has told its user why.
IdleForAReason ==
  Credentials /\ socket = None /\ retry = "none" /\ ~woken =>
    status \in {"told", "try again", "forgotten"}

\* The step in which a hello timer ends that belongs to a replaced attempt leaves
\* the connection that replaced it alone.
EndsQuietly ==
  \A w \in Attempts :
    session[w].helloTimer /\ ~session'[w].helloTimer /\ socket # w =>
      UNCHANGED <<socket, readyState, connected, status>>

\* "A replaced connection attempt cannot close the connection that replaced it"
\* (plugin-ui.test.mjs:170).
TimersSpareTheirSuccessors == [][EndsQuietly]_vars

\* "Could not verify this computer. Try connecting again." (ui.html:297): then
\* Connect can be clicked.
TryingAgainIsPossible ==
  status = "try again" /\ mode = "local" /\ ~token => ~connectDisabled
=============================================================================
