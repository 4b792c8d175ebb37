-------------------------- MODULE CompanionPairing --------------------------
(***************************************************************************)
(* companion/src/server.mjs, the connection handler: how a Figma plugin    *)
(* authenticates to the companion, with the token it has or, the first     *)
(* time, by pairing: the companion shows a code in a dialog on the         *)
(* computer and the plugin proves that it was typed in.                    *)
(*                                                                         *)
(* Messages, timers, the dialog's answer and the close event of every      *)
(* connection interleave; each is one action. A proof is either right or   *)
(* wrong. What an authenticated connection does is FigmaHub's.             *)
(***************************************************************************)
EXTENDS Naturals, Sequences, FiniteSets

CONSTANTS
  Sockets,
  MinInterval, Window, MaxPerWindow,   \* PAIRING_MIN_INTERVAL_MS, _WINDOW_MS, _MAX_PER_WINDOW
  MaxClock                             \* bound: the last moment of the model

ASSUME PairingAssumption ==
  /\ {MinInterval, Window, MaxClock} \subseteq Nat
  /\ MaxPerWindow \in Nat \ {0}
  /\ MinInterval <= Window

VARIABLES
  clock,
  readyState,         \* per socket: "open", "closing", "terminated" or "closed"
  authenticated,      \* authenticatedClientId is set
  pairing,            \* "none", "code" (not yet guessed), or "spent" (pairing.code = null)
  dialog,             \* "none", "shown", or "gone"
  timer,              \* authenticationTimeout: "auth", "pair", or "off"
  pairingInProgress,
  pairingStarts,
  guesses,            \* history: proofs that were compared with the code
  prompts             \* history: every moment pairing was started

socketVars == <<readyState, authenticated, pairing, dialog, timer, guesses>>
startVars == <<pairingInProgress, pairingStarts, prompts>>
pairingVars == <<clock, socketVars, startVars>>

PairingInit ==
  /\ clock = 0
  /\ readyState = [s \in Sockets |-> "open"]
  /\ authenticated = [s \in Sockets |-> FALSE]
  /\ pairing = [s \in Sockets |-> "none"]
  /\ dialog = [s \in Sockets |-> "none"]
  /\ timer = [s \in Sockets |-> "auth"]
  /\ guesses = [s \in Sockets |-> 0]
  /\ pairingInProgress = FALSE
  /\ pairingStarts = <<>>
  /\ prompts = <<>>

\* websocket.close(): the peer's messages arrive until it closed its side too.
Closing(s) == [readyState EXCEPT ![s] = IF @ = "open" THEN "closing" ELSE @]

Delivers(s) == readyState[s] \in {"open", "closing"}

Unauthenticated(s) == Delivers(s) /\ ~authenticated[s]

\* authenticate()
Authenticate(s) ==
  /\ authenticated' = [authenticated EXCEPT ![s] = TRUE]
  /\ timer' = [timer EXCEPT ![s] = "off"]

Dismissed(s) == [dialog EXCEPT ![s] = IF @ = "shown" THEN "gone" ELSE @]

-----------------------------------------------------------------------------
(* Messages *)

Auth(s, right) ==
  /\ Unauthenticated(s)
  /\ IF right
     THEN Authenticate(s) /\ UNCHANGED readyState
     ELSE readyState' = Closing(s) /\ UNCHANGED <<authenticated, timer>>
  /\ UNCHANGED <<clock, pairing, dialog, guesses, startVars>>

\* How many starts are shifted out, from the front on, until one is not too old.
Shifted ==
  CHOOSE k \in 0 .. Len(pairingStarts) :
    /\ k < Len(pairingStarts) => clock <= pairingStarts[k + 1] + Window
    /\ \A i \in 1 .. k : clock > pairingStarts[i] + Window

Recent == SubSeq(pairingStarts, Shifted + 1, Len(pairingStarts))

\* Mutant: starting is refused only above the limit.
MayStart_OneMore ==
  /\ ~pairingInProgress
  /\ Len(Recent) <= MaxPerWindow
  /\ Recent # <<>> => clock >= Recent[Len(Recent)] + MinInterval

\* Mutant: two dialogs may be shown.
MayStart_Parallel ==
  /\ Len(Recent) < MaxPerWindow
  /\ Recent # <<>> => clock >= Recent[Len(Recent)] + MinInterval

MayStart ==
  /\ ~pairingInProgress
  /\ Len(Recent) < MaxPerWindow
  /\ Recent # <<>> => clock >= Recent[Len(Recent)] + MinInterval

\* Mutant: the authentication timer is cleared and not replaced.
StartPairing_NoTimer(s, shows) ==
  /\ pairingInProgress' = TRUE
  /\ pairingStarts' = Append(Recent, clock)
  /\ prompts' = Append(prompts, clock)
  /\ timer' = [timer EXCEPT ![s] = "off"]
  /\ pairing' = [pairing EXCEPT ![s] = "code"]
  /\ IF shows
     THEN dialog' = [dialog EXCEPT ![s] = "shown"] /\ UNCHANGED readyState
     ELSE readyState' = Closing(s) /\ UNCHANGED dialog

\* A pairing that may start. Where no dialog can be shown, it ends at once.
StartPairing(s, shows) ==
  /\ pairingInProgress' = TRUE
  /\ pairingStarts' = Append(Recent, clock)
  /\ prompts' = Append(prompts, clock)
  /\ timer' = [timer EXCEPT ![s] = "pair"]
  /\ pairing' = [pairing EXCEPT ![s] = "code"]
  /\ IF shows
     THEN dialog' = [dialog EXCEPT ![s] = "shown"] /\ UNCHANGED readyState
     ELSE readyState' = Closing(s) /\ UNCHANGED dialog

\* "pair". What is too old is dropped from pairingStarts even when the answer
\* is no, unless the question is not asked (a second "pair", a web origin).
Pair(s, allowedOrigin, shows) ==
  /\ Unauthenticated(s)
  /\ IF pairing[s] = "none" /\ allowedOrigin /\ MayStart
     THEN StartPairing(s, shows)
     ELSE /\ readyState' = Closing(s)
          /\ pairingStarts' = IF pairing[s] = "none" /\ allowedOrigin THEN Recent ELSE pairingStarts
          /\ UNCHANGED <<pairing, dialog, timer, pairingInProgress, prompts>>
  /\ UNCHANGED <<clock, authenticated, guesses>>

\* "pair.proof"
PairProof(s, right) ==
  /\ Unauthenticated(s)
  /\ pairing[s] = "code"
  /\ pairing' = [pairing EXCEPT ![s] = "spent"]
  /\ guesses' = [guesses EXCEPT ![s] = @ + 1]
  /\ IF right
     THEN dialog' = Dismissed(s) /\ Authenticate(s) /\ UNCHANGED readyState
     ELSE readyState' = Closing(s) /\ UNCHANGED <<dialog, authenticated, timer>>
  /\ UNCHANGED <<clock, startVars>>

\* Anything else an unauthenticated peer sends, a second proof included.
Refuse(s) ==
  /\ Unauthenticated(s)
  /\ readyState[s] = "open"
  /\ readyState' = Closing(s)
  /\ UNCHANGED <<clock, authenticated, pairing, dialog, timer, guesses, startVars>>

-----------------------------------------------------------------------------
(* Everything else that happens to a connection *)

\* The person closed the dialog, or it gave up: only Cancel ends the pairing.
DialogAnswered(s, cancelled) ==
  /\ dialog[s] = "shown"
  /\ dialog' = [dialog EXCEPT ![s] = "gone"]
  /\ readyState' = IF cancelled /\ ~authenticated[s] THEN Closing(s) ELSE readyState
  /\ UNCHANGED <<clock, authenticated, pairing, timer, guesses, startVars>>

\* terminate() destroys the socket, close() asks the peer.
Timeout(s) ==
  /\ timer[s] # "off"
  /\ readyState[s] # "closed"
  /\ readyState' = IF timer[s] = "auth" THEN [readyState EXCEPT ![s] = "terminated"] ELSE Closing(s)
  /\ timer' = [timer EXCEPT ![s] = "off"]
  /\ UNCHANGED <<clock, authenticated, pairing, dialog, guesses, startVars>>

PeerCloses(s) ==
  /\ readyState[s] = "open"
  /\ readyState' = Closing(s)
  /\ UNCHANGED <<clock, authenticated, pairing, dialog, timer, guesses, startVars>>

\* The close event; an open connection may also just break.
CloseEvent(s) ==
  /\ readyState[s] # "closed"
  /\ readyState' = [readyState EXCEPT ![s] = "closed"]
  /\ timer' = [timer EXCEPT ![s] = "off"]
  /\ IF pairing[s] # "none"
     THEN dialog' = Dismissed(s) /\ pairingInProgress' = FALSE
     ELSE UNCHANGED <<dialog, pairingInProgress>>
  /\ UNCHANGED <<clock, authenticated, pairing, guesses, pairingStarts, prompts>>

ClockTick ==
  /\ clock < MaxClock
  /\ clock' = clock + 1
  /\ UNCHANGED <<socketVars, startVars>>

PairingNext ==
  \/ \E s \in Sockets, right \in BOOLEAN : Auth(s, right)
  \/ \E s \in Sockets, allowedOrigin, shows \in BOOLEAN : Pair(s, allowedOrigin, shows)
  \/ \E s \in Sockets, right \in BOOLEAN : PairProof(s, right)
  \/ \E s \in Sockets : Refuse(s)
  \/ \E s \in Sockets, cancelled \in BOOLEAN : DialogAnswered(s, cancelled)
  \/ \E s \in Sockets : Timeout(s)
  \/ \E s \in Sockets : PeerCloses(s)
  \/ \E s \in Sockets : CloseEvent(s)
  \/ ClockTick

\* A timer fires, and a connection that is being closed gets its close event
\* (the WebSocket library does not wait for the peer for ever).
Fairness ==
  \A s \in Sockets :
    /\ WF_pairingVars(Timeout(s))
    /\ WF_pairingVars(readyState[s] \in {"closing", "terminated"} /\ CloseEvent(s))

PairingSpec == PairingInit /\ [][PairingNext]_pairingVars

FairSpec == PairingSpec /\ Fairness

-----------------------------------------------------------------------------
(* Properties *)

\* The type invariant.
TypeOK ==
  /\ clock \in 0 .. MaxClock
  /\ readyState \in [Sockets -> {"open", "closing", "terminated", "closed"}]
  /\ authenticated \in [Sockets -> BOOLEAN]
  /\ pairing \in [Sockets -> {"none", "code", "spent"}]
  /\ dialog \in [Sockets -> {"none", "shown", "gone"}]
  /\ timer \in [Sockets -> {"auth", "pair", "off"}]
  /\ guesses \in [Sockets -> Nat]
  /\ pairingInProgress \in BOOLEAN
  /\ pairingStarts \in Seq(0 .. MaxClock)
  /\ prompts \in Seq(0 .. MaxClock)

\* Dialogs are serialized (server.mjs:185): however pairings are refused,
\* cancelled, timed out, guessed wrong or cut off, at most one dialog is on the
\* screen, and it belongs to a connection that still exists.
OneDialog ==
  \A s \in Sockets :
    dialog[s] = "shown" =>
      /\ readyState[s] # "closed"
      /\ \A t \in Sockets : dialog[t] = "shown" => t = s

\* One guess per dialog (server.mjs:151): a peer that goes on sending proofs
\* while the connection that refused it closes gets no second one.
OneGuessPerDialog == \A s \in Sockets : guesses[s] <= 1

\* However pairings overlap, fail and are tried again, there is one dialog at a
\* time, and one guess at its code.
PairingIsSerialized == OneDialog /\ OneGuessPerDialog

\* Dialogs are rate limited (server.mjs:185): no two within MinInterval and no
\* more than MaxPerWindow within any Window, counted over all connections.
PromptsAreRateLimited ==
  \A i, j \in DOMAIN prompts : i < j =>
    /\ prompts[j] >= prompts[i] + MinInterval
    /\ j >= i + MaxPerWindow => prompts[j] > prompts[i] + Window

\* A plugin that authenticated, by either way and whatever it did before, is
\* not cut off by a timer left over from the time it had not.
NoTimerAfterAuthentication ==
  \A s \in Sockets : authenticated[s] => timer[s] = "off" \/ readyState[s] = "closed"

\* Every connection authenticates or ends: there is no way to hold one, or a
\* pairing, open without proving anything.
ConnectionsAreDecided ==
  \A s \in Sockets : (~authenticated[s]) ~> (authenticated[s] \/ readyState[s] = "closed")
=============================================================================
