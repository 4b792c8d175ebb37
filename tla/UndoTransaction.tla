--------------------------- MODULE UndoTransaction ---------------------------
(***************************************************************************)
(* figma-plugin/src/undo-transaction.ts under the commands that use it     *)
(* (batch.execute, designTokens.upsert and delete, nodes.delete,           *)
(* shaders.apply) and next to those that do not, as figma.ui.onmessage     *)
(* (code.ts) runs them: every command is an asynchronous function of its   *)
(* own, so the edits of one may fall between two edits of another.         *)
(* document.searchReplaceText commits what it replaced without a boundary. *)
(*                                                                         *)
(* figma.commitUndo and figma.triggerUndo are Figma's: committing without  *)
(* a change does nothing, triggering goes back to the last committed state.*)
(***************************************************************************)
EXTENDS Naturals, Sequences, FiniteSets

CONSTANTS
  CommandIds,    \* commands the plugin receives, each once
  Transactions,  \* those that run in withUndoTransaction
  Replacements,  \* document.searchReplaceText, which commits what it did
  Edits,         \* how many edits a command makes
  NoMarker       \* the plugin data before any transaction

ASSUME UndoAssumption ==
  /\ Transactions \subseteq CommandIds
  /\ Replacements \subseteq CommandIds \ Transactions
  /\ Edits \in Nat
  /\ NoMarker \notin CommandIds

VARIABLES
  document,   \* [edits, marker]: the edits in it, and the boundary marker
  undo,       \* the states committed so far, the last one the newest
  outcome,    \* per command: "idle", "running", "done", or "failed"
  made,       \* how many of its edits a command has made
  previous,   \* previousMarker of each transaction
  met         \* per command, those that ran at the same time: no guard reads it

undoVars == <<document, undo, outcome, made, previous, met>>

AllEdits == CommandIds \X (1 .. Edits)

EditsOf(c) == {c} \X (1 .. Edits)

Documents == [edits : SUBSET AllEdits, marker : CommandIds \cup {NoMarker}]

UndoInit ==
  /\ document = [edits |-> {}, marker |-> NoMarker]
  /\ undo = <<document>>
  /\ outcome = [c \in CommandIds |-> "idle"]
  /\ made = [c \in CommandIds |-> 0]
  /\ previous = [c \in CommandIds |-> NoMarker]
  /\ met = [c \in CommandIds |-> {}]

Newest == undo[Len(undo)]

\* figma.commitUndo()
CommitUndo(state) == IF state = Newest THEN undo ELSE Append(undo, state)

\* figma.triggerUndo()
TriggerUndo == Newest

Running == {c \in CommandIds : outcome[c] = "running"}

\* Every command that runs when c arrives meets c, and c meets it.
Meet(c) ==
  met' = [d \in CommandIds |-> IF d = c THEN Running
                              ELSE IF d \in Running THEN met[d] \cup {c} ELSE met[d]]

\* Mutant: the boundary is not committed.
Begin_NoBoundary(c) ==
  /\ outcome[c] = "idle"
  /\ outcome' = [outcome EXCEPT ![c] = "running"]
  /\ IF c \in Transactions
     THEN /\ previous' = [previous EXCEPT ![c] = document.marker]
          /\ document' = [document EXCEPT !.marker = c]
          /\ UNCHANGED undo
     ELSE UNCHANGED <<previous, document, undo>>
  /\ Meet(c)
  /\ UNCHANGED made

\* The command arrives. A transaction sets a marker of its own, a change that
\* makes commitUndo close what the plugin did before.
Begin(c) ==
  /\ outcome[c] = "idle"
  /\ outcome' = [outcome EXCEPT ![c] = "running"]
  /\ IF c \in Transactions
     THEN /\ previous' = [previous EXCEPT ![c] = document.marker]
          /\ document' = [document EXCEPT !.marker = c]
          /\ undo' = CommitUndo(document')
     ELSE UNCHANGED <<previous, document, undo>>
  /\ Meet(c)
  /\ UNCHANGED made

\* One operation of the command, up to the next await.
Edit(c) ==
  /\ outcome[c] = "running"
  /\ c \notin Replacements
  /\ made[c] < Edits
  /\ made' = [made EXCEPT ![c] = @ + 1]
  /\ document' = [document EXCEPT !.edits = @ \cup {<<c, made'[c]>>}]
  /\ UNCHANGED <<undo, outcome, previous, met>>

\* Once the fonts are there the texts are replaced without an await, all of them,
\* which is committed, or up to one that cannot be, which is not.
Replace(c) ==
  /\ outcome[c] = "running"
  /\ c \in Replacements
  /\ \E k \in 1 .. Edits :
       /\ made' = [made EXCEPT ![c] = k]
       /\ document' = [document EXCEPT !.edits = @ \cup ({c} \X (1 .. k))]
       /\ IF k = Edits
          THEN /\ undo' = CommitUndo(document')
               /\ outcome' = [outcome EXCEPT ![c] = "done"]
          ELSE /\ outcome' = [outcome EXCEPT ![c] = "failed"]
               /\ UNCHANGED undo
  /\ UNCHANGED <<previous, met>>

Succeed(c) ==
  /\ outcome[c] = "running"
  /\ made[c] = Edits
  /\ outcome' = [outcome EXCEPT ![c] = "done"]
  /\ IF c \in Transactions
     THEN /\ document' = [document EXCEPT !.marker = previous[c]]
          /\ undo' = CommitUndo(document')
     ELSE UNCHANGED <<document, undo>>
  /\ UNCHANGED <<made, previous, met>>

\* Mutant: the failure is reported and nothing undone.
Fail_NoUndo(c) ==
  /\ outcome[c] = "running"
  /\ outcome' = [outcome EXCEPT ![c] = "failed"]
  /\ UNCHANGED <<document, undo, made, previous, met>>

\* Any operation may fail. A command without a transaction leaves what it did.
Fail(c) ==
  /\ outcome[c] = "running"
  /\ outcome' = [outcome EXCEPT ![c] = "failed"]
  /\ document' = IF c \in Transactions THEN TriggerUndo ELSE document
  /\ UNCHANGED <<undo, made, previous, met>>

Quiescent ==
  /\ \A c \in CommandIds : outcome[c] \in {"done", "failed"}
  /\ UNCHANGED undoVars

UndoNext ==
  \/ \E c \in CommandIds : Begin(c) \/ Edit(c) \/ Replace(c) \/ Succeed(c) \/ Fail(c)
  \/ Quiescent

UndoSpec == UndoInit /\ [][UndoNext]_undoVars

-----------------------------------------------------------------------------
(* Properties. What a command is promised depends on which others ran while *)
(* it did: a rollback is safe as long as nothing committed in between.       *)

\* The type invariant.
UndoTypeOK ==
  /\ document \in Documents
  /\ undo \in Seq(Documents)
  /\ outcome \in [CommandIds -> {"idle", "running", "done", "failed"}]
  /\ made \in [CommandIds -> 0 .. Edits]
  /\ previous \in [CommandIds -> CommandIds \cup {NoMarker}]
  /\ met \in [CommandIds -> SUBSET CommandIds]

\* While c ran, no other command could set or commit a state of the history.
Uncrossed(c) == met[c] \cap (Transactions \cup Replacements) = {}

\* skills/figma-bridge/SKILL.md:31: "a failed execution is rolled back". A
\* transaction that failed leaves nothing of itself behind.
RollbackIsComplete ==
  \A c \in Transactions : outcome[c] = "failed" => document.edits \cap EditsOf(c) = {}

\* The same of a transaction that no other one and no replacement overlapped, whatever
\* plain commands did between its edits and whatever overlapped later: triggerUndo
\* goes back to its own boundary, and no later rollback to a state with its edits.
UncrossedRollback ==
  \A c \in Transactions : outcome[c] = "failed" /\ Uncrossed(c) =>
      document.edits \cap EditsOf(c) = {}

\* What was reported done stays done, whatever is rolled back later: of a command
\* that no transaction overlapped, even of one that committed nothing, and of every
\* replacement.
DoneIsKept ==
  \A c \in CommandIds :
     outcome[c] = "done" /\ (c \in Replacements \/ met[c] \cap Transactions = {}) =>
        EditsOf(c) \subseteq document.edits

\* README.md:33, "one Undo step": an uncrossed transaction that succeeded is a
\* single step of the undo history, with all of its edits and no others but those
\* that plain commands made meanwhile.
OneUndoStep ==
  \A c \in Transactions : outcome[c] = "done" /\ Edits > 0 /\ Uncrossed(c) =>
      \E i \in 2 .. Len(undo) :
         /\ EditsOf(c) \subseteq undo[i].edits \ undo[i - 1].edits
         /\ undo[i].edits \ undo[i - 1].edits \subseteq UNION {EditsOf(d) : d \in {c} \cup met[c]}

\* What was reported done is in the document, and a transaction's is one step that
\* the user can undo.
FinishedWorkStays == DoneIsKept /\ OneUndoStep
=============================================================================
