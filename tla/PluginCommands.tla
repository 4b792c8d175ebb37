---------------------------- MODULE PluginCommands ----------------------------
(***************************************************************************)
(* The plugin executes a command: dispatch() of figma-plugin/src/code.ts,  *)
(* planStructureBatch() and executeStructureBatch() of                     *)
(* structure-operations.ts. A command is planned, where the code plans it, *)
(* and then its operations are done one after another, in an undo          *)
(* transaction where the code opens one. UndoTransaction is about commands *)
(* that run at the same time; here there is one, and figma.triggerUndo()   *)
(* brings back the document of the last figma.commitUndo().                *)
(***************************************************************************)
EXTENDS PluginOperations

CONSTANTS
  Document,    \* the document the command finds
  MaxMatches,  \* limit, of the matches a search returns
  Commands     \* commands: a name, dryRun, and the operations

VARIABLES
  doc,
  committed,   \* the document of the last undo boundary
  cmd,
  at,          \* what the command is doing
  step,        \* the operation that is next
  results,     \* stepResults: the nodes of each named operation
  named,       \* affectedNodeIds of the plan
  deferred,    \* some operation was not planned
  why          \* why the command failed

commandVars == <<doc, committed, cmd, at, step, results, named, deferred, why>>

NoCommand == [name |-> "", dryRun |-> FALSE, ops |-> <<>>]

CommandInit ==
  /\ doc = Document
  /\ committed = Document
  /\ cmd = NoCommand
  /\ at = "idle"
  /\ step = 1
  /\ results = <<>>
  /\ named = {}
  /\ deferred = FALSE
  /\ why = ""

\* Commands that call withUndoTransaction(), each around its operations.
Transactional ==
  {"batch.execute", "designTokens.upsert", "designTokens.delete", "nodes.delete", "shaders.apply"}

IsBatch == cmd.name = "batch.execute"

-----------------------------------------------------------------------------
(* References: a node may be the k-th of the result of a named operation *)

References(op) ==
  {r \in UNION {{item.node, item.parent} : item \in ToSet(op.items)} : r.step # ""}

\* hasReference(); the model's tokens have none.
RefersBack(op) == op.kind \notin TokenKinds /\ References(op) # {}

\* dispatch(): what a command calls, other than batch.execute.
Dispatched ==
  {<<"document.searchReplaceText", "searchReplaceText">>,
   <<"nodes.create", "createNodes">>, <<"nodes.update", "updateNodes">>, <<"nodes.delete", "deleteNodes">>,
   <<"nodes.autoLayout", "applyAutoLayout">>, <<"nodes.visual", "applyVisualProperties">>,
   <<"shaders.apply", "applyShader">>,
   <<"components.create", "createComponents">>, <<"components.createSet", "createComponentSet">>,
   <<"instances.create", "createInstances">>, <<"instances.setProperties", "setInstanceVariantProperties">>,
   <<"nodes.duplicate", "duplicateNodes">>, <<"nodes.move", "moveNodes">>, <<"nodes.reorder", "reorderNodes">>,
   <<"nodes.group", "groupNodes">>, <<"nodes.ungroup", "ungroupNodes">>,
   <<"designTokens.upsert", "upsertDesignTokens">>, <<"designTokens.delete", "deleteDesignTokens">>}

\* Only a batch has several operations, or references between them.
ASSUME CommandsAssumption ==
  \A c \in Commands : c.name # "batch.execute" =>
    /\ DOMAIN c.ops = {1}
    /\ <<c.name, c.ops[1].kind>> \in Dispatched
    /\ ~RefersBack(c.ops[1])

\* records(), strings(), optionalIndex(): what is taken from the arguments.
ASSUME ItemsAssumption ==
  \A c \in Commands : \A i \in DOMAIN c.ops :
    /\ DOMAIN c.ops[i] = {"id", "kind", "items", "text"}
    /\ c.ops[i].items \in Seq(ToSet(c.ops[i].items))
    /\ c.ops[i].kind \in WholeKinds => c.ops[i].items # <<>>
    /\ c.ops[i].kind \notin TokenKinds => \A item \in ToSet(c.ops[i].items) : item.index \in Nat

\* What the plugin finds open is a tree of nodes, in which groups are what groups
\* can be, and limit is not negative (integerArg() in searchAndReplaceText()).
ASSUME DocumentAssumption ==
  /\ IsTree(Document) /\ Emptied(Document) = {}
  /\ \A n \in Nodes(Document) : n = Page \/ Document.type[n] = "GROUP" => Document.at[n] = 0
  /\ MaxMatches \in Nat

\* Mutant: any named operation of the batch will do.
ReferencesEarlier_Any(ops, i) ==
  RefersBack(ops[i]) => \A r \in References(ops[i]) : \E j \in DOMAIN ops : ops[j].id = r.step

\* validateReferences()
ReferencesEarlier(ops, i) ==
  RefersBack(ops[i]) => \A r \in References(ops[i]) : \E j \in 1 .. i - 1 : ops[j].id = r.step

\* parseBatchOperations()
IdsAreUnique(ops) == \A i, j \in DOMAIN ops : i # j /\ ops[i].id # "" => ops[i].id # ops[j].id

\* resolveReferences(): the step has a result, and the path exists in it.
Available(op) == RefersBack(op) => \A r \in References(op) : r.step \in DOMAIN results
PathsExist(op) == RefersBack(op) => \A r \in References(op) : r.node \in DOMAIN results[r.step]

Resolve(r) == IF r.step = "" THEN r.node ELSE results[r.step][r.node]

Resolved(op) ==
  IF op.kind \in TokenKinds THEN op
  ELSE [op EXCEPT !.items = [i \in DOMAIN @ |->
          [node |-> Resolve(@[i].node), parent |-> Resolve(@[i].parent), index |-> @[i].index]]]

-----------------------------------------------------------------------------
(* Plans *)

\* planOperation() and the plans of batchHandlers(): an operation without
\* references fits the document as it is.
Plannable(d, op) ==
  /\ \A item \in ToSet(op.items) : Found(d, op.kind, item)
  /\ op.kind = "moveNodes" => \A item \in ToSet(op.items) : ~IsDescendant(d, item.parent, item.node)
  /\ op.kind = "reorderNodes" => \A item \in ToSet(op.items) : item.node \in ToSet(d.kids[item.parent])
  /\ op.kind = "updateNodes" /\ op.text # "" => \A item \in ToSet(op.items) : d.type[item.node] = "TEXT"

\* The matches of a search that are returned: the first of them, up to a limit.
Listed(d, query) == {n \in Matches(d, query) : Cardinality({m \in Matches(d, query) : m <= n}) <= MaxMatches}

\* Mutant: the plan names where the nodes go.
Names_Parents(d, op) ==
  IF op.kind = "searchReplaceText" THEN Listed(d, op.text)
  ELSE IF op.kind \in TokenKinds THEN {}
  ELSE {item.parent : item \in ToSet(op.items)} \ {Absent}

\* affectedNodeIds of one operation.
Names(d, op) ==
  CASE op.kind = "searchReplaceText" -> Listed(d, op.text)
    [] op.kind \in TokenKinds -> {}
    [] op.kind = "createNodes" -> {item.parent : item \in ToSet(op.items)} \ {Absent}
    [] OTHER -> {item.node : item \in ToSet(op.items)} \ {Absent}

\* The tokens that are to be deleted exist; a batch deletes none.
PlanFits(d, op) ==
  IF op.kind \in TokenKinds
  THEN op.kind = "deleteDesignTokens" => \A item \in ToSet(op.items) : item.name \in DOMAIN d.tokens
  ELSE RefersBack(op) \/ Plannable(d, Resolved(op))

-----------------------------------------------------------------------------
(* The command *)

\* Mutant: what is created or updated is not planned first.
PlansFirst_BatchOnly(c) == c.name = "batch.execute"

\* createNodes() and updateNodes() plan, too; what is deleted is looked up.
PlansFirst(c) ==
  c.name \in {"batch.execute", "nodes.create", "nodes.update", "nodes.delete", "designTokens.delete"}

Accepted(c) ==
  PlansFirst(c) =>
    /\ c.name = "batch.execute" => \A i \in DOMAIN c.ops : c.ops[i].kind \in BatchKinds
    /\ IdsAreUnique(c.ops)
    /\ \A i \in DOMAIN c.ops : ReferencesEarlier(c.ops, i) /\ PlanFits(doc, c.ops[i])

\* dispatch(), as far as the first change of the document. The plan of a search is
\* a dry run of it, whatever its arguments say.
Receive(c) ==
  /\ at = "idle"
  /\ cmd' = c
  /\ IF ~Accepted(c)
     THEN /\ at' = "failed" /\ why' = "refused"
          /\ UNCHANGED <<committed, named, deferred>>
     ELSE /\ at' = IF c.dryRun THEN "done" ELSE "running"
          /\ committed' = IF c.name \in Transactional /\ ~c.dryRun THEN doc ELSE committed
          /\ deferred' = \E op \in ToSet(c.ops) : RefersBack(op)
          /\ named' = UNION {Names(doc, Resolved(op)) : op \in {o \in ToSet(c.ops) : ~RefersBack(o)}}
          /\ UNCHANGED why
  /\ UNCHANGED <<doc, step, results>>

\* Mutant: a search inside a batch commits what was done so far.
CommitsItself_Always(op) == op.kind = "searchReplaceText" /\ Matches(doc, op.text) # {}

\* searchAndReplaceText() makes an undo boundary of its own, but not in a batch;
\* nor does upsertDesignTokens() open a transaction of its own there.
CommitsItself(op) == ~IsBatch /\ op.kind = "searchReplaceText" /\ Matches(doc, op.text) # {}

Current == cmd.ops[step]

Execute ==
  /\ at = "running" /\ step \in DOMAIN cmd.ops
  /\ Available(Current) /\ PathsExist(Current)
  /\ LET r == Done(doc, Resolved(Current)) IN
       /\ r.ok
       /\ doc' = r.doc
       /\ results' = IF Current.id = "" THEN results
                     ELSE [id \in DOMAIN results \cup {Current.id} |-> IF id = Current.id THEN r.out ELSE results[id]]
       /\ committed' = IF CommitsItself(Current) THEN doc' ELSE committed
  /\ step' = step + 1
  /\ UNCHANGED <<cmd, at, named, deferred, why>>

\* The step of a reference has no result, its path does not exist in it, an item
\* does not fit the document as it is by now, or the API refuses after any
\* number of items.
Failures(op) ==
  IF ~Available(op) \/ ~PathsExist(op) THEN {Thrown(doc)}
  ELSE {r \in {Done(doc, Resolved(op))} \cup {Broken(doc, Resolved(op), n) : n \in 0 .. Len(Items(doc, op))} : ~r.ok}

Throws ==
  /\ at = "running" /\ step \in DOMAIN cmd.ops
  /\ \E r \in Failures(Current) :
       doc' = IF cmd.name \in Transactional THEN committed ELSE r.doc
  /\ at' = "failed"
  /\ why' = IF Available(Current) THEN "threw" ELSE "unavailable step"
  /\ UNCHANGED <<committed, cmd, step, results, named, deferred>>

Finish ==
  /\ at = "running" /\ step \notin DOMAIN cmd.ops
  /\ at' = "done"
  /\ committed' = IF cmd.name \in Transactional THEN doc ELSE committed
  /\ UNCHANGED <<doc, cmd, step, results, named, deferred, why>>

CommandNext ==
  \/ \E c \in Commands : Receive(c)
  \/ Execute \/ Throws \/ Finish

CommandSpec == CommandInit /\ [][CommandNext]_commandVars

-----------------------------------------------------------------------------
(* Properties *)

\* A transactional command that fails at any point, after any operation and any
\* item of it, leaves the document as it was, whatever its operations commit
\* when they run on their own (code.ts:272, structure-operations.ts:403).
TransactionsAreAtomic ==
  at = "failed" /\ cmd.name \in Transactional => doc = Document

\* A batch whose plan was accepted never gets to a reference whose step has no
\* result (structure-operations.ts:537).
ReferencesAreAvailable == why # "unavailable step"

\* Creations and updates that do not fit the document are refused before the
\* first of them is done (code.ts:334, 376): only the API can leave them
\* half-done.
RefusedBeforeTheFirst ==
  cmd.name \in {"nodes.create", "nodes.update"} /\ ~Plannable(Document, Resolved(cmd.ops[1])) => doc = Document

Changed(n) ==
  \/ n \notin Nodes(doc)
  \/ ParentOf(doc, n) # ParentOf(Document, n)
  \/ doc.look[n] # Document.look[n] \/ doc.text[n] # Document.text[n]

Truncated ==
  \E op \in ToSet(cmd.ops) : op.kind = "searchReplaceText" /\ Cardinality(Matches(Document, op.text)) > MaxMatches

\* A group that lost its last node, and is gone with it.
LeftEmpty(n) == Document.type[n] = "GROUP" /\ n \notin Nodes(doc)

\* Every node of the user's document that a batch moves, rewrites or takes away
\* was named by the plan the user saw, or was a child of a node that was
\* (SKILL.md:30): later operations find what earlier ones left, but reach no
\* other nodes of the user's. But Figma takes away the groups whose last nodes
\* leave, and no plan names them (structure-operations.ts:467). Operations with
\* references are not planned, and a search of more matches than its limit names
\* only the first.
PreviewNamesTargets ==
  at = "done" /\ IsBatch /\ ~deferred /\ ~Truncated =>
    \A n \in Nodes(Document) \ {Page} :
      Changed(n) => n \in named \/ ParentOf(Document, n) \in named \/ LeftEmpty(n)

\* With the groups that are left empty, which the plan does not name.
PreviewNamesGroups ==
  at = "done" /\ IsBatch /\ ~deferred /\ ~Truncated =>
    \A n \in Nodes(Document) \ {Page} : Changed(n) => n \in named \/ ParentOf(Document, n) \in named

OnlyRearranges ==
  \A op \in ToSet(cmd.ops) : op.kind \in {"moveNodes", "reorderNodes", "groupNodes", "ungroupNodes"}

\* No node is moved into a group, or into what an earlier operation made.
MovesIntoNoGroup ==
  \A op \in ToSet(cmd.ops) : op.kind = "moveNodes" =>
    \A item \in ToSet(op.items) :
      item.parent.step = "" /\ item.parent.node \in Nodes(Document) /\ Document.type[item.parent.node] # "GROUP"

PlacesAreKept ==
  \A n \in Nodes(Document) \cap Nodes(doc) : Document.type[n] # "GROUP" => Absolute(doc, n) = Absolute(Document, n)

\* Nodes that are moved, reordered, grouped and ungrouped stay where they are on
\* the canvas, and so does what is inside them, in any order of operations and
\* through groups that come and go, as long as none is moved into a group.
NothingIsSeenToMove == at = "done" /\ OnlyRearranges /\ MovesIntoNoGroup => PlacesAreKept

\* In a group, too, which preserveAbsolutePosition does not achieve: the node is
\* placed as if its coordinates began where the group is seen
\* (structure-operations.ts:146).
NothingIsSeenToMoveAtAll == at = "done" /\ OnlyRearranges => PlacesAreKept
=============================================================================
