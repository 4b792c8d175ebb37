--------------------------- MODULE PluginOperations ---------------------------
(***************************************************************************)
(* The operations of figma-plugin/src/structure-operations.ts and the ones *)
(* of code.ts, design-operations.ts, document-operations.ts and            *)
(* shader-operations.ts that change the document: what each does to a      *)
(* document, item by item, and what is found out about it beforehand.      *)
(*                                                                         *)
(* An operation has a kind, an id that later ones refer to, and items: a   *)
(* node, a parent, an index, each of them absent if it is not given.       *)
(* `text` is what it writes or looks for; fields that only decorate a node *)
(* are left out. Any call of the API may fail.                             *)
(***************************************************************************)
EXTENDS FigmaDocument

\* What an operation has done so far: the document, the nodes of its result.
Outcome(d, out, ok) == [doc |-> d, out |-> out, ok |-> ok]
Thrown(d) == Outcome(d, <<>>, FALSE)

\* insert(): at an index, or last.
MayInsert(d, p, index, n) ==
  /\ Takes(d, p, n)
  /\ index # Absent => index <= Len(d.kids[p]) + 1

Insert(d, p, index, n) ==
  IF index = Absent THEN AppendChild(d, p, n) ELSE InsertChild(d, p, index - 1, n)

\* A node that was just made goes to the parent that is asked for, or stays.
Placed(d, n, item) ==
  IF item.parent = Absent THEN Outcome(d, <<n>>, TRUE)
  ELSE IF ~MayInsert(d, item.parent, item.index, n) THEN Thrown(d)
  ELSE Outcome(Insert(d, item.parent, item.index, n), <<n>>, TRUE)

\* createComponentFromNode(): a component in the node's place, with the children
\* of a container, or with any other node inside.
Converted(d, n) ==
  LET c == d.next
      e == Reparented(Made(d, "COMPONENT", ""), ParentOf(d, n), PlaceOf(d, n) - 1, c)
      f == [e EXCEPT !.at[c] = Seen(d, n) - Absolute(d, ParentOf(d, n))]
  IN IF IsContainer(d, n) THEN Removed(Gathered(f, c, Len(d.kids[n]), d.kids[n]), n) ELSE Gathered(f, c, 0, <<n>>)

CreateComponent(d, item) ==
  Placed(IF item.node = Absent THEN Made(d, "COMPONENT", "") ELSE Converted(d, item.node), d.next, item)

CreateInstance(d, item) == Placed(Made(d, "INSTANCE", ""), d.next, item)

\* clone(): what is inside a clone is left out, but for one node in a group, which
\* would not be there without.
Cloned(d, n) ==
  LET e == Made(d, d.type[n], d.text[n]) IN
  IF d.type[n] = "GROUP" THEN AppendChild(Made(e, "RECTANGLE", ""), d.next, e.next) ELSE e

DuplicateNode(d, item) == Placed(Cloned(d, item.node), d.next, item)

\* What is set as relativeTransform places a node from where the coordinates in
\* its parent begin: that is where the parent is seen, unless it is a group.
MovedTo(d, p, n, relative) == Shifted(d, Carried(d, n), Absolute(d, p) + relative - Seen(d, n))

\* relativeToParent(), in one dimension and without rotation.
RelativeToParent(absolute, parent) == absolute - parent

\* Mutant: where the node was is looked up after it moved.
MoveNode_Late(d, item) ==
  LET e == Insert(d, item.parent, item.index, item.node) IN
  IF IsDescendant(d, item.parent, item.node) \/ ~MayInsert(d, item.parent, item.index, item.node)
  THEN Thrown(d)
  ELSE Outcome(MovedTo(e, item.parent, item.node, RelativeToParent(Seen(e, item.node), Seen(e, item.parent))), <<item.node>>, TRUE)

\* With preserveAbsolutePosition, the default.
MoveNode(d, item) ==
  LET e == Insert(d, item.parent, item.index, item.node) IN
  IF IsDescendant(d, item.parent, item.node) \/ ~MayInsert(d, item.parent, item.index, item.node)
  THEN Thrown(d)
  ELSE Outcome(MovedTo(e, item.parent, item.node, RelativeToParent(Seen(d, item.node), Seen(e, item.parent))), <<item.node>>, TRUE)

UngroupNode(d, item) ==
  IF d.type[ParentOf(d, item.node)] = "INSTANCE" THEN Thrown(d)
  ELSE Outcome(Dissolved(d, item.node), d.kids[item.node], TRUE)

CreateNode(d, item, text) ==
  LET p == IF item.parent = Absent THEN Page ELSE item.parent
      e == Made(d, IF text = "" THEN "FRAME" ELSE "TEXT", text)
  IN IF ~Takes(e, p, d.next) THEN Thrown(e) ELSE Outcome(AppendChild(e, p, d.next), <<d.next>>, TRUE)

\* Fields are set before it turns out that the node has no text.
UpdateNode(d, item, text) ==
  LET e == [d EXCEPT !.look[item.node] = "updated"] IN
  IF text = "" THEN Outcome(e, <<item.node>>, TRUE)
  ELSE IF d.type[item.node] # "TEXT" THEN Thrown(e)
  ELSE Outcome([e EXCEPT !.text[item.node] = text], <<item.node>>, TRUE)

Decorated(d, item, look) == Outcome([d EXCEPT !.look[item.node] = look], <<item.node>>, TRUE)

\* layoutMode exists on these only, and is set before the rest is refused.
ApplyAutoLayout(d, item) ==
  IF d.type[item.node] \notin {"FRAME", "COMPONENT", "COMPONENT_SET", "INSTANCE"} THEN Thrown(d)
  ELSE Decorated(d, item, "laid out")

\* applyVisualProperties() and setProperties() of an instance change what a node
\* looks like.
ApplyVisualProperties(d, item) == Decorated(d, item, "visual")
SetProperties(d, item) == Decorated(d, item, "properties")

\* A text node of which the query was found.
ReplaceText(d, item) == Outcome([d EXCEPT !.text[item.node] = "replaced"], <<item.node>>, TRUE)

\* remove() of a node that is gone, with its parent or before, throws.
DeleteNode(d, item) ==
  IF ~IsScene(d, item.node) THEN Thrown(d) ELSE Outcome(Removed(d, item.node), <<>>, TRUE)

\* A colour has a variable and a paint style, which is looked for among the
\* styles there were before the operation; modes and values are left out.
UpsertToken(d, item, before) ==
  LET e == [d EXCEPT !.tokens = IF item.name \in DOMAIN @ THEN @ ELSE With(@, item.name, item.type)] IN
  IF e.tokens[item.name] # item.type THEN Thrown(d)
  ELSE IF item.type = "COLOR" /\ item.name \notin ToSet(before.styles)
       THEN Outcome([e EXCEPT !.styles = Append(@, item.name)], <<>>, TRUE)
       ELSE Outcome(e, <<>>, TRUE)

\* A variable or style that is gone cannot be removed again.
DeleteToken(d, item) ==
  IF item.name \notin DOMAIN d.tokens THEN Thrown(d)
  ELSE Outcome([d EXCEPT !.tokens = Restrict(@, DOMAIN @ \ {item.name})], <<>>, TRUE)

-----------------------------------------------------------------------------
(* Operations that take all their nodes at once *)

NodesOf(op) == [i \in DOMAIN op.items |-> op.items[i].node]

\* combineAsVariants() and group(): a new node around the others.
Around(d, op, type, p) ==
  LET nodes == NodesOf(op)
      e == Made(d, type, "")
      f == Insert(e, p, op.items[1].index, d.next) IN
  IF \/ \E n \in ToSet(nodes) : ~MayInsert(e, p, op.items[1].index, n)
     \/ \E n, m \in ToSet(nodes) : n # m /\ IsDescendant(d, n, m)
     \/ ~IsInjective(nodes)
  THEN Thrown(d)
  ELSE Outcome(Gathered(f, d.next, Len(nodes), nodes), <<d.next>>, TRUE)

CreateComponentSet(d, op) ==
  Around(d, op, "COMPONENT_SET", IF op.items[1].parent = Absent THEN Page ELSE op.items[1].parent)

GroupNodes(d, op) ==
  Around(d, op, "GROUP",
         IF op.items[1].parent = Absent THEN ParentOf(d, op.items[1].node) ELSE op.items[1].parent)

\* The first of the nodes becomes the first child, and so on.
Reordered(d, p, nodes) == FoldLeftDomain(LAMBDA e, i : InsertChild(e, p, i - 1, nodes[i]), d, nodes)

ReorderNodes(d, op) ==
  LET p == op.items[1].parent
      nodes == NodesOf(op) IN
  IF ~IsInjective(nodes) \/ ~(ToSet(nodes) \subseteq ToSet(d.kids[p])) THEN Thrown(d)
  ELSE Outcome(Reordered(d, p, nodes), nodes, TRUE)

-----------------------------------------------------------------------------

WholeKinds == {"createComponentSet", "groupNodes", "reorderNodes"}
TokenKinds == {"upsertDesignTokens", "deleteDesignTokens"}

\* isBatchKind() and batchHandlers(): what a batch may be made of.
BatchKinds ==
  {"createComponents", "createComponentSet", "createInstances", "setInstanceVariantProperties",
   "duplicateNodes", "moveNodes", "reorderNodes", "groupNodes", "ungroupNodes", "upsertDesignTokens",
   "createNodes", "updateNodes", "applyAutoLayout", "applyVisualProperties", "searchReplaceText"}

\* The sort of node that sceneNode() and the check that follows it accept.
Suits(d, kind, n) ==
  /\ IsScene(d, n)
  /\ kind \in {"createComponentSet", "createInstances"} => d.type[n] = "COMPONENT"
  /\ kind = "setInstanceVariantProperties" => d.type[n] = "INSTANCE"
  /\ kind = "ungroupNodes" => IsContainer(d, n)

\* What is looked up for every item, when it is planned and when it is executed:
\* whether a node or a parent may be absent is up to the operation.
Found(d, kind, item) ==
  /\ item.node # Absent \/ kind \notin {"createComponents", "createNodes"} => Suits(d, kind, item.node)
  /\ item.parent # Absent \/ kind \in {"moveNodes", "reorderNodes"} => IsContainer(d, item.parent)

\* The text nodes a search finds.
Matches(d, query) == {n \in Nodes(d) : d.type[n] = "TEXT" /\ d.text[n] = query}

Target(n) == [node |-> n, parent |-> Absent, index |-> Absent]

Items(d, op) ==
  IF op.kind = "searchReplaceText" THEN SetToSeq({Target(n) : n \in Matches(d, op.text)}) ELSE op.items

ItemDone(d, op, item) ==
  CASE op.kind = "createComponents" -> CreateComponent(d, item)
    [] op.kind = "createInstances" -> CreateInstance(d, item)
    [] op.kind = "setInstanceVariantProperties" -> SetProperties(d, item)
    [] op.kind = "duplicateNodes" -> DuplicateNode(d, item)
    [] op.kind = "moveNodes" -> MoveNode(d, item)
    [] op.kind = "ungroupNodes" -> UngroupNode(d, item)
    [] op.kind = "createNodes" -> CreateNode(d, item, op.text)
    [] op.kind = "updateNodes" -> UpdateNode(d, item, op.text)
    [] op.kind = "applyAutoLayout" -> ApplyAutoLayout(d, item)
    [] op.kind = "applyVisualProperties" -> ApplyVisualProperties(d, item)
    [] op.kind = "applyShader" -> Decorated(d, item, "shader")
    [] op.kind = "searchReplaceText" -> ReplaceText(d, item)

\* An item is looked up when its turn comes.
ItemTried(d, op, item, before) ==
  CASE op.kind = "upsertDesignTokens" -> UpsertToken(d, item, before)
    [] op.kind = "deleteDesignTokens" -> DeleteToken(d, item)
    [] op.kind = "deleteNodes" -> DeleteNode(d, item)
    [] OTHER -> IF Found(d, op.kind, item) THEN ItemDone(d, op, item) ELSE Thrown(d)

\* The items so far, and the next one unless one of them failed.
OneMore(s, op, item, before) ==
  LET r == ItemTried(s.doc, op, item, before)
  IN IF s.ok THEN Outcome(Tidied(r.doc), s.out \o r.out, r.ok) ELSE s

ItemsDone(d, op, items) ==
  FoldLeft(LAMBDA s, item : OneMore(s, op, item, d), Outcome(d, <<>>, TRUE), items)

WholeTried(d, op) ==
  IF \E i \in DOMAIN op.items : ~Found(d, op.kind, op.items[i]) THEN Thrown(d)
  ELSE CASE op.kind = "createComponentSet" -> CreateComponentSet(d, op)
         [] op.kind = "groupNodes" -> GroupNodes(d, op)
         [] op.kind = "reorderNodes" -> ReorderNodes(d, op)

WholeDone(d, op) == [WholeTried(d, op) EXCEPT !.doc = Tidied(@)]

\* Every node is looked up before the first of them gets the shader.
ApplyShader(d, op) ==
  IF \E i \in DOMAIN op.items : ~Found(d, op.kind, op.items[i]) THEN Thrown(d)
  ELSE ItemsDone(d, op, op.items)

Done(d, op) ==
  CASE op.kind \in WholeKinds -> WholeDone(d, op)
    [] op.kind = "applyShader" -> ApplyShader(d, op)
    [] OTHER -> ItemsDone(d, op, Items(d, op))

\* The API refuses after some of the items.
Broken(d, op, count) ==
  Thrown(IF op.kind \in WholeKinds THEN d ELSE ItemsDone(d, op, SubSeq(Items(d, op), 1, count)).doc)
=============================================================================
