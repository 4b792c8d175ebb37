---------------------------- MODULE FigmaDocument ----------------------------
(***************************************************************************)
(* A Figma document as the plugin's commands see it: a tree of nodes with  *)
(* the few fields the properties tell apart, and the design tokens. What   *)
(* the Plugin API does with a node is modelled from how                    *)
(* figma-plugin/src/structure-operations.ts uses it.                       *)
(*                                                                         *)
(* A document is a record: type, kids, at, look (all other fields) and     *)
(* text of every node; the next node's number; tokens (the type of every   *)
(* variable) and styles. A node is at an offset from the nearest node      *)
(* above it that is no group: a group has no coordinates of its own, is    *)
(* at 0, and is seen where the first of the nodes in it is.                *)
(***************************************************************************)
EXTENDS Integers, SequencesExt

Page == 1

\* No node: an optional argument that is not given.
Absent == 0

Containers == {"PAGE", "FRAME", "GROUP", "COMPONENT", "COMPONENT_SET", "INSTANCE"}

Nodes(d) == DOMAIN d.type

\* sceneNode() and containerNode(): what getNodeByIdAsync() finds, if it is of that sort.
IsScene(d, n) == n \in Nodes(d) \ {Page}
IsContainer(d, n) == n \in Nodes(d) /\ d.type[n] \in Containers

ParentOf(d, n) == CHOOSE p \in Nodes(d) : n \in ToSet(d.kids[p])

\* A tree below the page: a node is the child of one other node, once, and of no
\* group of nodes is every parent in the group.
IsTree(d) ==
  /\ DOMAIN d = {"type", "kids", "at", "look", "text", "next", "tokens", "styles"}
  /\ d.next \in Nat
  /\ Page \in Nodes(d) /\ Nodes(d) \subseteq 1 .. d.next - 1
  /\ DOMAIN d.kids = Nodes(d) /\ DOMAIN d.at = Nodes(d) /\ DOMAIN d.look = Nodes(d) /\ DOMAIN d.text = Nodes(d)
  /\ \A n \in Nodes(d) : d.at[n] \in Int
  /\ \A p \in Nodes(d) : d.kids[p] \in Seq(Nodes(d) \ {Page}) /\ IsInjective(d.kids[p])
  /\ \A n \in Nodes(d) \ {Page} : \E p \in Nodes(d) : \A q \in Nodes(d) : n \in ToSet(d.kids[q]) <=> q = p
  /\ \A group \in SUBSET (Nodes(d) \ {Page}) : group # {} => \E n \in group : ParentOf(d, n) \notin group

\* The node and the nodes above it.
Above(d, n) ==
  LET above[m \in Nodes(d)] == IF m = Page THEN {m} ELSE {m} \cup above[ParentOf(d, m)]
  IN above[n]

Below(d, n) == {m \in Nodes(d) : n \in Above(d, m)}

\* Where a node is, in one dimension and without rotation; of a group, where the
\* coordinates of the nodes in it begin.
Absolute(d, n) ==
  LET absolute[m \in Nodes(d)] == d.at[m] + (IF m = Page THEN 0 ELSE absolute[ParentOf(d, m)])
  IN absolute[n]

\* A node, or the nodes that are in a group, with nothing but groups between.
Carried(d, n) ==
  {m \in Below(d, n) : d.type[m] # "GROUP" /\ \A k \in (Above(d, m) \cap Below(d, n)) \ {m} : d.type[k] = "GROUP"}

\* absoluteTransform; a group with no nodes in it is about to go.
Seen(d, n) == IF Carried(d, n) = {} THEN Absolute(d, n) ELSE Min({Absolute(d, m) : m \in Carried(d, n)})

Shifted(d, nodes, by) == [d EXCEPT !.at = [m \in DOMAIN @ |-> @[m] + (IF m \in nodes THEN by ELSE 0)]]

\* isDescendant(candidate, ancestor), of which a node is its own.
IsDescendant(d, candidate, ancestor) == ancestor \in Above(d, candidate)

\* A container takes a node, unless it is part of the node, or of an instance.
Takes(d, p, n) ==
  /\ IsContainer(d, p)
  /\ ~IsDescendant(d, p, n)
  /\ \A m \in Above(d, p) : d.type[m] # "INSTANCE"

Detached(d, n) == [d EXCEPT !.kids = [p \in DOMAIN @ |-> RemoveFirst(@[p], n)]]

\* insertChild(): the node leaves the place it has.
InsertChild(d, p, index, n) ==
  LET e == Detached(d, n) IN
  [e EXCEPT !.kids[p] = InsertAt(@, IF index > Len(@) THEN Len(@) + 1 ELSE index + 1, n)]

AppendChild(d, p, n) == InsertChild(d, p, Len(d.kids[p]), n)

With(f, x, value) == [y \in DOMAIN f \cup {x} |-> IF y = x THEN value ELSE f[y]]

\* A node that is made is put on the current page.
Made(d, type, text) ==
  LET n == d.next IN
  AppendChild([d EXCEPT !.type = With(@, n, type), !.kids = With(@, n, <<>>), !.at = With(@, n, 0),
                        !.look = With(@, n, "made"), !.text = With(@, n, text), !.next = n + 1], Page, n)

\* remove(): the node and all below it.
Removed(d, n) ==
  LET left == Nodes(d) \ Below(d, n)
      e == Detached(d, n) IN
  [e EXCEPT !.type = Restrict(@, left), !.kids = Restrict(@, left), !.at = Restrict(@, left),
            !.look = Restrict(@, left), !.text = Restrict(@, left)]

\* A node moves without being seen to move, or the nodes in it, if it is a group.
Reparented(d, p, index, n) ==
  Shifted(InsertChild(d, p, index, n), Carried(d, n), Absolute(d, ParentOf(d, n)) - Absolute(d, p))

\* One node after another becomes a child of p, at the same place in the list, or
\* at its end as long as it is shorter.
Gathered(d, p, place, nodes) == FoldLeft(LAMBDA e, m : Reparented(e, p, place, m), d, nodes)

PlaceOf(d, n) == CHOOSE i \in DOMAIN d.kids[ParentOf(d, n)] : d.kids[ParentOf(d, n)][i] = n

\* A container's children take its place.
Dissolved(d, n) ==
  Removed(Gathered(d, ParentOf(d, n), PlaceOf(d, n) - 1, Reverse(d.kids[n])), n)

\* Groups that are left with nothing in them but groups.
Emptied(d) == {g \in Nodes(d) \ {Page} : \A m \in Below(d, g) : d.type[m] = "GROUP"}

\* With its last node a group is gone, whether that was moved or removed: what a
\* call of the API above leaves is Tidied() at the end of each item, and nothing
\* in between tells the difference.
Tidied(d) == FoldLeft(LAMBDA e, g : IF g \in Nodes(e) THEN Removed(e, g) ELSE e, d, SetToSeq(Emptied(d)))
=============================================================================
