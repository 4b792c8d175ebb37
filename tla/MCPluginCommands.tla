--------------------------- MODULE MCPluginCommands ---------------------------
(* A small document, and the commands an AI app may send for it. *)
EXTENDS PluginCommands

\* Page 1 has a frame 2 with a text 5 and a rectangle 6, a component 3, a group
\* 4 with a text 7, an instance 8 and a text 9; the node that is made first is 10.
SmallDocument ==
  [type |-> <<"PAGE", "FRAME", "COMPONENT", "GROUP", "TEXT", "RECTANGLE", "TEXT", "INSTANCE", "TEXT">>,
   kids |-> <<<<2, 3, 4, 8, 9>>, <<5, 6>>, <<>>, <<7>>, <<>>, <<>>, <<>>, <<>>, <<>>>>,
   at |-> <<0, 3, 5, 0, 1, 2, 8, 4, 6>>,
   look |-> [n \in 1 .. 9 |-> "made"],
   text |-> <<"", "", "", "", "old", "", "both", "", "both">>,
   next |-> 10,
   tokens |-> "gap" :> "FLOAT",
   styles |-> <<>>]

Is(n) == [step |-> "", node |-> n]
Of(id, k) == [step |-> id, node |-> k]
Item(n, p, i) == [node |-> Is(n), parent |-> Is(p), index |-> i]

Op(id, kind, items, text) == [id |-> id, kind |-> kind, items |-> items, text |-> text]
Plain(kind, items) == Op("", kind, items, "")

Color(name) == [name |-> name, type |-> "COLOR"]

\* Operations of one item.
Single ==
  {Plain("createComponents", <<Item(n, p, 0)>>) : n \in {0, 2, 4, 5}, p \in {0, 4}}
  \cup {Plain("createInstances", <<Item(n, p, 0)>>) : n \in {2, 3}, p \in {0, 2, 5}}
  \cup {Plain("duplicateNodes", <<Item(n, p, 0)>>) : n \in {2, 4, 7}, p \in {0, 4}}
  \cup {Plain("moveNodes", <<Item(n, p, i)>>) : n \in {2, 4, 5, 7}, p \in {1, 2, 3, 4, 8}, i \in {0, 2}}
  \cup {Plain("ungroupNodes", <<Item(n, 0, 0)>>) : n \in {2, 4, 5}}
  \cup {Plain("groupNodes", <<Item(n, p, 0)>>) : n \in {3, 4, 7}, p \in {0, 4}}
  \cup {Plain(kind, <<Item(n, 0, 0)>>) : n \in {2, 7, 8},
           kind \in {"applyAutoLayout", "applyVisualProperties", "setInstanceVariantProperties"}}
  \cup {Op("", "updateNodes", <<Item(n, 0, 0)>>, text) : n \in {2, 7}, text \in {"", "old"}}
  \cup {Op("", "createNodes", <<Item(0, p, 0)>>, text) : p \in {0, 4, 10}, text \in {"", "old"}}
  \cup {Op("", "searchReplaceText", <<>>, text) : text \in {"old", "both"}}

\* Operations of two.
Double ==
  {Plain("moveNodes", <<Item(4, 2, 0), Item(2, 3, 0)>>), Plain("moveNodes", <<Item(2, 4, 0), Item(4, 2, 0)>>),
   Plain("reorderNodes", <<Item(6, 2, 0), Item(5, 2, 0)>>), Plain("reorderNodes", <<Item(6, 2, 0), Item(6, 2, 0)>>),
   Plain("groupNodes", <<Item(6, 0, 0), Item(7, 0, 0)>>), Plain("groupNodes", <<Item(2, 0, 0), Item(5, 0, 0)>>),
   Plain("createComponentSet", <<Item(3, 0, 0)>>), Plain("ungroupNodes", <<Item(2, 0, 0), Item(4, 0, 0)>>),
   Plain("upsertDesignTokens", <<Color("red"), Color("red")>>),
   Plain("upsertDesignTokens", <<Color("red"), Color("gap")>>)}

\* A named step, and operations that refer to its result.
Named == {[op EXCEPT !.id = "a"] : op \in {o \in Single : o.kind \in {"createComponents", "duplicateNodes", "ungroupNodes"}}}

Referring ==
  {Plain("moveNodes", <<[node |-> Of("a", k), parent |-> Is(2), index |-> 0]>>) : k \in {1, 2}}
  \cup {Plain("createInstances", <<[node |-> Of("a", 1), parent |-> Of("b", 1), index |-> 0]>>),
        Op("b", "groupNodes", <<[node |-> Of("a", 1), parent |-> Is(0), index |-> 0], Item(6, 0, 0)>>, "")}

Batch(ops, dryRun) == [name |-> "batch.execute", dryRun |-> dryRun, ops |-> ops]
Direct(name, op) == [name |-> name, dryRun |-> FALSE, ops |-> <<op>>]

Batches ==
  {Batch(<<x>>, dryRun) : x \in Single \cup Double, dryRun \in BOOLEAN}
  \cup {Batch(<<Plain("deleteNodes", <<Item(2, 0, 0)>>)>>, dryRun) : dryRun \in BOOLEAN}
  \cup {Batch(<<x, y>>, FALSE) : x \in Single \cup Double, y \in Single \cup Double}
  \cup {Batch(<<x, y, z>>, FALSE) : x, y \in Named \cup Referring, z \in Referring \cup Double}

Others ==
  {Direct("nodes.delete", Plain("deleteNodes", <<Item(m, 0, 0), Item(n, 0, 0)>>)) : m, n \in {2, 4, 5, 7, 10}}
  \cup {Direct("shaders.apply", Plain("applyShader", <<Item(m, 0, 0), Item(n, 0, 0)>>)) : m, n \in {2, 5, 10}}
  \cup {Direct("nodes.update", Op("", "updateNodes", <<Item(m, 0, 0), Item(n, 0, 0)>>, text)) :
           m, n \in {2, 5, 7, 10}, text \in {"", "old"}}
  \cup {Direct("nodes.create", Op("", "createNodes", <<Item(0, p, 0), Item(0, p, 0)>>, "old")) : p \in {0, 4, 5, 10}}
  \cup {Direct("designTokens.upsert", op) : op \in {o \in Double : o.kind = "upsertDesignTokens"}}
  \cup {Direct("designTokens.delete", Plain("deleteDesignTokens", <<Color("gap"), Color(name)>>)) : name \in {"gap", "red"}}
  \cup {Direct("document.searchReplaceText", Op("", "searchReplaceText", <<>>, "old"))}
  \cup {Direct("nodes.move", op) : op \in {o \in Double : o.kind = "moveNodes"}}

AllCommands == Batches \cup Others
=============================================================================
