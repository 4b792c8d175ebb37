------------------------ MODULE AgentMarketplaceProofs ------------------------
(***************************************************************************)
(* Theorems about AgentMarketplace, for any siblings, any machines that    *)
(* satisfy its assumption, and any number of runs.                         *)
(***************************************************************************)
EXTENDS AgentMarketplace, TLAPS

\* The steps of an installation once Codex was detached, and once the copy of
\* the plugin is written.
Merging == {"migrate", "move", "import", "drop"}
Entering == {"copy", "copied", "enter", "enter Claude", "register"}
InCodex == {"codex", "list", "add", "claude", "reinstall"}
Installing == Merging \cup Entering \cup InCodex
Places == Resting \cup {"detach"} \cup Installing \cup Uninstalling

DiskTypes ==
  /\ disk \in [shared : Roots, older : Roots]
  /\ ~disk.shared.made => disk.shared = Nowhere
  /\ ~disk.older.made => disk.older = Nowhere

Types ==
  /\ at \in Places
  /\ DiskTypes
  /\ {codex, claude} \subseteq Registrations
  /\ before.claude \in Registrations
  /\ worked \subseteq Siblings
  /\ at \in Installing \cup {"detach"} => manifest \subseteq Plugins /\ pending \subseteq Siblings
  /\ "codex" \notin has => codex.root = "none"
  /\ at \in {"register", "codex"} => "codex" \in has
  /\ at \in {"import", "drop", "copied", "enter", "enter Claude"} => disk.shared.made
  /\ at \in {"move", "import", "drop"} => ~linked

\* While Codex is detached, or has the shared root, that is what it can restore.
RootInv ==
  /\ CodexRootIsWhole
  /\ codex.root = "gone" => "release" \in hurt
  /\ at \in Installing /\ "codex" \in has => codex.root \in {"none", "shared"} /\ Whole(codex.root)
  /\ at \in InCodex /\ "codex" \in has => codex.root = "shared"
  /\ at = "installed" /\ "codex" \in has => codex.root = "shared"
  /\ at = "move" => ~disk.shared.made
  /\ at \in {"drop", "enter Claude", "register"} => disk.shared.codex # NoManifest
  /\ at = "release" =>
       /\ ~Empty(manifest) => disk.shared.codex # NoManifest
       /\ codex.root = "older" /\ "release" \notin hurt => disk.older.codex # NoManifest

\* An installation that found a root Codex could use always leaves one.
RestoreInv ==
  /\ at = "detach" /\ before.usable => codex.root # "none" /\ Whole(codex.root)
  /\ at \in Installing /\ "codex" \in has /\ before.usable =>
       codex.root # "none" \/ disk.shared.codex # NoManifest \/ disk.older.codex # NoManifest

\* A sibling is whole in the shared root, or entered in the older one while its
\* copy is in either, or in that one when it is a link.
InShared(p) == p \in disk.shared.codex /\ p \in disk.shared.dirs
InOlder(p) == p \in disk.older.codex /\ (p \in disk.older.dirs \/ (~linked /\ p \in disk.shared.dirs))

\* What the merge has entered is what it had found and no longer has to do.
Merged(p) ==
  /\ p \in disk.shared.codex => p \in manifest
  /\ p \in pending => p \in disk.older.codex
  /\ p \in disk.older.codex => p \in pending \/ (p \in manifest /\ p \notin disk.older.dirs)

SiblingsInv ==
  /\ worked \subseteq codex.plugins
  /\ \A p \in worked \ lost : InShared(p) \/ InOlder(p)
  /\ at = "import" => \A p \in Siblings : Merged(p)
  /\ at \in {"drop", "installed"} \cup Entering \cup InCodex => \A p \in worked \ lost : InShared(p) \/ InLink(p)

\* Claude Code has every sibling that it had, or it will be installed again.
ClaudeInv ==
  /\ at \in {"detach", "list"} \cup Merging \cup Entering \cup {"codex"} => claude = before.claude
  /\ at \in {"add", "claude", "reinstall"} /\ "reinstall" \notin hurt =>
       (before.claude.plugins \cap disk.shared.claude) \ {Own} \subseteq claude.plugins \cup reinstall
  /\ at \in {"reinstall", "installed"} /\ "claude" \in has => Own \in claude.plugins
  /\ ClaudeKeepsSiblings

MarketInv == Types /\ RootInv /\ RestoreInv /\ SiblingsInv /\ ClaudeInv

-----------------------------------------------------------------------------
(* Roots and manifests *)

\* A root that is not there is a root without manifests and copies.
LEMMA NothingThere ==
  /\ Nowhere \in Roots /\ Nowhere.made = FALSE /\ Nowhere.codex = NoManifest /\ Nowhere.claude = NoManifest
  /\ Nowhere.dirs = {}
BY DEF Nowhere, Roots, Manifests

\* Entering and stripping this plugin does nothing to a sibling, and a list of
\* plugins is never taken for a manifest that is not there.
LEMMA ManifestTypes ==
  /\ NoManifest \in Manifests /\ NoManifest \cap Siblings = {}
  /\ \A m \in Manifests :
       /\ Entries(m) \subseteq Plugins /\ Entries(m) \ {Own} \subseteq Siblings
       /\ Entries(m) \cup {Own} \in Manifests /\ Stripped(m) \in Manifests
  /\ \A m \in Manifests, p \in Siblings : p \in Entries(m) <=> p \in m
  /\ \A m \in Manifests, p \in Siblings : p \in Stripped(m) <=> p \in m
  /\ \A m \in Manifests : m = NoManifest <=> Stripped(m) = NoManifest
  /\ \A m \in SUBSET Plugins : m \in Manifests /\ m # NoManifest
  /\ Siblings \subseteq Plugins /\ Own \in Plugins /\ Own \notin Siblings
BY MarketAssumption DEF Manifests, Plugins, Entries, Stripped, NoManifest

\* The fields of the two roots.
LEMMA WhatIsThere ==
  ASSUME DiskTypes
  PROVE  /\ disk.shared.codex \in Manifests /\ disk.shared.claude \in Manifests /\ disk.older.codex \in Manifests
         /\ disk.shared.dirs \subseteq Plugins /\ disk.older.dirs \subseteq Plugins
         /\ ~disk.shared.made =>
              disk.shared.codex = NoManifest /\ disk.shared.claude = NoManifest /\ disk.shared.dirs = {}
         /\ ~disk.older.made => disk.older.codex = NoManifest /\ disk.older.dirs = {}
<1>1. disk.shared \in Roots /\ disk.older \in Roots
  BY DEF DiskTypes
<1>2. \A root \in Roots : root.codex \in Manifests /\ root.claude \in Manifests /\ root.dirs \subseteq Plugins
  BY DEF Roots
<1>3. /\ ~disk.shared.made =>
           disk.shared.codex = NoManifest /\ disk.shared.claude = NoManifest /\ disk.shared.dirs = {}
      /\ ~disk.older.made => disk.older.codex = NoManifest /\ disk.older.dirs = {}
  <2>1. (~disk.shared.made => disk.shared = Nowhere) /\ (~disk.older.made => disk.older = Nowhere)
    BY DEF DiskTypes
  <2> QED
    BY <2>1, NothingThere
<1> QED
  BY <1>1, <1>2, <1>3

\* restoreCodexMarketplace() gives Codex a root with a manifest, if there is one,
\* the shared one first.
LEMMA RestoredCodex ==
  ASSUME Types
  PROVE  /\ Restored \in Registrations /\ Restored.plugins = codex.plugins
         /\ "codex" \notin has => Restored = codex
         /\ \/ Restored.root = codex.root
            \/ Restored.root = "shared" /\ disk.shared.codex # NoManifest
            \/ Restored.root = "older" /\ disk.older.codex # NoManifest
         /\ "codex" \in has /\ disk.shared.codex # NoManifest =>
              Restored.root \in {codex.root, "shared"} /\ Restored.root # "none"
         /\ "codex" \in has /\ disk.older.codex # NoManifest => Restored.root # "none"
<1> DEFINE root == CHOOSE r \in Target : TRUE
<1>1. Target # {} => root \in Target
  OBVIOUS
<1>2. codex \in Registrations /\ Target \subseteq {"shared", "older"}
  BY DEF Types, Target
<1>3. Restored =
        IF "codex" \in has /\ codex.root = "none" /\ Target # {} THEN [codex EXCEPT !.root = root] ELSE codex
  BY DEF Restored
<1> HIDE DEF root
<1>4. CASE "codex" \in has /\ codex.root = "none" /\ Target # {}
  <2>1. Restored = [codex EXCEPT !.root = root] /\ root \in Target
    BY <1>1, <1>3, <1>4
  <2>2. Restored \in Registrations /\ Restored.plugins = codex.plugins /\ Restored.root = root
    BY <1>2, <2>1 DEF Registrations
  <2> QED
    BY <1>4, <2>1, <2>2 DEF Target
<1>5. CASE ~("codex" \in has /\ codex.root = "none" /\ Target # {})
  BY <1>2, <1>3, <1>5 DEF Target
<1> QED
  BY <1>4, <1>5

\* The invariant holds at the start.
LEMMA InitMarket == Init => MarketInv
<1> SUFFICES ASSUME Init PROVE MarketInv
  OBVIOUS
<1>0. PICK m \in Machines :
       /\ has = m.has
       /\ disk = [shared |-> m.shared, older |-> m.older]
       /\ codex = m.codex
       /\ claude = m.claude
  BY DEF Init
<1>1. /\ {m.shared, m.older} \subseteq Roots
      /\ {m.codex, m.claude} \subseteq Registrations
      /\ \A root \in {m.shared, m.older} : ~root.made => root = Nowhere
      /\ "codex" \notin m.has => m.codex.root = "none"
  BY MarketAssumption DEF MarketAssumption
<1>2. DiskTypes
  BY <1>0, <1>1 DEF DiskTypes
<1>3. /\ at = "off" /\ before = [usable |-> FALSE, claude |-> claude]
      /\ worked = {p \in Siblings : Works(p)} /\ lost = {}
      /\ hurt = IF Whole(codex.root) THEN {} ELSE {"release"}
  BY DEF Init
<1>4. Types
  BY <1>0, <1>1, <1>2, <1>3 DEF Types, Places, Resting, Installing, Merging, Entering, InCodex
<1>5. RootInv
  BY <1>0, <1>1, <1>3 DEF RootInv, CodexRootIsWhole, Whole, Installing, Merging, Entering, InCodex
<1>6. RestoreInv
  BY <1>3 DEF RestoreInv
<1>7. SiblingsInv
  <2>1. \A p \in Siblings : Works(p) => p \in codex.plugins /\ (InShared(p) \/ InOlder(p))
    BY DEF Works, InShared, InOlder, InLink
  <2> QED
    BY <1>3, <2>1 DEF SiblingsInv, Entering, InCodex
<1>8. ClaudeInv
  BY <1>3 DEF ClaudeInv, ClaudeKeepsSiblings
<1> QED
  BY <1>4, <1>5, <1>6, <1>7, <1>8 DEF MarketInv

-----------------------------------------------------------------------------
(* The steps of an installation *)

\* What the steps leave unchanged, and the sets of places in the program.
USE DEF outside, run, history, Places, Resting, Installing, Merging, Entering, InCodex, Uninstalling

LEMMA StartInstallStep ==
  ASSUME MarketInv, Start("detach")
  PROVE  MarketInv'
<1>1. disk' = disk /\ DiskTypes'
  BY DEF MarketInv, Types, DiskTypes, Start
<1>2. Types'
  BY <1>1 DEF MarketInv, Types, Start
<1>3. RootInv'
  BY <1>1 DEF MarketInv, RootInv, CodexRootIsWhole, Whole, Start
<1>4. RestoreInv'
  BY <1>1 DEF RestoreInv, Whole, Start
<1>5. SiblingsInv'
  BY <1>1 DEF MarketInv, SiblingsInv, InShared, InOlder, InLink, Start
<1>6. ClaudeInv'
  BY <1>1 DEF ClaudeInv, ClaudeKeepsSiblings, Start
<1> QED
  BY <1>2, <1>3, <1>4, <1>5, <1>6 DEF MarketInv

LEMMA StartUninstallStep ==
  ASSUME MarketInv, Start("unregister")
  PROVE  MarketInv'
<1>1. disk' = disk /\ DiskTypes'
  BY DEF MarketInv, Types, DiskTypes, Start
<1>2. Types'
  BY <1>1 DEF MarketInv, Types, Start
<1>3. RootInv'
  BY <1>1 DEF MarketInv, RootInv, CodexRootIsWhole, Whole, Start
<1>4. RestoreInv'
  BY <1>1 DEF RestoreInv, Start
<1>5. SiblingsInv'
  BY <1>1 DEF MarketInv, SiblingsInv, InShared, InOlder, InLink, Start
<1>6. ClaudeInv'
  BY <1>1 DEF ClaudeInv, ClaudeKeepsSiblings, Start
<1> QED
  BY <1>2, <1>3, <1>4, <1>5, <1>6 DEF MarketInv

\* What Codex keeps, when the older root is detached, is whole; and there is
\* something to restore.
LEMMA DetachStep ==
  ASSUME MarketInv, Detach
  PROVE  MarketInv'
<1>1. disk' = disk /\ DiskTypes'
  BY DEF MarketInv, Types, DiskTypes, Detach, Goes, Detached
<1>2. Types'
  <2>1. codex' \in Registrations /\ ("codex" \notin has => codex'.root = "none")
    <3>1. Detached \in {"none", "shared", "older", "elsewhere", "gone"} /\ codex \in Registrations
      BY DEF MarketInv, Types, Registrations, Detached
    <3> QED
      BY <3>1 DEF MarketInv, Types, Registrations, Detach
  <2> QED
    BY <1>1, <2>1 DEF MarketInv, Types, Detach, Goes
<1>3. RootInv'
  <2>1. "codex" \in has =>
          \/ codex'.root \in {"none", "shared"} /\ Whole(codex.root) /\ codex'.root = codex.root
          \/ codex'.root = "none"
    BY DEF MarketInv, Types, Registrations, Detach, Detached, Whole
  <2>2. "codex" \in has => codex'.root \in {"none", "shared"} /\ Whole(codex.root)'
    BY <1>1, <2>1 DEF Whole
  <2>3. "codex" \notin has => codex'.root = "none"
    BY DEF MarketInv, Types, Detach
  <2> QED
    BY <1>1, <2>2, <2>3 DEF RootInv, CodexRootIsWhole, Detach, Goes
<1>4. RestoreInv'
  BY <1>1 DEF MarketInv, RestoreInv, Whole, Detach, Goes, Detached
<1>5. SiblingsInv'
  BY <1>1 DEF MarketInv, SiblingsInv, InShared, InOlder, InLink, Detach, Goes
<1>6. ClaudeInv'
  BY <1>1 DEF MarketInv, ClaudeInv, ClaudeKeepsSiblings, Detach, Goes
<1> QED
  BY <1>2, <1>3, <1>4, <1>5, <1>6 DEF MarketInv

LEMMA RefuseStep ==
  ASSUME MarketInv, Refuse
  PROVE  MarketInv'
<1>1. disk' = disk /\ DiskTypes'
  BY DEF MarketInv, Types, DiskTypes, Refuse
<1>2. Types'
  BY <1>1 DEF MarketInv, Types, Refuse
<1>3. RootInv'
  BY <1>1 DEF RootInv, CodexRootIsWhole, Whole, Refuse
<1>4. RestoreInv'
  BY <1>1 DEF RestoreInv, Refuse
<1>5. SiblingsInv'
  BY <1>1 DEF MarketInv, SiblingsInv, InShared, InOlder, InLink, Refuse
<1>6. ClaudeInv'
  BY <1>1 DEF ClaudeInv, ClaudeKeepsSiblings, Refuse
<1> QED
  BY <1>2, <1>3, <1>4, <1>5, <1>6 DEF MarketInv

\* The merge finds every entry of both roots; without an older root there is
\* nothing to merge.
LEMMA MigrateStep ==
  ASSUME MarketInv, Migrate
  PROVE  MarketInv'
<1>1. disk' = disk /\ DiskTypes'
  BY DEF MarketInv, Types, DiskTypes, Migrate
<1>2. Types'
  BY <1>1, ManifestTypes, WhatIsThere DEF MarketInv, Types, Migrate
<1>3. RootInv'
  BY <1>1 DEF MarketInv, RootInv, CodexRootIsWhole, Whole, Migrate
<1>4. RestoreInv'
  BY <1>1 DEF MarketInv, RestoreInv, Migrate
<1>5. SiblingsInv'
  <2>1. \A p \in worked \ lost : InShared(p)' \/ InOlder(p)'
    BY <1>1 DEF MarketInv, SiblingsInv, InShared, InOlder, Migrate
  <2>2. at' = "import" => \A p \in Siblings : Merged(p)'
    BY <1>1, ManifestTypes, WhatIsThere DEF MarketInv, Types, Merged, Migrate
  <2>3. ~disk.older.made => \A p \in Siblings : ~InOlder(p)
    BY ManifestTypes, WhatIsThere DEF MarketInv, Types, InOlder
  <2>4. at' = "copy" => \A p \in worked \ lost : InShared(p)' \/ InLink(p)'
    BY <1>1, <2>1, <2>3 DEF MarketInv, Types, Migrate, InOlder, InLink
  <2> QED
    BY <2>1, <2>2, <2>4 DEF MarketInv, SiblingsInv, Migrate
<1>6. ClaudeInv'
  BY <1>1 DEF MarketInv, ClaudeInv, ClaudeKeepsSiblings, Migrate
<1> QED
  BY <1>2, <1>3, <1>4, <1>5, <1>6 DEF MarketInv

LEMMA MoveStep ==
  ASSUME MarketInv, Move
  PROVE  MarketInv'
<1>1. /\ disk'.shared = disk.older
      /\ disk'.older = Nowhere
      /\ DiskTypes'
  BY NothingThere DEF MarketInv, Types, DiskTypes, Move
<1>2. Types'
  BY <1>1 DEF MarketInv, Types, Move, StepTo, Goes
<1>3. RootInv'
  BY <1>1, WhatIsThere DEF MarketInv, Types, RootInv, CodexRootIsWhole, Whole, Move, StepTo, Goes
<1>4. RestoreInv'
  BY <1>1, WhatIsThere DEF MarketInv, Types, RootInv, RestoreInv, Move, StepTo, Goes
<1>5. SiblingsInv'
  BY <1>1, WhatIsThere DEF MarketInv, Types, RootInv, SiblingsInv, InShared, InOlder, InLink, Move, StepTo, Goes
<1>6. ClaudeInv'
  BY <1>1 DEF MarketInv, ClaudeInv, ClaudeKeepsSiblings, Move, StepTo, Goes
<1> QED
  BY <1>2, <1>3, <1>4, <1>5, <1>6 DEF MarketInv

\* While its older copy is removed, a sibling has the newer one.
LEMMA RemoveOldCopyStep ==
  ASSUME MarketInv, NEW p \in Siblings, RemoveOldCopy(p)
  PROVE  MarketInv'
<1>1. /\ disk'.shared.made = disk.shared.made
      /\ disk'.shared.codex = disk.shared.codex
      /\ disk'.shared.claude = disk.shared.claude
      /\ disk'.shared.dirs = disk.shared.dirs \ {p}
      /\ disk'.older = disk.older
      /\ DiskTypes'
  BY DEF MarketInv, Types, DiskTypes, Roots, RemoveOldCopy, StepTo, Goes
<1>2. Types'
  BY <1>1 DEF MarketInv, Types, RemoveOldCopy, StepTo, Goes
<1>3. RootInv'
  BY <1>1 DEF MarketInv, RootInv, CodexRootIsWhole, Whole, RemoveOldCopy, StepTo, Goes
<1>4. RestoreInv'
  BY <1>1 DEF MarketInv, RestoreInv, RemoveOldCopy, StepTo, Goes
<1>5. SiblingsInv'
  <2>1. \A q \in Siblings : Merged(q)'
    BY <1>1 DEF MarketInv, SiblingsInv, Merged, RemoveOldCopy, StepTo, Goes
  <2>2. p \in disk.older.dirs /\ p \in disk.older.codex
    BY DEF MarketInv, SiblingsInv, Merged, RemoveOldCopy, StepTo, Goes
  <2>3. \A q \in worked \ lost : InShared(q)' \/ InOlder(q)'
    BY <1>1, <2>2 DEF MarketInv, SiblingsInv, InShared, InOlder, RemoveOldCopy, StepTo, Goes
  <2> QED
    BY <1>1, <2>1, <2>3 DEF MarketInv, SiblingsInv, RemoveOldCopy, StepTo, Goes
<1>6. ClaudeInv'
  BY <1>1 DEF MarketInv, ClaudeInv, ClaudeKeepsSiblings, RemoveOldCopy, StepTo, Goes
<1> QED
  BY <1>2, <1>3, <1>4, <1>5, <1>6 DEF MarketInv

\* An imported sibling is entered, and its copy is where the merge wants it.
LEMMA ImportStep ==
  ASSUME MarketInv, NEW p \in Siblings, Import(p)
  PROVE  MarketInv'
<1>0. /\ at = "import" /\ at' = "import" /\ manifest' = manifest \cup {p} /\ pending' = pending \ {p}
      /\ UNCHANGED <<codex, claude, reinstall, has, linked, before, worked, hurt, lost>>
      /\ p \in disk.older.codex
  BY DEF MarketInv, SiblingsInv, Merged, Import, StepTo, Goes, Entered
<1>1. /\ disk'.shared.made = disk.shared.made
      /\ disk'.shared.codex = disk.shared.codex
      /\ disk'.shared.claude = disk.shared.claude
      /\ disk'.shared.dirs = disk.shared.dirs \cup ({p} \cap disk.older.dirs)
      /\ disk'.older.codex = disk.older.codex
      /\ disk'.older.dirs = disk.older.dirs \ {p}
      /\ DiskTypes'
  <2>1. CASE p \notin disk.older.dirs
    BY <2>1 DEF MarketInv, Types, DiskTypes, Import
  <2>2. CASE p \in disk.older.dirs
    <3>1. /\ disk' = [disk EXCEPT !.shared.dirs = @ \cup {p}, !.older.dirs = @ \ {p}]
          /\ disk \in [shared : Roots, older : Roots] /\ p \in Plugins
          /\ disk.shared.made
      BY <1>0, <2>2, ManifestTypes DEF MarketInv, Types, DiskTypes, Import
    <3>2. disk.older.made
      BY <2>2, WhatIsThere DEF MarketInv, Types
    <3>3. /\ disk'.shared = [disk.shared EXCEPT !.dirs = @ \cup {p}]
          /\ disk'.older = [disk.older EXCEPT !.dirs = @ \ {p}]
          /\ disk' \in [shared : Roots, older : Roots]
      BY <3>1 DEF Roots
    <3>4. {p} \cap disk.older.dirs = {p}
      BY <2>2
    <3>5. disk'.shared.made /\ disk'.older.made
      BY <3>1, <3>2, <3>3 DEF Roots
    <3> QED
      BY <3>1, <3>3, <3>4, <3>5 DEF DiskTypes, Roots
  <2> QED
    BY <2>1, <2>2
<1>2. Types'
  BY <1>0, <1>1, ManifestTypes DEF MarketInv, Types
<1>3. RootInv'
  BY <1>0, <1>1 DEF MarketInv, RootInv, CodexRootIsWhole, Whole
<1>4. RestoreInv'
  BY <1>0, <1>1 DEF MarketInv, RestoreInv
<1>5. SiblingsInv'
  <2>1. \A q \in Siblings : Merged(q)'
    BY <1>0, <1>1 DEF MarketInv, SiblingsInv, Merged
  <2>2. \A q \in worked \ lost : InShared(q)' \/ InOlder(q)'
    BY <1>0, <1>1 DEF MarketInv, Types, SiblingsInv, InShared, InOlder
  <2> QED
    BY <1>0, <2>1, <2>2 DEF MarketInv, SiblingsInv
<1>6. ClaudeInv'
  BY <1>0 DEF MarketInv, ClaudeInv, ClaudeKeepsSiblings
<1> QED
  BY <1>2, <1>3, <1>4, <1>5, <1>6 DEF MarketInv

\* Once nothing is pending, every sibling is whole in the shared root.
LEMMA WriteMergedStep ==
  ASSUME MarketInv, WriteMerged
  PROVE  MarketInv'
<1>1. /\ disk'.shared.made = disk.shared.made
      /\ disk'.shared.codex = manifest
      /\ disk'.shared.claude = disk.shared.claude
      /\ disk'.shared.dirs = disk.shared.dirs
      /\ disk'.older = disk.older
      /\ DiskTypes'
  BY ManifestTypes DEF MarketInv, Types, DiskTypes, Roots, WriteMerged, StepTo, Goes
<1>2. Types'
  BY <1>1 DEF MarketInv, Types, WriteMerged, StepTo, Goes
<1>3. RootInv'
  BY <1>1, ManifestTypes DEF MarketInv, Types, RootInv, CodexRootIsWhole, Whole, WriteMerged, StepTo,
     Goes
<1>4. RestoreInv'
  BY <1>1, ManifestTypes DEF MarketInv, Types, RestoreInv, WriteMerged, StepTo, Goes
<1>5. SiblingsInv'
  BY <1>1 DEF MarketInv, Types, SiblingsInv, InShared, InOlder, InLink, Merged, WriteMerged, StepTo, Goes
<1>6. ClaudeInv'
  BY <1>1 DEF MarketInv, ClaudeInv, ClaudeKeepsSiblings, WriteMerged, StepTo, Goes
<1> QED
  BY <1>2, <1>3, <1>4, <1>5, <1>6 DEF MarketInv

LEMMA DropOlderStep ==
  ASSUME MarketInv, DropOlder
  PROVE  MarketInv'
<1>1. /\ disk'.shared = disk.shared
      /\ disk'.older = Nowhere
      /\ DiskTypes'
  BY NothingThere DEF MarketInv, Types, DiskTypes, DropOlder
<1>2. Types'
  BY <1>1 DEF MarketInv, Types, DropOlder, StepTo, Goes
<1>3. RootInv'
  BY <1>1 DEF MarketInv, RootInv, CodexRootIsWhole, Whole, DropOlder, StepTo, Goes
<1>4. RestoreInv'
  BY <1>1 DEF MarketInv, RootInv, RestoreInv, DropOlder, StepTo, Goes
<1>5. SiblingsInv'
  BY <1>1 DEF MarketInv, Types, SiblingsInv, InShared, InLink, DropOlder, StepTo, Goes
<1>6. ClaudeInv'
  BY <1>1 DEF MarketInv, ClaudeInv, ClaudeKeepsSiblings, DropOlder, StepTo, Goes
<1> QED
  BY <1>2, <1>3, <1>4, <1>5, <1>6 DEF MarketInv

LEMMA RemoveCopyStep ==
  ASSUME MarketInv, RemoveCopy
  PROVE  MarketInv'
<1>1. /\ disk'.shared.made = TRUE
      /\ disk'.shared.codex = disk.shared.codex
      /\ disk'.shared.claude = disk.shared.claude
      /\ disk'.shared.dirs = disk.shared.dirs \ {Own}
      /\ disk'.older = disk.older
      /\ DiskTypes'
  BY DEF MarketInv, Types, DiskTypes, Roots, RemoveCopy
<1>2. Types'
  BY <1>1 DEF MarketInv, Types, RemoveCopy, StepTo, Goes
<1>3. RootInv'
  BY <1>1 DEF MarketInv, RootInv, CodexRootIsWhole, Whole, RemoveCopy, StepTo, Goes
<1>4. RestoreInv'
  BY <1>1 DEF MarketInv, RestoreInv, RemoveCopy, StepTo, Goes
<1>5. SiblingsInv'
  BY <1>1, ManifestTypes DEF MarketInv, Types, SiblingsInv, InShared, InOlder, InLink, RemoveCopy, StepTo, Goes
<1>6. ClaudeInv'
  BY <1>1 DEF MarketInv, ClaudeInv, ClaudeKeepsSiblings, RemoveCopy, StepTo, Goes
<1> QED
  BY <1>2, <1>3, <1>4, <1>5, <1>6 DEF MarketInv

LEMMA PutCopyStep ==
  ASSUME MarketInv, PutCopy
  PROVE  MarketInv'
<1>1. /\ disk'.shared.made = disk.shared.made
      /\ disk'.shared.codex = disk.shared.codex
      /\ disk'.shared.claude = disk.shared.claude
      /\ disk'.shared.dirs = disk.shared.dirs \cup {Own}
      /\ disk'.older = disk.older
      /\ DiskTypes'
  BY ManifestTypes DEF MarketInv, Types, DiskTypes, Roots, PutCopy, StepTo, Goes
<1>2. Types'
  BY <1>1 DEF MarketInv, Types, PutCopy, StepTo, Goes
<1>3. RootInv'
  BY <1>1 DEF MarketInv, RootInv, CodexRootIsWhole, Whole, PutCopy, StepTo, Goes
<1>4. RestoreInv'
  BY <1>1 DEF MarketInv, RestoreInv, PutCopy, StepTo, Goes
<1>5. SiblingsInv'
  BY <1>1 DEF MarketInv, SiblingsInv, InShared, InOlder, InLink, PutCopy, StepTo, Goes
<1>6. ClaudeInv'
  BY <1>1 DEF MarketInv, ClaudeInv, ClaudeKeepsSiblings, PutCopy, StepTo, Goes
<1> QED
  BY <1>2, <1>3, <1>4, <1>5, <1>6 DEF MarketInv

LEMMA WriteCodexManifestStep ==
  ASSUME MarketInv, WriteCodexManifest
  PROVE  MarketInv'
<1>1. /\ disk'.shared.made = disk.shared.made
      /\ disk'.shared.codex = Entries(disk.shared.codex) \cup {Own}
      /\ disk'.shared.claude = disk.shared.claude
      /\ disk'.shared.dirs = disk.shared.dirs
      /\ disk'.older = disk.older
      /\ DiskTypes'
  BY ManifestTypes DEF MarketInv, Types, DiskTypes, Roots, WriteCodexManifest, StepTo, Goes
<1>2. Types'
  BY <1>1 DEF MarketInv, Types, WriteCodexManifest, StepTo, Goes
<1>3. RootInv'
  <2>1. disk'.shared.codex # NoManifest
    <3>1. Entries(disk.shared.codex) \cup {Own} \in SUBSET Plugins
      BY ManifestTypes, WhatIsThere DEF MarketInv, Types
    <3> QED
      BY <1>1, <3>1, ManifestTypes
  <2> QED
    BY <1>1, <2>1 DEF MarketInv, RootInv, CodexRootIsWhole, Whole, WriteCodexManifest, StepTo, Goes
<1>4. RestoreInv'
  BY <1>1, NothingThere, ManifestTypes, WhatIsThere DEF MarketInv, Types, RootInv, RestoreInv, Whole,
     WriteCodexManifest, StepTo, Goes
<1>5. SiblingsInv'
  BY <1>1, ManifestTypes, WhatIsThere DEF MarketInv, Types, SiblingsInv, InShared, InOlder, InLink, WriteCodexManifest,
     StepTo, Goes
<1>6. ClaudeInv'
  BY <1>1 DEF MarketInv, ClaudeInv, ClaudeKeepsSiblings, WriteCodexManifest, StepTo, Goes
<1> QED
  BY <1>2, <1>3, <1>4, <1>5, <1>6 DEF MarketInv

LEMMA WriteClaudeManifestStep ==
  ASSUME MarketInv, WriteClaudeManifest
  PROVE  MarketInv'
<1>1. /\ disk'.shared.made = disk.shared.made
      /\ disk'.shared.codex = disk.shared.codex
      /\ disk'.shared.claude = Entries(disk.shared.claude) \cup {Own}
      /\ disk'.shared.dirs = disk.shared.dirs
      /\ disk'.older = disk.older
      /\ DiskTypes'
  BY ManifestTypes DEF MarketInv, Types, DiskTypes, Roots, WriteClaudeManifest, StepTo, Goes
<1>2. Types'
  BY <1>1 DEF MarketInv, Types, WriteClaudeManifest, StepTo, Goes
<1>3. RootInv'
  BY <1>1 DEF MarketInv, RootInv, CodexRootIsWhole, Whole, WriteClaudeManifest, StepTo, Goes
<1>4. RestoreInv'
  BY <1>1 DEF MarketInv, RestoreInv, WriteClaudeManifest, StepTo, Goes
<1>5. SiblingsInv'
  BY <1>1 DEF MarketInv, SiblingsInv, InShared, InOlder, InLink, WriteClaudeManifest, StepTo, Goes
<1>6. ClaudeInv'
  BY <1>1 DEF MarketInv, ClaudeInv, ClaudeKeepsSiblings, WriteClaudeManifest, StepTo, Goes
<1> QED
  BY <1>2, <1>3, <1>4, <1>5, <1>6 DEF MarketInv

LEMMA AddToCodexStep ==
  ASSUME MarketInv, AddToCodex
  PROVE  MarketInv'
<1>1. disk' = disk /\ DiskTypes'
  BY DEF MarketInv, Types, DiskTypes, AddToCodex, StepTo, Goes
<1>2. Types'
  BY <1>1 DEF MarketInv, Types, Registrations, AddToCodex, StepTo, Goes
<1>3. RootInv'
  BY <1>1 DEF MarketInv, RootInv, CodexRootIsWhole, Whole, AddToCodex, StepTo, Goes
<1>4. RestoreInv'
  BY <1>1 DEF RestoreInv, AddToCodex, StepTo, Goes
<1>5. SiblingsInv'
  BY <1>1 DEF MarketInv, SiblingsInv, InShared, InOlder, InLink, AddToCodex, StepTo, Goes
<1>6. ClaudeInv'
  BY <1>1 DEF MarketInv, ClaudeInv, ClaudeKeepsSiblings, AddToCodex, StepTo, Goes
<1> QED
  BY <1>2, <1>3, <1>4, <1>5, <1>6 DEF MarketInv

LEMMA InstallInCodexStep ==
  ASSUME MarketInv, InstallInCodex
  PROVE  MarketInv'
<1>1. disk' = disk /\ DiskTypes'
  BY DEF MarketInv, Types, DiskTypes, InstallInCodex, StepTo, Goes
<1>2. Types'
  BY <1>1, ManifestTypes DEF MarketInv, Types, Registrations, InstallInCodex, StepTo, Goes
<1>3. RootInv'
  BY <1>1 DEF MarketInv, RootInv, CodexRootIsWhole, Whole, InstallInCodex, StepTo, Goes
<1>4. RestoreInv'
  BY <1>1 DEF MarketInv, RestoreInv, InstallInCodex, StepTo, Goes
<1>5. SiblingsInv'
  BY <1>1 DEF MarketInv, SiblingsInv, InShared, InOlder, InLink, InstallInCodex, StepTo, Goes
<1>6. ClaudeInv'
  BY <1>1 DEF MarketInv, ClaudeInv, ClaudeKeepsSiblings, InstallInCodex, StepTo, Goes
<1> QED
  BY <1>2, <1>3, <1>4, <1>5, <1>6 DEF MarketInv

\* What goes with Claude Code's marketplace is remembered.
LEMMA ListClaudeStep ==
  ASSUME MarketInv, ListClaude
  PROVE  MarketInv'
<1>1. disk' = disk /\ DiskTypes'
  BY DEF MarketInv, Types, DiskTypes, ListClaude, Remembered
<1>2. Types'
  <2>1. claude' \in Registrations
    BY DEF MarketInv, Types, Registrations, ListClaude
  <2> QED
    BY <1>1, <2>1 DEF MarketInv, Types, ListClaude
<1>3. RootInv'
  BY <1>1 DEF MarketInv, RootInv, CodexRootIsWhole, Whole, ListClaude
<1>4. RestoreInv'
  BY <1>1 DEF MarketInv, RestoreInv, ListClaude
<1>5. SiblingsInv'
  BY <1>1 DEF MarketInv, SiblingsInv, InShared, InOlder, InLink, ListClaude
<1>6. ClaudeInv'
  <2>1. claude = before.claude /\ before' = before
    BY DEF MarketInv, ClaudeInv, ListClaude
  <2>2. CASE "claude" \notin has
    BY <1>1, <2>1, <2>2 DEF ClaudeInv, ClaudeKeepsSiblings, ListClaude
  <2>3. CASE "claude" \in has
    BY <1>1, <2>1, <2>3 DEF ClaudeInv, ClaudeKeepsSiblings, ListClaude, Remembered
  <2> QED
    BY <2>2, <2>3
<1> QED
  BY <1>2, <1>3, <1>4, <1>5, <1>6 DEF MarketInv

LEMMA AddToClaudeStep ==
  ASSUME MarketInv, AddToClaude
  PROVE  MarketInv'
<1>1. disk' = disk /\ DiskTypes'
  BY DEF MarketInv, Types, DiskTypes, AddToClaude, StepTo, Goes
<1>2. Types'
  BY <1>1 DEF MarketInv, Types, Registrations, AddToClaude, StepTo, Goes
<1>3. RootInv'
  BY <1>1 DEF MarketInv, RootInv, CodexRootIsWhole, Whole, AddToClaude, StepTo, Goes
<1>4. RestoreInv'
  BY <1>1 DEF MarketInv, RestoreInv, AddToClaude, StepTo, Goes
<1>5. SiblingsInv'
  BY <1>1 DEF MarketInv, SiblingsInv, InShared, InOlder, InLink, AddToClaude, StepTo, Goes
<1>6. ClaudeInv'
  BY <1>1 DEF MarketInv, ClaudeInv, ClaudeKeepsSiblings, AddToClaude, StepTo, Goes
<1> QED
  BY <1>2, <1>3, <1>4, <1>5, <1>6 DEF MarketInv

LEMMA InstallInClaudeStep ==
  ASSUME MarketInv, InstallInClaude
  PROVE  MarketInv'
<1>1. disk' = disk /\ DiskTypes'
  BY DEF MarketInv, Types, DiskTypes, InstallInClaude, StepTo, Goes
<1>2. Types'
  BY <1>1, ManifestTypes DEF MarketInv, Types, Registrations, InstallInClaude, StepTo, Goes
<1>3. RootInv'
  BY <1>1 DEF MarketInv, RootInv, CodexRootIsWhole, Whole, InstallInClaude, StepTo, Goes
<1>4. RestoreInv'
  BY <1>1 DEF MarketInv, RestoreInv, InstallInClaude, StepTo, Goes
<1>5. SiblingsInv'
  BY <1>1 DEF MarketInv, SiblingsInv, InShared, InOlder, InLink, InstallInClaude, StepTo, Goes
<1>6. ClaudeInv'
  BY <1>1 DEF MarketInv, ClaudeInv, ClaudeKeepsSiblings, InstallInClaude, StepTo, Goes
<1> QED
  BY <1>2, <1>3, <1>4, <1>5, <1>6 DEF MarketInv

\* A sibling that is no longer to be installed is, or it failed.
LEMMA ReinstallStep ==
  ASSUME MarketInv, NEW p \in Siblings, Reinstall(p)
  PROVE  MarketInv'
<1>1. disk' = disk /\ DiskTypes'
  BY DEF MarketInv, Types, DiskTypes, Reinstall, Goes
<1>2. Types'
  BY <1>1, ManifestTypes DEF MarketInv, Types, Registrations, Reinstall, Goes
<1>3. RootInv'
  BY <1>1 DEF MarketInv, RootInv, CodexRootIsWhole, Whole, Reinstall, Goes
<1>4. RestoreInv'
  BY <1>1 DEF MarketInv, RestoreInv, Reinstall, Goes
<1>5. SiblingsInv'
  BY <1>1 DEF MarketInv, SiblingsInv, InShared, InOlder, InLink, Reinstall, Goes
<1>6. ClaudeInv'
  <2>1. CASE p \in disk.shared.claude /\ claude' = [claude EXCEPT !.plugins = @ \cup {p}] /\ hurt' = hurt
    <3>1. claude'.plugins = claude.plugins \cup {p}
      BY <2>1 DEF MarketInv, Types, Registrations
    <3> QED
      BY <1>1, <2>1, <3>1 DEF MarketInv, ClaudeInv, ClaudeKeepsSiblings, Reinstall, Goes
  <2>2. CASE hurt' = (IF p \in disk.shared.claude THEN hurt \cup {"reinstall"} ELSE hurt) /\ claude' = claude
    BY <1>1, <2>2 DEF MarketInv, ClaudeInv, ClaudeKeepsSiblings, Reinstall, Goes
  <2> QED
    BY <2>1, <2>2 DEF Reinstall
<1> QED
  BY <1>2, <1>3, <1>4, <1>5, <1>6 DEF MarketInv

LEMMA InstalledStep ==
  ASSUME MarketInv, Installed
  PROVE  MarketInv'
<1>1. disk' = disk /\ DiskTypes'
  BY DEF MarketInv, Types, DiskTypes, Installed, StepTo, Goes
<1>2. Types'
  BY <1>1 DEF MarketInv, Types, Installed, StepTo, Goes
<1>3. RootInv'
  BY <1>1 DEF MarketInv, RootInv, CodexRootIsWhole, Whole, Installed, StepTo, Goes
<1>4. RestoreInv'
  BY <1>1 DEF RestoreInv, Installed, StepTo, Goes
<1>5. SiblingsInv'
  BY <1>1 DEF MarketInv, SiblingsInv, InShared, InOlder, InLink, Installed, StepTo, Goes
<1>6. ClaudeInv'
  BY <1>1 DEF MarketInv, ClaudeInv, ClaudeKeepsSiblings, Installed, StepTo, Goes
<1> QED
  BY <1>2, <1>3, <1>4, <1>5, <1>6 DEF MarketInv

-----------------------------------------------------------------------------
(* The steps of an uninstallation *)

LEMMA UnregisterStep ==
  ASSUME MarketInv, Unregister
  PROVE  MarketInv'
<1>1. disk' = disk /\ DiskTypes'
  BY DEF MarketInv, Types, DiskTypes, Unregister, StepTo, Goes
<1>2. Types'
  BY <1>1 DEF MarketInv, Types, Registrations, Unregister, StepTo, Goes
<1>3. RootInv'
  BY <1>1 DEF MarketInv, RootInv, CodexRootIsWhole, Whole, Unregister, StepTo, Goes
<1>4. RestoreInv'
  BY <1>1 DEF RestoreInv, Unregister, StepTo, Goes
<1>5. SiblingsInv'
  BY <1>1, ManifestTypes DEF MarketInv, Types, SiblingsInv, InShared, InOlder, InLink, Unregister, StepTo, Goes
<1>6. ClaudeInv'
  BY <1>1 DEF ClaudeInv, ClaudeKeepsSiblings, Unregister, StepTo, Goes
<1> QED
  BY <1>2, <1>3, <1>4, <1>5, <1>6 DEF MarketInv

LEMMA StripCodexStep ==
  ASSUME MarketInv, StripCodex
  PROVE  MarketInv'
<1>1. /\ disk'.shared.made = disk.shared.made
      /\ disk'.shared.codex = Stripped(disk.shared.codex)
      /\ disk'.shared.claude = disk.shared.claude
      /\ disk'.shared.dirs = disk.shared.dirs
      /\ disk'.older = disk.older
      /\ DiskTypes'
  <2>1. /\ disk' = [disk EXCEPT !.shared = [disk.shared EXCEPT !.codex = Stripped(disk.shared.codex)]]
        /\ disk.shared \in Roots /\ disk.older \in Roots /\ Stripped(disk.shared.codex) \in Manifests
    BY ManifestTypes, WhatIsThere DEF MarketInv, Types, DiskTypes, StripCodex
  <2>2. [disk.shared EXCEPT !.codex = Stripped(disk.shared.codex)] \in Roots
    BY <2>1 DEF Roots
  <2>3. ~disk.shared.made => [disk.shared EXCEPT !.codex = Stripped(disk.shared.codex)] = Nowhere
    <3>1. ~disk.shared.made => Stripped(disk.shared.codex) = disk.shared.codex /\ disk.shared = Nowhere
      BY WhatIsThere DEF MarketInv, Types, DiskTypes, Stripped
    <3>2. [disk.shared EXCEPT !.codex = disk.shared.codex] = disk.shared
      BY <2>1 DEF Roots
    <3> QED
      BY <3>1, <3>2
  <2> QED
    BY <2>1, <2>2, <2>3 DEF MarketInv, Types, DiskTypes, Roots
<1>2. Types'
  BY <1>1 DEF MarketInv, Types, StripCodex, StepTo, Goes
<1>3. RootInv'
  BY <1>1, ManifestTypes, WhatIsThere DEF MarketInv, Types, RootInv, CodexRootIsWhole, Whole, StripCodex,
     StepTo, Goes
<1>4. RestoreInv'
  BY <1>1 DEF RestoreInv, StripCodex, StepTo, Goes
<1>5. SiblingsInv'
  <2>0. disk.shared.codex \in Manifests /\ disk'.shared.codex = Stripped(disk.shared.codex)
    BY <1>1, WhatIsThere DEF MarketInv, Types
  <2>1. \A p \in Siblings : p \in disk'.shared.codex <=> p \in disk.shared.codex
    BY <2>0, ManifestTypes
  <2>2. \A p \in worked \ lost : InShared(p)' \/ InOlder(p)'
    BY <1>1, <2>1 DEF MarketInv, Types, SiblingsInv, InShared, InOlder, StripCodex, StepTo, Goes
  <2> QED
    BY <2>2 DEF MarketInv, SiblingsInv, StripCodex, StepTo, Goes
<1>6. ClaudeInv'
  BY <1>1 DEF ClaudeInv, ClaudeKeepsSiblings, StripCodex, StepTo, Goes
<1> QED
  BY <1>2, <1>3, <1>4, <1>5, <1>6 DEF MarketInv

LEMMA StripClaudeStep ==
  ASSUME MarketInv, StripClaude
  PROVE  MarketInv'
<1>1. /\ disk'.shared.made = disk.shared.made
      /\ disk'.shared.claude = Stripped(disk.shared.claude)
      /\ disk'.shared.codex = disk.shared.codex
      /\ disk'.shared.dirs = disk.shared.dirs
      /\ disk'.older = disk.older
      /\ DiskTypes'
  <2>1. /\ disk' = [disk EXCEPT !.shared = [disk.shared EXCEPT !.claude = Stripped(disk.shared.claude)]]
        /\ disk.shared \in Roots /\ disk.older \in Roots /\ Stripped(disk.shared.claude) \in Manifests
    BY ManifestTypes, WhatIsThere DEF MarketInv, Types, DiskTypes, StripClaude
  <2>2. [disk.shared EXCEPT !.claude = Stripped(disk.shared.claude)] \in Roots
    BY <2>1 DEF Roots
  <2>3. ~disk.shared.made => [disk.shared EXCEPT !.claude = Stripped(disk.shared.claude)] = Nowhere
    <3>1. ~disk.shared.made => Stripped(disk.shared.claude) = disk.shared.claude /\ disk.shared = Nowhere
      BY WhatIsThere DEF MarketInv, Types, DiskTypes, Stripped
    <3>2. [disk.shared EXCEPT !.claude = disk.shared.claude] = disk.shared
      BY <2>1 DEF Roots
    <3> QED
      BY <3>1, <3>2
  <2> QED
    BY <2>1, <2>2, <2>3 DEF MarketInv, Types, DiskTypes, Roots
<1>2. Types'
  BY <1>1 DEF MarketInv, Types, StripClaude, StepTo, Goes
<1>3. RootInv'
  BY <1>1 DEF MarketInv, RootInv, CodexRootIsWhole, Whole, StripClaude, StepTo, Goes
<1>4. RestoreInv'
  BY <1>1 DEF RestoreInv, StripClaude, StepTo, Goes
<1>5. SiblingsInv'
  BY <1>1 DEF MarketInv, SiblingsInv, InShared, InOlder, InLink, StripClaude, StepTo, Goes
<1>6. ClaudeInv'
  BY <1>1 DEF ClaudeInv, ClaudeKeepsSiblings, StripClaude, StepTo, Goes
<1> QED
  BY <1>2, <1>3, <1>4, <1>5, <1>6 DEF MarketInv

\* The root that goes names no sibling; the copies that go with it are counted
\* as lost.
LEMMA RemoveRootStep ==
  ASSUME MarketInv, RemoveRoot
  PROVE  MarketInv'
<1>0. /\ at = "remove" /\ at' = "release" /\ manifest' = disk.shared.codex /\ pending' = disk.shared.claude
      /\ UNCHANGED <<codex, claude, reinstall, has, linked, before, worked, hurt>>
  BY DEF RemoveRoot, Goes
<1>1. CASE Empty(disk.shared.codex) /\ Empty(disk.shared.claude)
  <2>1. disk' = [disk EXCEPT !.shared = Nowhere] /\ lost' = lost \cup (disk.shared.dirs \ {Own})
    BY <1>1 DEF RemoveRoot
  <2>2. disk'.shared = Nowhere /\ disk'.older = disk.older /\ DiskTypes'
    BY <2>1, NothingThere DEF MarketInv, Types, DiskTypes
  <2>3. Types'
    BY <1>0, <2>2 DEF MarketInv, Types
  <2>4. RootInv'
    <3>1. Empty(manifest')
      BY <1>0, <1>1
    <3>2. /\ codex.root = "gone" => "release" \in hurt
          /\ codex.root = "older" /\ "release" \notin hurt => disk.older.codex # NoManifest
      BY <1>0 DEF MarketInv, Types, RootInv, CodexRootIsWhole, Whole
    <3> QED
      BY <1>0, <2>2, <3>1, <3>2 DEF RootInv, CodexRootIsWhole
  <2>5. SiblingsInv'
    <3>1. \A p \in Siblings : ~InShared(p)
      BY <1>1, ManifestTypes, WhatIsThere DEF MarketInv, Types, InShared, Empty
    <3>2. \A p \in worked \ lost' : InOlder(p)'
      <4> SUFFICES ASSUME NEW p \in worked \ lost' PROVE InOlder(p)'
        OBVIOUS
      <4>1. p \in Siblings /\ p # Own /\ p \notin lost /\ p \notin disk.shared.dirs
        BY <2>1, ManifestTypes DEF MarketInv, Types
      <4>2. InOlder(p)
        BY <3>1, <4>1 DEF MarketInv, SiblingsInv
      <4> QED
        BY <2>2, <4>1, <4>2 DEF InOlder
    <3> QED
      BY <1>0, <3>2 DEF MarketInv, SiblingsInv
  <2>6. RestoreInv' /\ ClaudeInv'
    BY <1>0 DEF MarketInv, RestoreInv, ClaudeInv, ClaudeKeepsSiblings
  <2> QED
    BY <2>3, <2>4, <2>5, <2>6 DEF MarketInv
<1>2. CASE ~(Empty(disk.shared.codex) /\ Empty(disk.shared.claude))
  <2>1. disk' = [disk EXCEPT !.shared.dirs = @ \ {Own}] /\ lost' = lost
    BY <1>2 DEF RemoveRoot
  <2>2. disk.shared.made
    BY <1>2, WhatIsThere DEF MarketInv, Types, Empty, Entries
  <2>3. /\ disk'.shared.codex = disk.shared.codex /\ disk'.shared.claude = disk.shared.claude
        /\ disk'.shared.dirs = disk.shared.dirs \ {Own} /\ disk'.older = disk.older /\ DiskTypes'
    BY <2>1, <2>2 DEF MarketInv, Types, DiskTypes, Roots
  <2>4. Types'
    BY <1>0, <2>3 DEF MarketInv, Types
  <2>5. RootInv'
    <3>1. ~Empty(manifest') => disk.shared.codex # NoManifest
      BY <1>0 DEF Empty, Entries
    <3>2. /\ codex.root = "gone" => "release" \in hurt
          /\ codex.root = "older" /\ "release" \notin hurt => disk.older.codex # NoManifest
      BY <1>0 DEF MarketInv, Types, RootInv, CodexRootIsWhole, Whole
    <3> QED
      BY <1>0, <2>3, <3>1, <3>2 DEF RootInv, CodexRootIsWhole
  <2>6. SiblingsInv'
    <3>1. \A p \in worked \ lost : InShared(p)' \/ InOlder(p)'
      <4> SUFFICES ASSUME NEW p \in worked \ lost PROVE InShared(p)' \/ InOlder(p)'
        OBVIOUS
      <4>1. p # Own
        BY ManifestTypes DEF MarketInv, Types
      <4>2. InShared(p) \/ InOlder(p)
        BY DEF MarketInv, SiblingsInv
      <4> QED
        BY <1>0, <2>3, <4>1, <4>2 DEF InShared, InOlder
    <3> QED
      BY <1>0, <2>1, <3>1 DEF MarketInv, SiblingsInv
  <2>7. RestoreInv' /\ ClaudeInv'
    BY <1>0 DEF MarketInv, RestoreInv, ClaudeInv, ClaudeKeepsSiblings
  <2> QED
    BY <2>4, <2>5, <2>6, <2>7 DEF MarketInv
<1> QED
  BY <1>1, <1>2

LEMMA ReleaseStep ==
  ASSUME MarketInv, Release
  PROVE  MarketInv'
<1>1. disk' = disk /\ DiskTypes'
  BY DEF MarketInv, Types, DiskTypes, Release, Goes
<1>2. Types'
  BY <1>1 DEF MarketInv, Types, Registrations, Release, Goes
<1>3. RootInv'
  BY <1>1 DEF MarketInv, RootInv, CodexRootIsWhole, Whole, Release, Goes
<1>4. RestoreInv'
  BY <1>1 DEF RestoreInv, Release, Goes
<1>5. SiblingsInv'
  <2>1. codex'.plugins = codex.plugins
    BY DEF MarketInv, Types, Registrations, Release
  <2> QED
    BY <1>1, <2>1 DEF MarketInv, SiblingsInv, InShared, InOlder, InLink, Release, Goes
<1>6. ClaudeInv'
  BY <1>1 DEF ClaudeInv, ClaudeKeepsSiblings, Release, Goes
<1> QED
  BY <1>2, <1>3, <1>4, <1>5, <1>6 DEF MarketInv

-----------------------------------------------------------------------------
(* What goes wrong *)

\* Whatever step it ends in, the installer leaves what the next run needs.
LEMMA EndsStep ==
  ASSUME MarketInv, Ends
  PROVE  MarketInv'
<1>1. disk' = disk /\ DiskTypes'
  BY DEF MarketInv, Types, DiskTypes, Ends
<1>7. /\ at \in Places \ Resting /\ at' \in {"off", "failed"}
      /\ codex' \in {codex, Restored} /\ (at \in Uninstalling => codex' = codex)
      /\ hurt' = (IF at = "release" THEN hurt \cup {"release"} ELSE hurt)
      /\ UNCHANGED <<claude, pending, manifest, reinstall, has, linked, before, worked, lost>>
  BY DEF MarketInv, Types, Ends, Fails, IsKilled
<1>2. Types'
  BY <1>1, <1>7, RestoredCodex DEF MarketInv, Types
<1>3. RootInv'
  BY <1>1, <1>7, RestoredCodex DEF MarketInv, RootInv, CodexRootIsWhole, Whole
<1>4. RestoreInv'
  BY <1>7 DEF RestoreInv
<1>5. SiblingsInv'
  BY <1>1, <1>7, RestoredCodex DEF MarketInv, SiblingsInv, InShared, InOlder, InLink
<1>6. ClaudeInv'
  BY <1>7 DEF ClaudeInv, ClaudeKeepsSiblings
<1> QED
  BY <1>2, <1>3, <1>4, <1>5, <1>6 DEF MarketInv

\* By the time the older root is removed, the shared one has everything.
LEMMA EndsInDropStep ==
  ASSUME MarketInv, EndsInDrop
  PROVE  MarketInv'
<1>0. /\ at = "drop" /\ at' \in {"off", "failed"} /\ codex' \in {codex, Restored}
      /\ UNCHANGED <<claude, pending, manifest, reinstall, has, linked, before, worked, hurt, lost>>
  BY DEF EndsInDrop, Fails, IsKilled
<1>1. disk'.shared = disk.shared /\ DiskTypes'
  <2>1. PICK m \in {disk.older.codex, NoManifest}, dirs \in SUBSET disk.older.dirs :
          disk' = [disk EXCEPT !.older.codex = m, !.older.dirs = dirs]
    BY DEF EndsInDrop
  <2>2. m \in Manifests /\ dirs \subseteq Plugins /\ disk \in [shared : Roots, older : Roots]
    BY WhatIsThere, ManifestTypes DEF MarketInv, Types, DiskTypes
  <2>3. /\ disk'.shared = disk.shared /\ disk'.older = [disk.older EXCEPT !.codex = m, !.dirs = dirs]
        /\ disk' \in [shared : Roots, older : Roots] /\ disk'.older.made = disk.older.made
    BY <2>1, <2>2 DEF Roots
  <2>4. ASSUME ~disk.older.made PROVE disk'.older = Nowhere
    <3>1. disk.older = Nowhere /\ m = disk.older.codex /\ dirs = disk.older.dirs
      BY <2>1, <2>4, NothingThere DEF MarketInv, Types, DiskTypes
    <3>2. [disk.older EXCEPT !.codex = disk.older.codex, !.dirs = disk.older.dirs] = disk.older
      BY <2>2 DEF Roots
    <3> QED
      BY <2>3, <3>1, <3>2
  <2> QED
    BY <2>3, <2>4 DEF MarketInv, Types, DiskTypes
<1>2. Types'
  BY <1>0, <1>1, RestoredCodex DEF MarketInv, Types
<1>3. RootInv'
  <2>1. disk.shared.codex # NoManifest /\ ("codex" \in has => codex.root \in {"none", "shared"})
    BY <1>0 DEF MarketInv, RootInv
  <2>2. codex'.root \in {"none", "shared"}
    BY <1>0, <2>1, RestoredCodex DEF MarketInv, Types
  <2> QED
    BY <1>0, <1>1, <2>1, <2>2 DEF RootInv, CodexRootIsWhole, Whole
<1>4. SiblingsInv'
  <2>1. \A p \in worked \ lost : InShared(p)'
    BY <1>0, <1>1 DEF MarketInv, Types, SiblingsInv, InShared, InLink
  <2>2. codex'.plugins = codex.plugins
    BY <1>0, RestoredCodex DEF MarketInv
  <2> QED
    BY <1>0, <2>1, <2>2 DEF MarketInv, SiblingsInv
<1>5. RestoreInv' /\ ClaudeInv'
  BY <1>0 DEF MarketInv, RestoreInv, ClaudeInv, ClaudeKeepsSiblings
<1> QED
  BY <1>2, <1>3, <1>4, <1>5 DEF MarketInv

-----------------------------------------------------------------------------
(* Theorems *)

\* The inductive invariant.
THEOREM MarketInvariant == Spec => []MarketInv
<1>1. MarketInv /\ [Next]_vars => MarketInv'
  <2> SUFFICES ASSUME MarketInv, [Next]_vars PROVE MarketInv'
    OBVIOUS
  <2>1. CASE UNCHANGED vars
    <3>1. /\ disk' = disk /\ linked' = linked /\ codex' = codex /\ claude' = claude /\ has' = has /\ at' = at /\ pending' = pending
          /\ manifest' = manifest /\ reinstall' = reinstall /\ before' = before /\ worked' = worked
          /\ hurt' = hurt /\ lost' = lost
      BY <2>1 DEF vars
    <3>2. Types'
      BY <3>1 DEF MarketInv, Types, DiskTypes
    <3>3. RestoreInv'
      BY <3>1 DEF MarketInv, RestoreInv, Whole
    <3>4. ClaudeInv'
      BY <3>1 DEF MarketInv, ClaudeInv, ClaudeKeepsSiblings
    <3>5. RootInv'
      BY <3>1 DEF MarketInv, RootInv, CodexRootIsWhole, Whole
    <3>6. SiblingsInv'
      BY <3>1 DEF MarketInv, SiblingsInv, InShared, InOlder, InLink, Merged
    <3> QED
      BY <3>2, <3>3, <3>4, <3>5, <3>6 DEF MarketInv
  <2>2. ASSUME NEW p \in Siblings, RemoveOldCopy(p) \/ Import(p) \/ Reinstall(p) PROVE MarketInv'
    BY <2>2, RemoveOldCopyStep, ImportStep, ReinstallStep
  <2> QED
    BY <2>1, <2>2, StartInstallStep, StartUninstallStep, DetachStep, RefuseStep, MigrateStep, MoveStep,
       WriteMergedStep, DropOlderStep, RemoveCopyStep, PutCopyStep, WriteCodexManifestStep,
       WriteClaudeManifestStep, AddToCodexStep, InstallInCodexStep, ListClaudeStep, AddToClaudeStep,
       InstallInClaudeStep, InstalledStep, UnregisterStep, StripCodexStep, StripClaudeStep, RemoveRootStep,
       ReleaseStep, EndsStep, EndsInDropStep DEF Next
<1> QED
  BY <1>1, InitMarket, PTL DEF Spec

\* Wherever an installation fails or is killed, Codex has no registered root
\* without a manifest (detachCodexMarketplace(), agent-marketplace.mjs:247).
THEOREM CodexRoot == Spec => []CodexRootIsWhole
<1>1. MarketInv => CodexRootIsWhole
  BY DEF MarketInv, RootInv
<1> QED
  BY <1>1, MarketInvariant, PTL

\* An installation that fails leaves Codex a marketplace, if it found one that
\* Codex could use (restoreCodexMarketplace()).
THEOREM Restoring == Spec => CodexIsRestored
<1>1. ASSUME MarketInv, Next, at \notin Uninstalling, at' = "failed", "codex" \in has, before.usable
      PROVE  codex'.root # "none"
  <2>1. CASE Refuse
    BY <2>1 DEF Refuse
  <2>2. CASE Ends
    <3>1. at \in {"detach"} \cup Installing
      BY <1>1, <2>2 DEF MarketInv, Types, Ends
    <3>2. codex' = IF at = "detach" THEN codex ELSE Restored
      BY <1>1, <2>2 DEF Ends, Fails, IsKilled
    <3>3. CASE at = "detach"
      BY <1>1, <3>2, <3>3 DEF MarketInv, RestoreInv
    <3>4. CASE at # "detach"
      BY <1>1, <3>1, <3>2, <3>4, RestoredCodex DEF MarketInv, RestoreInv
    <3> QED
      BY <3>3, <3>4
  <2>3. CASE EndsInDrop
    <3>1. at = "drop" /\ codex' = Restored /\ disk.shared.codex # NoManifest
      BY <1>1, <2>3 DEF EndsInDrop, Fails, IsKilled, MarketInv, RootInv
    <3> QED
      BY <1>1, <3>1, RestoredCodex DEF MarketInv
  <2>4. ~(Ends \/ EndsInDrop \/ Refuse) => at' # "failed"
    BY <1>1 DEF Next, Start, Detach, Migrate, Move, RemoveOldCopy, Import, WriteMerged, DropOlder,
       RemoveCopy, PutCopy, WriteCodexManifest, WriteClaudeManifest, AddToCodex, InstallInCodex, ListClaude,
       AddToClaude, InstallInClaude, Reinstall, Installed, Unregister, StripCodex, StripClaude, RemoveRoot,
       Release, StepTo, Goes
  <2> QED
    BY <1>1, <2>1, <2>2, <2>3, <2>4
<1>2. MarketInv /\ [Next]_vars =>
        [at \notin Uninstalling /\ at' = "failed" /\ "codex" \in has /\ before.usable => codex'.root # "none"]_vars
  BY <1>1
<1> QED
  BY <1>2, MarketInvariant, PTL DEF Spec, CodexIsRestored

\* An installation costs Codex no other plugin, but for those in an older root that
\* is a link, and Claude Code none that the shared marketplace has, wherever the
\* ones before it ended (migrateLegacyMarketplace(), registerClaudeCode()).
THEOREM Siblinghood == Spec => []SiblingsSurvive
<1>1. MarketInv => CodexKeepsSiblings
  <2> SUFFICES ASSUME MarketInv, at = "installed", "codex" \in has, NEW p \in worked \ lost
                  PROVE  Works(p) \/ InLink(p)
    BY DEF CodexKeepsSiblings
  <2>1. (InShared(p) \/ InLink(p)) /\ p \in codex.plugins /\ codex.root = "shared"
    BY DEF MarketInv, SiblingsInv, RootInv
  <2> QED
    BY <2>1 DEF Works, InShared
<1>2. MarketInv => ClaudeKeepsSiblings
  BY DEF MarketInv, ClaudeInv
<1> QED
  BY <1>1, <1>2, MarketInvariant, PTL DEF SiblingsSurvive
=============================================================================
