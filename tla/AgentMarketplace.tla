--------------------------- MODULE AgentMarketplace ---------------------------
(***************************************************************************)
(* The installer's registration with Codex and Claude Code:                *)
(* scripts/lib/agent-marketplace.mjs. All bridges share one marketplace    *)
(* directory; older installers kept one for Codex in another place. An     *)
(* installation is a sequence of commands and file operations, any of      *)
(* which may fail, and it may be killed between any two of them; then it   *)
(* is run again. The two directories are on one device: a move is atomic.  *)
(* The older one may be a symbolic link, and is then left alone.           *)
(*                                                                         *)
(* Codex fails every plugin command while a registered marketplace has no  *)
(* manifest, and keeps what is installed by the marketplace's name; Claude *)
(* Code uninstalls the plugins of a marketplace that is removed.           *)
(***************************************************************************)
EXTENDS Naturals, FiniteSets

CONSTANTS
  Siblings,   \* plugins of other bridges
  Machines,   \* what an installer may find: clients, directories, registrations
  MaxRuns     \* bound

Own == "figma-bridge"
NoManifest == {"no manifest"}
Nowhere == [made |-> FALSE, codex |-> NoManifest, claude |-> NoManifest, dirs |-> {}]

Plugins == Siblings \cup {Own}
Manifests == (SUBSET Plugins) \cup {NoManifest}
Roots == [made : BOOLEAN, codex : Manifests, claude : Manifests, dirs : SUBSET Plugins]

\* "elsewhere" is a root with a manifest, "gone" one that has none.
Registrations == [root : {"none", "shared", "older", "elsewhere", "gone"}, plugins : SUBSET Plugins]

\* A machine has the agents it has registrations with. A directory that is not
\* there holds nothing.
ASSUME MarketAssumption ==
  /\ Own \notin Siblings /\ "no manifest" \notin Plugins
  /\ MaxRuns \in Nat
  /\ \A m \in Machines :
       /\ {m.shared, m.older} \subseteq Roots /\ m.linked \in BOOLEAN
       /\ {m.codex, m.claude} \subseteq Registrations
       /\ \A root \in {m.shared, m.older} : ~root.made => root = Nowhere
       /\ "codex" \notin m.has => m.codex.root = "none"

VARIABLES
  disk,        \* the shared root and the older one
  linked,      \* whether the older one is a symbolic link
  codex,       \* the root Codex has registered, and its plugins
  claude,
  has,         \* the clients there are
  at,          \* what the installer does next
  pending,     \* siblings that are still to be merged
  manifest,    \* the manifest the merge has read
  reinstall,   \* siblings Claude Code has to install again
  runs,
  before,      \* history: what there was when the run began
  worked,      \* history: siblings that worked in Codex at first
  hurt,        \* history: what ended too early, now or before
  lost         \* history: siblings whose copies went with the shared root

outside == <<disk, codex, claude>>
run == <<pending, manifest, reinstall>>
history == <<has, linked, before, worked, hurt, lost, runs>>
vars == <<outside, run, history, at>>

Entries(m) == IF m = NoManifest THEN {} ELSE m

\* A registered root without a manifest breaks Codex.
Whole(root) == root # "gone" /\ (root \in {"shared", "older"} => disk[root].codex # NoManifest)

Works(p) ==
  /\ p \in codex.plugins
  /\ codex.root \in {"shared", "older"}
  /\ p \in disk[codex.root].codex /\ p \in disk[codex.root].dirs

Init ==
  /\ \E m \in Machines :
       /\ has = m.has /\ linked = m.linked
       /\ disk = [shared |-> m.shared, older |-> m.older]
       /\ codex = m.codex
       /\ claude = m.claude
  /\ at = "off"
  /\ pending = {} /\ manifest = {} /\ reinstall = {}
  /\ runs = 0
  /\ before = [usable |-> FALSE, claude |-> claude]
  /\ worked = {p \in Siblings : Works(p)}
  /\ hurt = IF Whole(codex.root) THEN {} ELSE {"release"}
  /\ lost = {}

Resting == {"off", "installed", "uninstalled", "failed"}

Start(first) ==
  /\ at \in Resting /\ runs < MaxRuns
  /\ runs' = runs + 1
  /\ before' = [usable |-> codex.root # "none" /\ Whole(codex.root), claude |-> claude]
  /\ at' = first
  /\ pending' = {} /\ manifest' = {} /\ reinstall' = {}
  /\ hurt' = hurt \ {"reinstall"}
  /\ UNCHANGED <<outside, has, linked, worked, lost>>

Goes(from, to) == at = from /\ at' = to /\ UNCHANGED <<has, linked, before, worked, runs>>
StepTo(from, to) == Goes(from, to) /\ UNCHANGED <<hurt, lost>>

-----------------------------------------------------------------------------
(* installForClients() *)

\* Mutant: Codex keeps the root whose directory is going to be moved.
Detached_Not == codex.root

\* detachCodexMarketplace(): a root without a manifest, with which Codex cannot
\* even list its marketplaces, wherever it is, and the older root.
Detached == IF codex.root = "older" \/ ~Whole(codex.root) THEN "none" ELSE codex.root

Detach ==
  /\ Goes("detach", "migrate")
  /\ "codex" \in has => codex.root # "elsewhere"
  /\ hurt' = IF "codex" \in has THEN hurt \ {"release"} ELSE hurt
  /\ codex' = IF "codex" \in has THEN [codex EXCEPT !.root = Detached] ELSE codex
  /\ UNCHANGED <<disk, claude, run, lost>>

\* A root that is somebody else's, and has a manifest, is refused.
Refuse ==
  /\ at = "detach" /\ "codex" \in has /\ codex.root = "elsewhere"
  /\ at' = "failed"
  /\ UNCHANGED <<outside, run, history>>

\* migrateLegacyMarketplace(): a link is left alone.
Migrate ==
  /\ at = "migrate"
  /\ at' = IF ~disk.older.made \/ linked THEN "copy" ELSE IF disk.shared.made THEN "import" ELSE "move"
  /\ pending' = Entries(disk.older.codex) \ {Own}
  /\ manifest' = Entries(disk.shared.codex)
  /\ UNCHANGED <<outside, reinstall, history>>

Move ==
  /\ StepTo("move", "copy")
  /\ disk' = [shared |-> disk.older, older |-> Nowhere]
  /\ UNCHANGED <<codex, claude, run>>

\* Mutant: only a plugin that is still there is entered.
Entered_IfThere(m, p) == IF p \in disk.older.dirs THEN m \cup {p} ELSE m

Entered(m, p) == m \cup {p}

\* The copy in the older root is newer: the one in the shared root is removed ...
RemoveOldCopy(p) ==
  /\ StepTo("import", "import")
  /\ p \in pending \cap disk.older.dirs \cap disk.shared.dirs
  /\ disk' = [disk EXCEPT !.shared.dirs = @ \ {p}]
  /\ UNCHANGED <<codex, claude, run>>

\* ... and replaced.
Import(p) ==
  /\ StepTo("import", "import")
  /\ p \in pending /\ (p \in disk.older.dirs => p \notin disk.shared.dirs)
  /\ disk' = IF p \notin disk.older.dirs THEN disk
             ELSE [disk EXCEPT !.shared.dirs = @ \cup {p}, !.older.dirs = @ \ {p}]
  /\ manifest' = Entered(manifest, p)
  /\ pending' = pending \ {p}
  /\ UNCHANGED <<codex, claude, reinstall>>

WriteMerged ==
  /\ StepTo("import", "drop")
  /\ pending = {}
  /\ disk' = [disk EXCEPT !.shared.codex = manifest]
  /\ UNCHANGED <<codex, claude, run>>

DropOlder ==
  /\ StepTo("drop", "copy")
  /\ disk' = [disk EXCEPT !.older = Nowhere]
  /\ UNCHANGED <<codex, claude, run>>

\* installSharedPlugin(): the copy there is removed, and replaced by a new one.
RemoveCopy ==
  /\ StepTo("copy", "copied")
  /\ disk' = [disk EXCEPT !.shared.made = TRUE, !.shared.dirs = @ \ {Own}]
  /\ UNCHANGED <<codex, claude, run>>

PutCopy ==
  /\ StepTo("copied", "enter")
  /\ disk' = [disk EXCEPT !.shared.dirs = @ \cup {Own}]
  /\ UNCHANGED <<codex, claude, run>>

WriteCodexManifest ==
  /\ StepTo("enter", "enter Claude")
  /\ disk' = [disk EXCEPT !.shared.codex = Entries(@) \cup {Own}]
  /\ UNCHANGED <<codex, claude, run>>

WriteClaudeManifest ==
  /\ StepTo("enter Claude", IF "codex" \in has THEN "register" ELSE "list")
  /\ disk' = [disk EXCEPT !.shared.claude = Entries(@) \cup {Own}]
  /\ UNCHANGED <<codex, claude, run>>

\* registerCodex(): the marketplace is added unless it is there already.
AddToCodex ==
  /\ StepTo("register", "codex")
  /\ codex' = [codex EXCEPT !.root = "shared"]
  /\ UNCHANGED <<disk, claude, run>>

\* The plugin is removed, if that works, and added.
InstallInCodex ==
  /\ StepTo("codex", "list")
  /\ codex' = [codex EXCEPT !.plugins = @ \cup {Own}]
  /\ UNCHANGED <<disk, claude, run>>

\* The siblings that go with Claude Code's marketplace.
Remembered == claude.plugins \ {Own}

\* registerClaudeCode(): a marketplace in another place is removed.
ListClaude ==
  /\ at = "list"
  /\ IF "claude" \notin has
     THEN at' = "installed" /\ UNCHANGED <<claude, reinstall>>
     ELSE IF claude.root = "elsewhere"
     THEN /\ at' = "add"
          /\ claude' = [root |-> "none", plugins |-> {}]
          /\ reinstall' = Remembered
     ELSE at' = "add" /\ UNCHANGED <<claude, reinstall>>
  /\ UNCHANGED <<disk, codex, pending, manifest, history>>

\* Added, or updated.
AddToClaude ==
  /\ StepTo("add", "claude")
  /\ claude' = [claude EXCEPT !.root = "shared"]
  /\ UNCHANGED <<disk, codex, run>>

\* Uninstalled and installed again.
InstallInClaude ==
  /\ StepTo("claude", "reinstall")
  /\ claude' = [claude EXCEPT !.plugins = @ \cup {Own}]
  /\ UNCHANGED <<disk, codex, run>>

\* A sibling can be installed if the shared marketplace has it; if that fails,
\* the others follow nevertheless.
Reinstall(p) ==
  /\ Goes("reinstall", "reinstall")
  /\ p \in reinstall
  /\ reinstall' = reinstall \ {p}
  /\ \/ /\ p \in disk.shared.claude
        /\ claude' = [claude EXCEPT !.plugins = @ \cup {p}]
        /\ UNCHANGED hurt
     \/ /\ hurt' = IF p \in disk.shared.claude THEN hurt \cup {"reinstall"} ELSE hurt
        /\ UNCHANGED claude
  /\ UNCHANGED <<disk, codex, pending, manifest, lost>>

Installed ==
  /\ StepTo("reinstall", "installed")
  /\ reinstall = {}
  /\ UNCHANGED <<outside, run>>

-----------------------------------------------------------------------------
(* uninstallFromClients() *)

Unregister ==
  /\ StepTo("unregister", "strip")
  /\ codex' = [codex EXCEPT !.plugins = @ \ {Own}]
  /\ claude' = [claude EXCEPT !.plugins = @ \ {Own}]
  /\ UNCHANGED <<disk, run>>

Stripped(m) == IF m = NoManifest THEN m ELSE m \ {Own}

\* removeFromSharedMarketplace()
StripCodex ==
  /\ StepTo("strip", IF disk.shared.codex = NoManifest /\ disk.shared.claude = NoManifest
                     THEN "uninstalled" ELSE "strip Claude")
  /\ disk' = [disk EXCEPT !.shared.codex = Stripped(@)]
  /\ UNCHANGED <<codex, claude, run>>

StripClaude ==
  /\ StepTo("strip Claude", "remove")
  /\ disk' = [disk EXCEPT !.shared.claude = Stripped(@)]
  /\ UNCHANGED <<codex, claude, run>>

Empty(m) == Entries(m) = {}

\* The copy goes, and the root if nobody is entered in it any more, with any
\* copies that a merge has brought there and not yet entered; then the
\* registrations of a marketplace that is empty.
RemoveRoot ==
  /\ Goes("remove", "release")
  /\ manifest' = disk.shared.codex /\ pending' = disk.shared.claude
  /\ IF Empty(disk.shared.codex) /\ Empty(disk.shared.claude)
     THEN /\ disk' = [disk EXCEPT !.shared = Nowhere]
          /\ lost' = lost \cup (disk.shared.dirs \ {Own})
     ELSE /\ disk' = [disk EXCEPT !.shared.dirs = @ \ {Own}]
          /\ UNCHANGED lost
  /\ UNCHANGED <<codex, claude, reinstall, hurt>>

\* Whether or not that works.
Release ==
  /\ Goes("release", "uninstalled")
  /\ codex' \in {codex, IF "codex" \in has /\ Empty(manifest) THEN [codex EXCEPT !.root = "none"] ELSE codex}
  /\ claude' \in {claude, IF "claude" \in has /\ Empty(pending) THEN [root |-> "none", plugins |-> {}] ELSE claude}
  /\ hurt' = IF codex'.root # "none" /\ Empty(manifest) THEN hurt \cup {"release"} ELSE hurt
  /\ UNCHANGED <<disk, run, lost>>

-----------------------------------------------------------------------------
(* What goes wrong *)

Uninstalling == {"unregister", "strip", "strip Claude", "remove", "release"}

\* Mutant: Codex gets back the root it had.
Target_Older == IF disk.older.codex # NoManifest THEN {"older"} ELSE {}

\* restoreCodexMarketplace()
Target ==
  IF disk.shared.codex # NoManifest THEN {"shared"}
  ELSE IF disk.older.codex # NoManifest THEN {"older"} ELSE {}

Restored ==
  IF "codex" \in has /\ codex.root = "none" /\ Target # {}
  THEN [codex EXCEPT !.root = CHOOSE root \in Target : TRUE] ELSE codex

\* A step fails and has no effect, and Codex is restored. It is not while its
\* marketplace is detached, nor by an uninstallation.
Fails ==
  /\ at' = "failed"
  /\ codex' = IF at \in Uninstalling \cup {"detach"} THEN codex ELSE Restored

\* The installer is killed, or it fails and Codex cannot be restored.
IsKilled == at' = "off" /\ UNCHANGED codex

Ends ==
  /\ at \notin Resting
  /\ Fails \/ IsKilled
  /\ hurt' = IF at = "release" THEN hurt \cup {"release"} ELSE hurt
  /\ UNCHANGED <<disk, claude, run, has, linked, before, worked, lost, runs>>

\* The same in the middle of the removal of the older root.
EndsInDrop ==
  /\ at = "drop"
  /\ Fails \/ IsKilled
  /\ \E m \in {disk.older.codex, NoManifest}, dirs \in SUBSET disk.older.dirs :
       disk' = [disk EXCEPT !.older.codex = m, !.older.dirs = dirs]
  /\ UNCHANGED <<claude, run, history>>

Next ==
  \/ Start("detach") \/ Start("unregister")
  \/ Detach \/ Refuse \/ Migrate \/ Move \/ WriteMerged \/ DropOlder
  \/ \E p \in Siblings : RemoveOldCopy(p) \/ Import(p) \/ Reinstall(p)
  \/ RemoveCopy \/ PutCopy \/ WriteCodexManifest \/ WriteClaudeManifest
  \/ AddToCodex \/ InstallInCodex \/ ListClaude \/ AddToClaude \/ InstallInClaude \/ Installed
  \/ Unregister \/ StripCodex \/ StripClaude \/ RemoveRoot \/ Release
  \/ Ends \/ EndsInDrop

Spec == Init /\ [][Next]_vars

-----------------------------------------------------------------------------
(* Properties *)

\* The root that Codex has registered has a manifest, wherever an installation
\* fails or is killed (agent-marketplace.mjs:247). An uninstallation that ends
\* between the removal of the root and of its registration leaves one that has
\* none, until the next installation; so may what there was at first.
CodexRootIsWhole ==
  "codex" \in has /\ "release" \notin hurt /\ at # "release" => Whole(codex.root)

\* An installation that fails leaves Codex with a marketplace, if it had one
\* that it could use (agent-marketplace.mjs:51).
CodexIsRestored ==
  [][at \notin Uninstalling /\ at' = "failed" /\ "codex" \in has /\ before.usable => codex'.root # "none"]_vars

\* A link to an older root stays as it is, and has the sibling.
InLink(p) == linked /\ p \in disk.older.codex \cap disk.older.dirs

\* After an installation, wherever the ones before it ended, every sibling plugin
\* that Codex could use it can still use, in the root that is registered
\* (agent-marketplace.mjs:99), unless the older root is a link, in which it stays,
\* or an uninstallation came upon a merge that had moved its copy and not entered
\* it, and removed the root that named nobody.
CodexKeepsSiblings ==
  at = "installed" /\ "codex" \in has => \A p \in worked \ lost : Works(p) \/ InLink(p)

\* "Re-adding the shared marketplace at its new root preserves sibling bridge
\* plugins" (agent-marketplace.mjs:249): false of those in an older root that is a
\* link, and checked by no run. Codex is detached from it (:266), nothing is
\* migrated (:90), and the shared root is registered.
EverySiblingIsPreserved ==
  at = "installed" /\ "codex" \in has => \A p \in worked \ lost : Works(p)

\* An installation that has to move Claude Code's marketplace installs the
\* siblings again that the shared one has, unless that fails (agent-marketplace.mjs:213).
ClaudeKeepsSiblings ==
  at = "installed" /\ "claude" \in has /\ "reinstall" \notin hurt =>
    before.claude.plugins \cap disk.shared.claude \subseteq claude.plugins

\* Installing this plugin costs Codex no other one, but for those in a link, and
\* Claude Code none that the shared marketplace has.
SiblingsSurvive == CodexKeepsSiblings /\ ClaudeKeepsSiblings
=============================================================================
