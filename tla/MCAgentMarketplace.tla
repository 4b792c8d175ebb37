-------------------------- MODULE MCAgentMarketplace --------------------------
(* What an installer may find, with two siblings. *)
EXTENDS AgentMarketplace

CONSTANTS s1, s2

Root(codexManifest, claudeManifest, dirs) ==
  [made |-> TRUE, codex |-> codexManifest, claude |-> claudeManifest, dirs |-> dirs]

At(root, plugins) == [root |-> root, plugins |-> plugins]

\* Nothing; an older root alone; a shared root alone; an older root that was
\* written again after it had moved, with a newer s1, with s2, or with both.
Directories ==
  {[shared |-> Nowhere, older |-> Nowhere, codex |-> At("none", {})],
   [shared |-> Nowhere, older |-> Nowhere, codex |-> At("elsewhere", {s1})],
   [shared |-> Root({s1}, {s1}, {s1}), older |-> Nowhere, codex |-> At("gone", {s1})],
   [shared |-> Nowhere, older |-> Root(NoManifest, NoManifest, {s1}), codex |-> At("older", {s1})],
   [shared |-> Nowhere, older |-> Root({Own, s1, s2}, NoManifest, {Own, s1, s2}), codex |-> At("older", {Own, s1, s2})],
   [shared |-> Root({s1, s2}, {s1, s2}, {s1, s2}), older |-> Nowhere, codex |-> At("shared", {s1, s2})],
   [shared |-> Root(NoManifest, {s1}, {s1}), older |-> Root({s2}, NoManifest, {s2}), codex |-> At("older", {s2})],
   [shared |-> Root({Own, s1}, {Own, s1}, {Own, s1}), older |-> Root({Own, s1, s2}, NoManifest, {Own, s1, s2}),
    codex |-> At("older", {Own, s1, s2})],
   [shared |-> Root({Own, s1}, {Own}, {Own, s1}), older |-> Root({s2}, NoManifest, {s2}),
    codex |-> At("shared", {Own, s1})],
   [shared |-> Root({Own}, {Own}, {Own}), older |-> Root({Own, s1}, NoManifest, {Own, s1}),
    codex |-> At("older", {Own, s1})]}

Claudes == {At("none", {}), At("shared", {s1}), At("elsewhere", {s1, s2})}

Combinations ==
  {[has |-> h, shared |-> d.shared, older |-> d.older, linked |-> l,
    codex |-> IF "codex" \in h THEN d.codex ELSE At("none", {}),
    claude |-> IF "claude" \in h THEN c ELSE At("none", {})] :
     h \in {{"codex"}, {"claude"}, {"codex", "claude"}}, d \in Directories, c \in Claudes, l \in BOOLEAN}

\* Any older root may be a link.
AllMachines ==
  {m \in Combinations : (m.claude.root = "shared" => m.shared.made) /\ (m.linked => m.older.made)}
=============================================================================
