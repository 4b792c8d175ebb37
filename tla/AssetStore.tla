------------------------------ MODULE AssetStore ------------------------------
(***************************************************************************)
(* relay/src/assets.mjs: createAssetStore(), the downloads of handoffs in  *)
(* the relay's memory. A session is known by its token; the handoff that   *)
(* opened it keeps writing to it even when it is no longer listed. Sizes   *)
(* are in units of one asset, and a manifest is as large.                  *)
(***************************************************************************)
EXTENDS Naturals, FiniteSets, Functions

CONSTANTS
  Tokens,       \* session tokens
  TTL,          \* ttlMs
  MaxBytes, MaxBytesPerAccount, MaxSessionsPerAccount

VARIABLES
  now,
  sessions,     \* every session that was opened, by its token
  listed        \* the tokens in the sessions map

\* files holds what each file name serves. The name of the manifest is reserved
\* and filled in one step, and so never seen empty.
Session(a) == [account |-> a, expires |-> now + TTL, bytes |-> 0, files |-> <<>>]

\* What prune() leaves listed.
Unexpired == {t \in listed : sessions[t].expires > now}

ListedOf(a) == {t \in listed : sessions[t].account = a}

\* usage(): of an account, and of all.
Bytes(tokens) == SumFunction([t \in tokens |-> sessions[t].bytes])

MayOpen(a) == Cardinality(Unexpired \cap ListedOf(a)) < MaxSessionsPerAccount

\* Mutant: the limit of the account is not asked.
Fits_Global(a, size) == Bytes(listed) + size <= MaxBytes

Fits(a, size) ==
  /\ Bytes(listed) + size <= MaxBytes
  /\ Bytes(ListedOf(a)) + size <= MaxBytesPerAccount

\* Mutant: a name that is taken is used again.
FileName_Taken(t, name) == <<name, 1>>

\* name, name-2, name-3: the first that is free.
FileName(t, name) ==
  <<name, CHOOSE i \in 1 .. Cardinality(DOMAIN sessions[t].files) + 1 :
            /\ <<name, i>> \notin DOMAIN sessions[t].files
            /\ \A j \in 1 .. i - 1 : <<name, j>> \in DOMAIN sessions[t].files>>

\* map.set()
Put(f, k, v) == [x \in DOMAIN f \cup {k} |-> IF x = k THEN v ELSE f[x]]

\* A file is put into a session, and the session counts its bytes.
Store(t, file, content, size) ==
  sessions' = [sessions EXCEPT ![t].files = Put(@, file, content), ![t].bytes = @ + size]

\* open(): it prunes first, and then may still refuse.
Open(t, a) ==
  /\ t \notin DOMAIN sessions
  /\ MayOpen(a)
  /\ sessions' = Put(sessions, t, Session(a))
  /\ listed' = Unexpired \cup {t}

\* save(): it throws when the asset does not fit.
Save(t, name, asset) ==
  /\ Fits(sessions[t].account, 1)
  /\ Store(t, FileName(t, name), asset, 1)
  /\ UNCHANGED listed

\* saveManifest(): the name is reserved with an empty file, which may throw; the
\* manifest that replaces it is added whatever its size.
SaveManifest(t, manifest) ==
  /\ Fits(sessions[t].account, 0)
  /\ Store(t, FileName(t, "handoff.json"), manifest, 1)
  /\ UNCHANGED listed

\* handle(): what a download link serves, <<>> when it is 404.
Served(t, file) ==
  IF t \in listed /\ sessions[t].expires > now /\ file \in DOMAIN sessions[t].files
  THEN sessions[t].files[file] ELSE <<>>

\* The interval that prunes once a minute.
Prune ==
  /\ listed' = Unexpired
  /\ UNCHANGED <<now, sessions>>
=============================================================================
