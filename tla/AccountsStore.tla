---------------------------- MODULE AccountsStore ----------------------------
(***************************************************************************)
(* relay/src/accounts-store.mjs: anonymous accounts, the devices (plugin   *)
(* installations) that belong to them, the invites that create them and    *)
(* the link codes with which a device lets another one join.               *)
(*                                                                         *)
(* The tables outlive the relay's process. Each operation is a synchronous *)
(* transaction; here it is an action on the tables only, which             *)
(* RelayGateway puts into the handlers that call it. There is no clock: a  *)
(* code that is live may expire at any moment, and a row that pruning      *)
(* deletes is one that was no longer live. Random ids and codes are model  *)
(* values drawn once; secrets are known to whoever needs them.             *)
(***************************************************************************)
EXTENDS Naturals, FiniteSets

CONSTANTS
  Accounts, Devices, Invites, LinkCodes,
  None,          \* no row, no value
  MaxDevices,    \* MAX_DEVICES_PER_ACCOUNT
  MaxLinkCodes   \* MAX_ACTIVE_LINK_CODES

ASSUME AccountsAssumption ==
  /\ None \notin Accounts \cup Devices \cup Invites \cup LinkCodes
  /\ Invites \cap LinkCodes = {}
  /\ {MaxDevices, MaxLinkCodes} \subseteq Nat \ {0}
  /\ IsFiniteSet(Devices) /\ IsFiniteSet(LinkCodes)

VARIABLES
  accountOf,  \* relay_devices.account_id, None while there is no row
  revoked,    \* the devices with revoked_at set
  invites,    \* relay_invites
  links,      \* relay_link_codes
  joinedWith  \* history: the code a device was registered with

store == <<accountOf, revoked, invites, links, joinedWith>>

CodeStates == {"undrawn", "live", "expired", "used", "deleted"}

LinkRows == [state : CodeStates, by : Devices \cup {None}]

InitStore ==
  /\ accountOf = [d \in Devices |-> None]
  /\ revoked = {}
  /\ invites = [i \in Invites |-> "undrawn"]
  /\ links = [k \in LinkCodes |-> [state |-> "undrawn", by |-> None]]
  /\ joinedWith = [d \in Devices |-> None]

\* isDeviceActive()
Active(d) == accountOf[d] # None /\ d \notin revoked

ActiveDevices(a) == {d \in Devices : accountOf[d] = a /\ Active(d)}

\* A link code's row names the account of the device that made it.
AccountOfLink(k) == accountOf[links[k].by]

LiveLinks(a) == {k \in LinkCodes : links[k].state = "live" /\ AccountOfLink(k) = a}

-----------------------------------------------------------------------------

NewDevice(d, a, code) ==
  /\ accountOf[d] = None
  /\ accountOf' = [accountOf EXCEPT ![d] = a]
  /\ joinedWith' = [joinedWith EXCEPT ![d] = code]
  /\ UNCHANGED revoked

\* Rows that pruneLinkCodes may delete: they expired long ago, used or not.
Prunable == {k \in LinkCodes : links[k].state \in {"expired", "used"}}

DeletedRow == [state |-> "deleted", by |-> None]

PruneLinks(rows, table) == [k \in LinkCodes |-> IF k \in rows THEN DeletedRow ELSE table[k]]

\* Mutant: the limit is left to the creation of codes.
MayJoin_Always(a) == TRUE

MayJoin(a) == Cardinality(ActiveDevices(a)) < MaxDevices

UseLink(k) == [links EXCEPT ![k].state = "used"]

\* register() with a link code: the device joins the code's account. A refusal
\* rolls back the pruning as well.
JoinWithLink(d, k) ==
  /\ links[k].state = "live"
  /\ MayJoin(AccountOfLink(k))
  /\ NewDevice(d, AccountOfLink(k), k)
  /\ \E rows \in SUBSET Prunable : links' = PruneLinks(rows, UseLink(k))
  /\ UNCHANGED invites

\* register() that creates an account. A link code that is not live any more
\* gets here too, with open signup.
FoundAccount(d, a, code) ==
  /\ \A e \in Devices : accountOf[e] # a
  /\ NewDevice(d, a, code)
  /\ \E rows \in SUBSET Prunable : links' = PruneLinks(rows, links)

JoinWithInvite(d, a, i) ==
  /\ invites[i] = "live"
  /\ invites' = [invites EXCEPT ![i] = "used"]
  /\ FoundAccount(d, a, i)

JoinOpenly(d, a) ==
  /\ UNCHANGED invites
  /\ FoundAccount(d, a, None)

MayLink(a) == Cardinality(LiveLinks(a)) < MaxLinkCodes

\* createLinkCode(), for the device d of the caller.
CreateLinkCode(d, k) ==
  /\ links[k].state = "undrawn"
  /\ MayLink(accountOf[d])
  /\ links' = [links EXCEPT ![k] = [state |-> "live", by |-> d]]
  /\ UNCHANGED <<accountOf, revoked, invites, joinedWith>>

DropLinks(d) ==
  [k \in LinkCodes |-> IF links[k].by = d THEN DeletedRow ELSE links[k]]

\* Mutant: a device of any account is removed.
Removable_Anyones(a, d) == Active(d)

\* The row that revokeDevice() updates.
Removable(a, d) == accountOf[d] = a /\ Active(d)

\* revokeDevice(), when it finds the device in the caller's account.
RemoveDevice(d) ==
  /\ revoked' = revoked \cup {d}
  /\ links' = DropLinks(d)
  /\ UNCHANGED <<accountOf, invites, joinedWith>>

-----------------------------------------------------------------------------
(* What happens to the tables without the gateway *)

\* createInvite(), from the command line.
CreateInvite(i) ==
  /\ invites[i] = "undrawn"
  /\ invites' = [invites EXCEPT ![i] = "live"]
  /\ UNCHANGED <<accountOf, revoked, links, joinedWith>>

ExpireInvite(i) ==
  /\ invites[i] = "live"
  /\ invites' = [invites EXCEPT ![i] = "expired"]
  /\ UNCHANGED <<accountOf, revoked, links, joinedWith>>

ExpireLink(k) ==
  /\ links[k].state = "live"
  /\ links' = [links EXCEPT ![k].state = "expired"]
  /\ UNCHANGED <<accountOf, revoked, invites, joinedWith>>

\* prune(), every ten minutes. Used invites are kept.
Prune ==
  /\ \E rows \in SUBSET Prunable : links' = PruneLinks(rows, links)
  /\ invites' = [i \in Invites |-> IF invites[i] = "expired" THEN "deleted" ELSE invites[i]]
  /\ UNCHANGED <<accountOf, revoked, joinedWith>>

StoreAlone ==
  \/ \E i \in Invites : CreateInvite(i) \/ ExpireInvite(i)
  \/ \E k \in LinkCodes : ExpireLink(k)
  \/ Prune
=============================================================================
