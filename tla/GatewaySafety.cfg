CONSTANTS
  None = None
  Accounts = {a1, a2}
  Devices = {d1, d2, d3}
  Invites = {i1}
  LinkCodes = {k1, k2}
  Sockets = {w1, w2, w3}
  Addresses = {ip1, ip2}
  Files = {f1}
  Calls = {q1}
  Signups = {"invite", "open"}
  MaxDevices = 2
  MaxLinkCodes = 1
  MaxTotal = 2
  MaxPerAddress = 1
  MaxPending = 1
SPECIFICATION Spec
SYMMETRY Alike
INVARIANTS
  JoiningIsBounded
  RemovedDevicesArePowerless
  UnauthenticatedAreCounted
PROPERTIES
  OnlyMembersChangeAnAccount
  PlacesAreKept
CHECK_DEADLOCK FALSE
