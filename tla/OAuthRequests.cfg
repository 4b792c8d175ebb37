\* Two devices that look up, decide, and remove each other and themselves; three
\* requests, two of them from the same address, on the limits; two clients on
\* theirs.
CONSTANTS
  d1 = d1
  d2 = d2
  d3 = d3
  a1 = a1
  a2 = a2
  r1 = r1
  r2 = r2
  r3 = r3
  ip1 = ip1
  ip2 = ip2
  Clients = {c1, c2}
  Requests = {r1, r2, r3}
  Grants = {g1}
  Devices = {d1, d2}
  Accounts = {a1, a2}
  AccountOf <- TwoAccounts
  Addresses = {ip1, ip2}
  AddressOf <- TwoAddresses
  NoDevice = NoDevice
  MaxClients = 1
  MaxPending = 2
  MaxPendingPerAddress = 1
  RequestTTL = 1
  CodeTTL = 1
  AccessTTL = 1
  RefreshTTL = 4
  MaxLifetime = 4
  ReuseGrace = 1
  PruneSlack = 1
  UsedRetention = 2
  RevokedRetention = 2
  ClientRetention = 1
  MaxTime = 4
  MaxPairs = 1
SPECIFICATION Spec
SYMMETRY Alike
INVARIANTS
  DecidedByTheLastToLook
  LateGrantsAreBounded
CHECK_DEADLOCK FALSE
