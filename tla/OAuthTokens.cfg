\* One approval and a clock long enough for it to be renewed, reused, revoked
\* and pruned; a second client triggers the pruning.
CONSTANTS
  d1 = d1
  d2 = d2
  d3 = d3
  a1 = a1
  a2 = a2
  r1 = r1
  r2 = r2
  r3 = r3
  ip1 = ip1
  ip2 = ip2
  Clients = {c1, c2}
  Requests = {r1}
  Grants = {g1, g2}
  Devices = {d1}
  Accounts = {a1, a2}
  AccountOf <- TwoAccounts
  Addresses = {ip1, ip2}
  AddressOf <- TwoAddresses
  NoDevice = NoDevice
  MaxClients = 2
  MaxPending = 1
  MaxPendingPerAddress = 1
  RequestTTL = 2
  CodeTTL = 2
  AccessTTL = 1
  RefreshTTL = 4
  MaxLifetime = 4
  ReuseGrace = 1
  PruneSlack = 2
  UsedRetention = 2
  RevokedRetention = 2
  ClientRetention = 1
  MaxTime = 9
  MaxPairs = 3
SPECIFICATION Spec
INVARIANTS
  OneLinePerApproval
  AccessIsAccountedFor
PROPERTIES
  RevocationIsFinal
  PruningIsHarmless
CHECK_DEADLOCK FALSE
