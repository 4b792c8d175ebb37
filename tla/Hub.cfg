\* Two connections, of one file or of two; three calls for two places, so that
\* the limit is reached and several wait at once; two pages a plugin may report.
\* No symmetry: ImplementsContract and EveryCallSettles are temporal.
CONSTANTS
  Clients = {c1, c2}
  Sockets = {s1, s2}
  Requests = {r1, r2, r3}
  Pages = {p1, p2}
  MaxPending = 2
  NoClient = NoClient
  NoSocket = NoSocket
SPECIFICATION FairSpec
INVARIANTS
  NewestConnectionServes
  NobodyWaitsInVain
PROPERTIES
  ImplementsContract
  EveryCallSettles
