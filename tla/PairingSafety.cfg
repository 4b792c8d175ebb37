\* Three connections, and a window that closes and opens again. No symmetry:
\* ConnectionsAreDecided is temporal.
CONSTANTS
  MinInterval = 1
  Window = 2
  MaxPerWindow = 2
  Sockets = {s1, s2, s3}
  MaxClock = 3
SPECIFICATION FairSpec
INVARIANTS
  PairingIsSerialized
  PromptsAreRateLimited
PROPERTIES
  ConnectionsAreDecided
CHECK_DEADLOCK FALSE
