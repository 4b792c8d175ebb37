\* Two companions one after another or at once, the command that prints the
\* token, two calls, a request that is delivered again after its nonce expired.
CONSTANTS
  Companions = {c1, c2}
  Tools = {t1}
  Calls = {k1, k2}
  MaxAttempts = 2
  Skew = 1
  MaxNonces = 2
  Ahead = 1
  MaxReplays = 1
  MaxTime = 2
SPECIFICATION Spec
SYMMETRY Interchangeable
INVARIANTS
  CalledAtMostOnce
  EndpointStaysWithItsOwner
  StateIsShared
  ReplaysAreRefused
CHECK_DEADLOCK FALSE
