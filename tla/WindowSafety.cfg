\* Two sockets: the current one, and one that it replaced and that lingers.
CONSTANTS
  None = None
  Attempts = {w1, w2}
SPECIFICATION Spec
SYMMETRY Alike
INVARIANTS
  NothingOutlivesItsConnection
  ConnectedIsProven
  CodeGoesToItsAttempt
  IdleForAReason
