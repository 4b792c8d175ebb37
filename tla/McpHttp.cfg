\* Four POSTs of two accounts: as many as it takes to exceed a limit of one
\* event twice over. Two of the four keys of the limiter fit its table. Every
\* limit of the downloads is within reach of two handoffs of two assets.
CONSTANTS
  p1 = p1
  p2 = p2
  p3 = p3
  p4 = p4
  Posts = {p1, p2, p3, p4}
  Grants = {"g1", "g2", "g3"}
  Accounts = {"a1", "a2"}
  GrantOf <- ThreeGrants
  AccountOf <- TwoAccounts
  LimitOf <- Once
  Window = 2
  MaxKeys = 2
  MaxInFlight = 1
  MaxHandoff = 2
  Names = {"handoff.json"}
  MaxAssets = 2
  MaxMessages = 2
  MaxTime = 4
  Tokens = {t1, t2, t3}
  TTL = 2
  MaxBytes = 3
  MaxBytesPerAccount = 2
  MaxSessionsPerAccount = 2
SPECIFICATION Spec
SYMMETRY Alike
INVARIANTS
  InFlightIsExact
  StorageIsBounded
  LinksServeTheirAsset
  FloodsResetNoCounter
CHECK_DEADLOCK FALSE
