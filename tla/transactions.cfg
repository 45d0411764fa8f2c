SPECIFICATION MCSpec
CONSTANTS
  Clients = {c1, c2, c3}
  k1 = k1
  k2 = k2
  Keys = {k1, k2}
  Jobs <- MixedJobs
  Attempts = 2
  Faults = {"work", "abort", "stale", "read", "connect", "write", "commit", "listener"}
  Reports = {"numbered", "unnumbered", "plain"}
  None = None
  StoreKeys = {"x", "y"}
  StoreValues = {"1", "2"}
  NoEntry = NoEntry
INVARIANTS SessionLeftClean BeatenByOthers
PROPERTIES UpdatesAreSerial BuffersKeepPromises
SYMMETRY Symmetry
CHECK_DEADLOCK FALSE
