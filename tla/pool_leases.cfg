SPECIFICATION Spec
CONSTANTS
  Callers = {c1, c2, c3, c4}
  Sessions = {s1, s2, s3, s4}
  MaxSize = 2
  MinSize = 0
  MaxUses = 2
  WarmCount = 1
  Timers = {"age", "acquire"}
  Options = {"discard", "clean", "reset"}
  Faults = {"connect", "reset", "validate", "logout"}
  MaxOrphans = 1
  None = None
  Expired = Expired
SYMMETRY Symmetry
INVARIANTS
  EverySessionCounted
PROPERTIES
  GrantsAreFit
  LeasesAsPromised
  NoStrandedWaiter
  NoOvertaking
