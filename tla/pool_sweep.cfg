SPECIFICATION Spec
CONSTANTS
  Callers = {c1, c2, c3}
  Sessions = {s1, s2, s3}
  MaxSize = 1
  MinSize = 0
  MaxUses = 0
  WarmCount = 1
  Timers = {"idle", "acquire"}
  Options = {"clean", "discard"}
  Faults = {"connect"}
  MaxOrphans = 0
  None = None
  Expired = Expired
SYMMETRY Symmetry
INVARIANTS
  EveryWaiterTracked
