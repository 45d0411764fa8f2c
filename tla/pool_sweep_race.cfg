SPECIFICATION Spec
CONSTANTS
  Callers = {c1, c2, c3}
  Sessions = {s1, s2, s3}
  MaxSize = 2
  MinSize = 0
  MaxUses = 0
  WarmCount = 0
  Timers = {"idle"}
  Options = {"clean"}
  Faults = {}
  MaxOrphans = 0
  None = None
  Expired = Expired
SYMMETRY Symmetry
PROPERTIES
  AbortedBeforeReuse
