\* Every session has a native library of its own, and two flows share a
\* proxy of two properties.
SPECIFICATION MCSpec
CONSTANTS
  s1 = s1 s2 = s2 h1 = h1 h2 = h2 h3 = h3 o1 = o1
  Sessions = {s1, s2}
  Handles = {h1, h2, h3}
  Oops = {o1}
  SessionOf <- TwoOnOne
  OopOf <- OneObject
  Shared = FALSE
  Faults = {"login", "add", "remove", "logout"}
  QueueBound = 3
  None = None
  Flows = {f1, f2}
  Properties = {p1, p2}
  Setups <- AllSetups
  MappingFaults = {"write", "read"}
  MaxWrites = 3
  NoProperty = NoProperty
INVARIANTS
  RightSession Protected NothingLeaks WritesConverge
PROPERTIES
  FailuresAreTold ReadsAreRegular OwnWritesAreRead
SYMMETRY Symmetry
CHECK_DEADLOCK FALSE
