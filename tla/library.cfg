SPECIFICATION MCSpec
CONSTANTS
  f1 = f1
  f2 = f2
  f3 = f3
  a1 = a1
  a2 = a2
  a3 = a3
  Flows = {f1, f2}
  MayCall <- MCMayCall
  Keys = {"k1", "k2"}
  KeyLists <- MCKeyLists
  Limits = {1}
  KeyedFaults = {"call", "root"}
  Absent = Absent
  Nil = Nil
  Users = {f1, f2, f3}
  MayUse <- MCMayUse
  Positions <- MCPositions
  MaxItems = 2
  Items = {"a", "b", "c", "d", "e", "f", "g", "h"}
  Starts <- MCStarts
  Brings <- MCBrings
  OrderedFaults = {"call"}
  Null = Nil
  Priorities = {1, 2}
  Limitless = Limitless
  MaxRead = {0, 1, 2}
  MaxLog = 4
  Every = Every
  TooMany = TooMany
  Arrays = {a1, a2, a3}
  Heaps <- MCHeaps
  Scalars = {"s"}
  Bounds <- MCBounds
  MaxPuts = 1
  ReadFaults = {"lookup", "call"}
  Denied = Denied
  Oops = 4096
  SafeInteger = 63
  MaxCodePoint = 15
  There = {1025}
  Written <- MCWritten
  ValueFaults = {"float", "class", "symbol", "bytes"}
  MaxObjects = 2
  Queriers = {f1, f2}
  Queries <- MCQueries
  Members = {"a", "b", "c"}
  Collections <- MCCollections
  ValueLists <- MCValueLists
  Chunks = {1, 2}
  QueryFaults = {"call"}
  Clis = {c1}
  Paths = {"a", "b", "out/a"}
  InsideOf <- MCInsideOf
  Metas = {"m1", "m2"}
  NoFile = NoFile
  Broken = Broken
  NoPath = NoPath
  Drops <- MCDrops
  MaxCommands = 3
  Runs = {f1, f2}
  BootFaults = {"connect", "eval", "commit", "abort", "logout"}
INVARIANTS
  AloneIsAtomic
  AnswersAreTrue
  ReadsAreAsMeant
  ComputesAsMeant
  NothingIsLost
PROPERTIES
  OnlyTheMeantGoes
CHECK_DEADLOCK FALSE
