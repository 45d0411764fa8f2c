SPECIFICATION MCSpec
CONSTANTS
  c1 = c1
  c2 = c2
  c3 = c3
  Commands = {c1, c2, c3}
  MayRun <- MCMayRun
  Processes = {p1, p2}
  NoOne = NoOne
  u1 = u1
  u2 = u2
  Users = {u1, u2}
  DictionariesOf <- MCDictionariesOf
  Filters = {"", "f"}
  MaxLoads = 2
  Nobody = Nobody
  Dictionaries = {"d1", "d2"}
  Classes = {"A", "B"}
  Categories = {"g"}
  Selectors = {"m"}
  MaxFlows = 1
  Nothing = Nothing
  MaxRuns = 2
  Stacks <- MCStacks
  NoFrame = NoFrame
  Windows = {"inspect", "globals", "preview"}
  Hidden = {"preview"}
  DefaultVisible = {"inspect", "globals"}
  Foremost = "inspect"
  MaxZ = 24
INVARIANTS
  StartsAreRight
  PanesShowNewest
  WindowsBelongTogether
PROPERTIES
  EditsAreNotLost
  CommandsEnd
CHECK_DEADLOCK FALSE
