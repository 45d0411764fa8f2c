SPECIFICATION Spec
CONSTANTS
  Runners = {r1, r2, r3}
  LastStep = 2
  Depends <- AfterTheFirst
  Owners = {o1, o2}
  Locking = {TRUE, FALSE}
  LocksExpire = FALSE
  Forcing = FALSE
  Faults = {"callback", "commit", "crash"}
  None = None
INVARIANTS TableMatchesData LocksComeBack
PROPERTIES OneStepAtATime
SYMMETRY Symmetry
CHECK_DEADLOCK FALSE
