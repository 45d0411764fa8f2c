SPECIFICATION DebugSpec
CONSTANTS
  r1 = r1
  r2 = r2
  r3 = r3
  Requests = {r1, r2, r3}
  MayAsk <- MCMayAsk
  Adapters = {a1}
  None = None
  Shutdown = Shutdown
INVARIANTS
  SessionsAreClosedOnce
  AnswersTellWhatWasCommitted
  EndsWithItsSession
PROPERTIES
  ShutdownEnds
CHECK_DEADLOCK FALSE
