SPECIFICATION FairSpec
CONSTANTS
  Requests = {r1, r2}
  Sessions = {s1, s2}
  MaxSize = 2
  Adapters = {"express", "fastify", "fetch", "hono", "withSessionScope", "direct"}
  Policies = {"commitOnSuccess", "abortOnExit", "manual"}
  Providers = {"pool", "own"}
  Faults = {"acquire", "commit", "abort", "logout"}
  None = None
INVARIANTS FailedStaysOut SuccessMeansCommitted
PROPERTIES CommittedByItsOwn LeasesUsedAsPromised SessionReturned
CHECK_DEADLOCK FALSE
