SPECIFICATION FairSpec
CONSTANTS
  Actions = {a1}
  Threads = {t1, t2}
  Padded = {}
  Overlapping = {}
  DatabaseFails = FALSE
INVARIANTS ObjectiveScrubbed ClaimIsReconcilable MemoryAgreesWithRow RetriableIsExecutable
PROPERTIES ApprovedRunSettles
