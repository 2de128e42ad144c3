CONSTANTS
  Events = {e1}
  Threads = {t1, t2}
  Workers = {w1}
  MaxActions = 2
  Batch = 2
  MaxTransientRetries = 2
SPECIFICATION FairSpec
INVARIANTS TypeOK NoActionLost PermissionFirst RetriesBounded PlannedOnce InboxAgrees
PROPERTY ApprovedActionSettles
CHECK_DEADLOCK FALSE
