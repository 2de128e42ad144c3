SPECIFICATION Spec
CONSTANTS
  Threads = {t1, t2}
  Overlapping = {}
  Outliving = {"add", "push", "remove", "delete"}
  Closing = TRUE
  MaxBase = 2
SYMMETRY ThreadSymmetry
INVARIANTS OnePullRequest CommitsSurviveDiscard
