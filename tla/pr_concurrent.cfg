SPECIFICATION Spec
CONSTANTS
  Threads = {t1, t2}
  Overlapping = {"keep", "discard", "promote"}
  Outliving = {"add", "commit", "push", "create", "remove", "delete"}
  Closing = TRUE
  MaxBase = 1
SYMMETRY ThreadSymmetry
INVARIANTS PromotionDiscipline OneCommit OnlyKeptIsPublished RecordedIsPublished
PROPERTIES PromotionIsFinal
