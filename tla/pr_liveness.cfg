SPECIFICATION FairSpec
CONSTANTS
  Threads = {t1, t2}
  Overlapping = {}
  Outliving = {"add", "commit", "push", "create", "remove", "delete"}
  Closing = FALSE
  MaxBase = 0
PROPERTIES PromotionCompletes
