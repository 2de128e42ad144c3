SPECIFICATION Spec
CONSTANTS
  Actions = {a1}
  Threads = {t1, t2}
  Padded = {}
  Overlapping = {"approve", "reject"}
  DatabaseFails = FALSE
SYMMETRY ThreadSymmetry
PROPERTIES RejectionIsFinal
