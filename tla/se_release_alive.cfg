SPECIFICATION Spec
CONSTANTS
  Actions = {a1}
  Threads = {t1, t2}
  Padded = {}
  Overlapping = {"release"}
  DatabaseFails = FALSE
SYMMETRY ThreadSymmetry
INVARIANTS CodingHoldsClaim
