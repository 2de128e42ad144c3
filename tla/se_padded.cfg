SPECIFICATION Spec
CONSTANTS
  Actions = {a1}
  Threads = {t1, t2}
  Padded = {a1}
  Overlapping = {}
  DatabaseFails = FALSE
SYMMETRY ThreadSymmetry
INVARIANTS ClaimMatchesQueue
