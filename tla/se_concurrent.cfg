SPECIFICATION Spec
CONSTANTS
  Actions = {a1}
  Threads = {t1, t2}
  Padded = {}
  Overlapping = {"approve", "reject", "execute", "abandon", "keep", "discard"}
  DatabaseFails = TRUE
SYMMETRY ThreadSymmetry
INVARIANTS ClaimDiscipline NoRunWithoutApproval AtMostOneCodingRun CodingHoldsClaim SideEffectsAreMarked
PROPERTIES ResultWrittenOnce ImplementsLedger
