\* Two HTTP threads with one read each, the alert thread and one cancel().
CONSTANTS
  Readers = {r1, r2}
  Cancellers = {c1}
  NumPieces = 2
  MaxReads = 1
SPECIFICATION Spec
INVARIANTS TypeOK DataOnlyWhenComplete TimeoutIsHonest
PROPERTIES EveryReadReturns KeepsPromise
