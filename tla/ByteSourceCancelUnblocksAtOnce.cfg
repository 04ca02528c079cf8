CONSTANTS
  Readers = {r1}
  Cancellers = {c1}
  NumPieces = 2
  MaxReads = 1
SPECIFICATION Spec
INVARIANT CancelUnblocksAtOnce
