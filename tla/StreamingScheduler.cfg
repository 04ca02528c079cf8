CONSTANTS
  NumPieces = 5
  PieceLength = 2
  LastPieceLength = 1
  FirstPiece = 1
  EndPiece = 5
  FileOffset = 1
  HotWindow = 1
  Lookahead = 1
  SeekBoost = 1
  DeadlineBudget = 2
  MinContiguous = 2
  StallThreshold = 1
SPECIFICATION Spec
INVARIANTS TypeOK HotWindowRequested ActiveNeverOvercounts
PROPERTIES SeekDropsOldDeadlines SettlesInStreamingFirst
