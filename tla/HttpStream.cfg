\* Pieces of 3 bytes, chunks of 2, files of up to 5 bytes that begin anywhere in the
\* first piece and end in it or in the next two.
SPECIFICATION Spec
CONSTANTS
    PieceLength = 3
    ChunkSize = 2
    MaxOffset = 2
    MaxSize = 5
    MaxNumber = 6
INVARIANTS
    TypeOK
    RangeIsWhatWasAsked
    OnlyCompleteBytes
PROPERTY
    EveryRequestEnds
    KeepsTransfer
