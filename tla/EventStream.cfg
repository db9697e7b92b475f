\* Four frames, any of them wanted, through a channel of two.
SPECIFICATION FairStreamSpec
CONSTANTS
    MaxFrames = 4
    BufferSize = 2
CHECK_DEADLOCK FALSE
INVARIANTS
    NothingLost
    EndIsTold
PROPERTIES
    ReaderEnds
    CloseReleasesRecv
