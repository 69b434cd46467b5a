\* Two threads, each with a block of more than one buffer and of several pieces.
SPECIFICATION FairSpec
CONSTANTS
    NumThreads = 2
    FileSize = 10
    PieceSize = 2
    BufferSize = 4
PROPERTY QuitHeeded
CHECK_DEADLOCK FALSE
