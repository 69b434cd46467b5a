\* Files of up to two buffers and a half; pieces of half a buffer, one, and two.
SPECIFICATION CreateSpec
CONSTANTS
    BufferSize = 4
    PieceSizes = {2, 4, 8}
    MaxSize = 10
    Limit = 1
    MaxElapsed = 2
    MaxKeys = 2
INVARIANTS
    TypeOK
    HashesRight
    QuitHeeded
    OutputKept
    SuccessWhole
PROPERTIES
    Ends
\* The run ends, or waits for a pipe.
CHECK_DEADLOCK FALSE
