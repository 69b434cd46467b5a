\* Three jobs on one or two workers; outputs collide on one base name.
SPECIFICATION FairSpec
CONSTANTS
    NJobs = 3
    MaxWorkers = 2
    HardwareThreads = 1
    Bases = {"a"}
    MaxCollision = 1
    Stdins = {"none", "pipe", "cooked"}
INVARIANTS
    TypeOK
    ClaimedOnce
    DistinctOutputsIntact
    TerminalRestoredSerial
PROPERTIES
    Implements
    AnsweredWhenReadsReturn
