\* A guard that is destroyed while another job hashes makes that job's look for a
\* key wait for one.
SPECIFICATION FairSpec
CONSTANTS
    NJobs = 2
    MaxWorkers = 2
    HardwareThreads = 1
    Bases = {"a"}
    MaxCollision = 1
    Stdins = {"cooked"}
PROPERTIES
    EveryJobAnswered
