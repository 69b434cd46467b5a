\* Two automatically named jobs find the same name free before either creates it.
SPECIFICATION Spec
CONSTANTS
    NJobs = 2
    MaxWorkers = 2
    HardwareThreads = 1
    Bases = {"a"}
    MaxCollision = 1
    Stdins = {"none"}
PROPERTIES
    AutoNamesFresh
