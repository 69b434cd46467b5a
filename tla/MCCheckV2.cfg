CONSTANTS
    Allowed = {1, 2, 4, 8}
    Unit = 2
    MaxPieces = 4
    HashSize = 10
    BlockSize = 2
    Unset = Unset
    None = None
    a = "a"
    b = "b"
    c = "c"
    bad = "bad"
    DomainOf <- MCDomainOf
    DefaultTrackers <- MCDefaultTrackers
    Jobs <- MCJobs
    Commands <- MCCommands
    Answers <- MCAnswers
    MaxUrls = 4
    Sampled = 2
    MaxSpan = 8
    MaxEpisode = 9
    Creates <- MCCreates
    Torrents <- MCTorrents
    Edits <- MCEdits
    Tried <- MCTried
    MaxName = 32
    Overhead = 6
    MaxNumber = 1000
    Unnamed <- MCUnnamed
    Lower <- MCLower
    builtin_exclude_patterns <- MCBuiltin
    Directories <- MCDirectories
    Checks <- MCChecks
    Seasons <- MCSeasons
SPECIFICATION Spec
INVARIANT IntactPasses
CHECK_DEADLOCK FALSE
