\* Three runs, overlapping or not, over a little more than one interval.
SPECIFICATION Spec
CONSTANTS
    Runs = {r1, r2, r3}
    r1 = r1
    r2 = r2
    r3 = r3
    Interval = 2
    MaxClock = 5
SYMMETRY Symmetry
INVARIANTS
    TypeOK
    ChecksCovered
PROPERTIES
    Throttled
    SkipJustified
    TidyRecord
\* The runs end.
CHECK_DEADLOCK FALSE
