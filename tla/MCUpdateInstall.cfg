\* Three invocations of update or rollback, with failing calls and kills.
SPECIFICATION Spec
CONSTANTS
    Procs = {p1, p2, p3}
    p1 = p1
    p2 = p2
    p3 = p3
    Faults = TRUE
    MaxDepth = 3
SYMMETRY Symmetry
INVARIANTS
    TypeOK
    Recoverable
    NeverDamaged
PROPERTIES
    HonestAnswers
\* Commands end, and a lost binary cannot be started again.
CHECK_DEADLOCK FALSE
