\* Two rollbacks at once, no failing call and nobody killed.
SPECIFICATION Spec
CONSTANTS
    Procs = {p1, p2}
    p1 = p1
    p2 = p2
    Faults = FALSE
    MaxDepth = 3
INVARIANTS
    ProgramLeft
CHECK_DEADLOCK FALSE
