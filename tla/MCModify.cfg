\* Three invocations that edit one torrent, overlapping, failing or killed.
SPECIFICATION Spec
CONSTANTS
    Procs = {p1, p2, p3}
    p1 = p1
    p2 = p2
    p3 = p3
SYMMETRY Symmetry
INVARIANTS
    TypeOK
    AlwaysWhole
    EditsKept
PROPERTIES
    Implements
\* The commands end.
CHECK_DEADLOCK FALSE
