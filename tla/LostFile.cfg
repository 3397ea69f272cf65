SPECIFICATION Spec
CONSTANTS
    Inbound = {m1}
    Posts = {p1, p2}
    NoDocument = none
SYMMETRY Symmetry
INVARIANTS
    PreservedIsKept
CHECK_DEADLOCK FALSE
