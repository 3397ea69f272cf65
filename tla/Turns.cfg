SPECIFICATION RuntimeSpec
CONSTANTS
    Inbound = {m1, m2}
    Commands = {c1}
    Resumes = {c1}
    Goals = {g1}
    MaxCatalog = 1
    MaxWait = 0
    Workers = {w1, w2}
    Direct = FALSE
    MaxPanel = 0
    MaxExpiries = 0
    MaxFaults = 1
SYMMETRY WorkerSymmetry
INVARIANTS
    NoLostUpdate
    NoOrphanRequest
CHECK_DEADLOCK FALSE
