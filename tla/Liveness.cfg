SPECIFICATION FairSpec
CONSTANTS
    Inbound = {m1}
    Commands = {}
    Resumes = {}
    Goals = {}
    MaxCatalog = 2
    MaxWait = 0
    Workers = {w1, w2}
    Direct = TRUE
    MaxPanel = 1
    MaxExpiries = 0
    MaxFaults = 1
PROPERTIES
    ReceivedIsCommitted
    QueuedReplySettles
CHECK_DEADLOCK FALSE
