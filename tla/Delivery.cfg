SPECIFICATION RuntimeSpec
CONSTANTS
    Inbound = {m1}
    Commands = {c1}
    Resumes = {c1}
    Goals = {}
    MaxCatalog = 1
    MaxWait = 1
    Workers = {w1, w2}
    Direct = TRUE
    MaxPanel = 1
    MaxExpiries = 1
    MaxFaults = 0
SYMMETRY WorkerSymmetry
INVARIANTS
    AttemptsCoverSends
    SentReachedPhone
    HandoffStaysWithTeam
    WaitingCitizenIsAsked
PROPERTIES
    NoOvertakenClaim
    ResumeSeesCurrentControl
    ImplementsLog
CHECK_DEADLOCK FALSE
