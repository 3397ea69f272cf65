SPECIFICATION Spec
CONSTANTS
    GoalDef <- MCGoalDef
    FactDef <- MCFactDef
    Relations <- MCRelations
    Resolution <- MCResolution
    Complaint = "RECLAMACAO"
    React <- ApplyEvent
    Servers = {s1}
    Messages <- MCInterrupted
    Openings = {"described"}
    MaxSeq = 4
    MaxRollback = 0
INVARIANT HashesAgree
CHECK_DEADLOCK FALSE
