SPECIFICATION Spec
CONSTANTS
    GoalDef <- MCGoalDef
    FactDef <- MCFactDef
    Relations <- MCRelations
    Resolution <- MCResolution
    Complaint = "RECLAMACAO"
    React <- ApplyEvent
    Servers = {s1}
    Messages <- MCDisputed
    Openings = {"described"}
    MaxSeq = 4
    MaxRollback = 0
INVARIANT SupersessionFirst
CHECK_DEADLOCK FALSE
