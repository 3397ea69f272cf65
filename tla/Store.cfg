SPECIFICATION Spec
CONSTANTS
    GoalDef <- MCGoalDef
    FactDef <- MCFactDef
    Relations <- MCRelations
    Resolution <- MCResolution
    Complaint = "RECLAMACAO"
    React <- ApplyEvent
    Servers = {s1, s2}
    Messages <- MCMessages
    Openings = {"described"}
    MaxSeq = 3
    MaxRollback = 1
SYMMETRY Symmetric
INVARIANTS  OrderSuffices
PROPERTIES HistoryKept
CHECK_DEADLOCK FALSE
