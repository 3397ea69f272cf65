SPECIFICATION Spec
CONSTANTS
    GoalDef <- MCGoalDef
    FactDef <- MCFactDef
    Relations <- MCRelations
    Resolution <- MCResolution
    Complaint = "RECLAMACAO"
    React <- ApplyEvent
    Interpretations <- Repeated
    Captions <- MCCaptions
    Openings <- Buried
    Decisions <- MCDecisions
    MaxSeq = 6
    MaxDocs = 0
    FileName <- MCFileName
INVARIANT PrerequisiteFirst
CHECK_DEADLOCK FALSE
