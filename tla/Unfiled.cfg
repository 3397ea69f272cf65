SPECIFICATION Spec
CONSTANTS
    GoalDef <- MCGoalDef
    FactDef <- MCFactDef
    Relations <- MCRelations
    Resolution <- MCResolution
    Complaint = "RECLAMACAO"
    React <- ApplyEvent
    Interpretations <- Unfiled
    Captions <- MCCaptions
    Openings <- Unnamed
    Decisions <- MCDecisions
    MaxSeq = 7
    MaxDocs = 0
    FileName <- MCFileName
PROPERTY DependentsFall
CHECK_DEADLOCK FALSE
