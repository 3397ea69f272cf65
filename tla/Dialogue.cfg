SPECIFICATION Spec
CONSTANTS
    GoalDef <- MCGoalDef
    FactDef <- MCFactDef
    Relations <- MCRelations
    Resolution <- MCResolution
    Complaint = "RECLAMACAO"
    React <- ApplyEvent
    Interpretations <- MCInterpretations
    Captions <- MCCaptions
    Openings <- MCOpenings
    Decisions <- MCDecisions
    MaxSeq = 6
    MaxDocs = 1
    FileName <- MCFileName
INVARIANTS DecisionsStand ConclusionsHaveGrounds NoDeadEnd
    QuestionIsAnswerable SuspensionIsOwed TeamHasRequest Converges
PROPERTY FactsOnRecord
CHECK_DEADLOCK FALSE
