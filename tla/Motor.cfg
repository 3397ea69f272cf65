SPECIFICATION MotorSpec
CONSTANTS
    GoalDef <- MCGoalDef
    FactDef <- MCFactDef
    Relations <- MCRelations
    Resolution <- MCResolution
    Complaint = "RECLAMACAO"
    React <- ApplyEvent
    Lexical <- Interpret
    Plan <- Planned
    Interpreter <- OfficialInterpretation
    Texts <- McTexts
    Replies <- McReplies
    Proposals <- McProposals
    MaxEvents = 4
INVARIANTS P0ReachesTeam HandoffHasGrounds
PROPERTIES UncitedHintsFailClosed
CHECK_DEADLOCK FALSE
