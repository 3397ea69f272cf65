SPECIFICATION SideSpec
CONSTANTS
    r1 = r1
    r2 = r2
    Inbound = {m1}
    Posts = {p1, p2, p3}
    NoDocument = none
    Process = {s1, s2}
    Keys = {"k1", "k2"}
    Challenge <- McChallenge
    Event <- McEvent
    Affirmative = {"sim", "confirmo"}
    MaxLifetime = 15
    Asked <- McAsked
    MaxCalls = 5
    Caller = {c1, c2, c3}
    Request <- McRequest
    EffectsAllowed = TRUE
    MaxInvocations = 4
    MaxEra = 1
    Runner = {r1, r2}
    Lines <- McLines
    CohortOf <- McCohort
    MaxCases <- McMax
    Verdicts = {"v1", "v2", "sensitive"}
    MaxOpens = 2
    Catalogues <- McCatalogues
    Questions = {"ASSINATURA", "PRECO", "HORARIO", "PRAZO", "OUTRO"}
    LastDay = 2
    Contracts <- McContracts
    Arguments <- McArguments
    FactSpecs <- McFactSpecs
    Declared <- McDeclared
    Messages <- McMessages
    Callers = {b1, b2}
    MaxGeneration = 2
    MaxProposals = 2
    Yeses = {a1}
INVARIANTS
    OneDocumentPerFile
    StoredHasObject
    OneConfirmation
    AnswersStand
    AnswersBacked
    OneVerdict
    CompletedIsStored
    AnswersAreOfficial
    LaneSpeaksForTheCase
    OneRequestPerAnswer
PROPERTIES
    OptionsLeadOn
    ClosedOnlyAfterSilence
    CallsEnd
    InvocationsEnd
    RecordsStand
CHECK_DEADLOCK FALSE
