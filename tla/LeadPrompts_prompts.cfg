CONSTANTS
    p1 = p1
    p2 = p2
    Prompts = {p1, p2}
    MaxOffers = 2
    MaxBreaks = 1
    MaxQueue = 1
SPECIFICATION FairSpec
INVARIANTS
    TypeOK
    PromptedOnce
    TakenIsWorkedOn
    SettledIsDone
PROPERTIES
    AnswerIsTold
CHECK_DEADLOCK FALSE
