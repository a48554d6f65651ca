SPECIFICATION FairSpec
CONSTANTS
    c1 = c1
    c2 = c2
    Client <- MCClient
    Roaming <- MCRoaming
    Key = {"k"}
    Value = {"", "a"}
    NoValue = ""
    MaxVersion = 3
    MaxOps <- MCMaxOps
INVARIANTS TypeOK AnswersTruthful OneWinnerPerVersion LateAttemptsHarmless
PROPERTIES Linearizable CallsReturn
CHECK_DEADLOCK FALSE
