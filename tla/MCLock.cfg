SPECIFICATION FairSpec
CONSTANTS
    c1 = c1
    c2 = c2
    Client <- MCClient
    Key <- MCKey
    Value <- MCValue
    NoValue = ""
    MaxVersion = 15
    MaxRounds = 2
    MaxMaybe = 3
INVARIANTS MutualExclusion SectionUndisturbed ReleaseEffective
PROPERTIES NeverStolen AllFinish
