SPECIFICATION FairSpec
CONSTANTS
    kk = kk
    Client <- MCClient
    Key <- MCKey
    Value <- MCValue
    NoValue <- MCNoValue
    MaxVersion = 6
    MaxPuts <- MCMaxPuts
    MaxMaybe = 3
    N = 5
    Servers <- MCServers
    NITER = 2
    Drawn <- MCDrawn
    VisElsewhere <- MCVisElsewhere
INVARIANTS LinksMatchFlags PartitionExact FaultsAnnotated OneVisFile ChecksPass PutsAccounted
PROPERTIES TestEnds
