SPECIFICATION FairSpec
CONSTANTS
    r1 = r1
    r2 = r2
    Request <- Pair
    Route <- PairRoutes
    Address <- MCAddress
    Token <- MCToken
    Config <- PairConfig
    Limit <- PairLimit
    Backlog <- PairBacklog
    Quota <- PairQuota
    Inputs <- LiveInputs
    Agent <- MCAgent
    AppID <- MCAppID
    TrustedProxies <- MCTrusted
    RemovedHeader <- NoHeader
    AppStatus <- NoStatus
    AppHeader <- NoHeader
    LogRequestBodies = FALSE
PROPERTIES
    AllAnswered
    TrailLive
