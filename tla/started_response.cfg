SPECIFICATION Spec
CONSTANTS
    r1 = r1
    r2 = r2
    Request = {r1}
    Route <- AllRoutes
    Address <- MCAddress
    Token <- MCToken
    Config <- AllConfig
    Limit <- AllOnes
    Backlog <- AllZeros
    Quota <- AllQuota
    Inputs <- AllInputs
    Agent <- MCAgent
    AppID <- MCAppID
    TrustedProxies <- MCTrusted
    RemovedHeader <- MCRemoved
    AppStatus <- MCStatus
    AppHeader <- MCAppHeader
    LogRequestBodies = TRUE
INVARIANTS
    NeverMixed
