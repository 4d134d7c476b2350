SPECIFICATION Spec
CONSTANTS
    Call = {c1}
    Asks <- MCAsks
    TxnID <- MCTxn
    Address <- MCAddress
    TrustedProxies <- MCTrusted
    AppStatus <- MCStatus
    AppCode <- MCCode
    RemovedHeader <- NoHeader
INVARIANTS
    SafeApproximation
