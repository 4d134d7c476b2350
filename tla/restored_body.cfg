SPECIFICATION Spec
CONSTANTS
    Request = {r1}
    MaxInt <- MCInt
    Sents <- MCSents
INVARIANT RestoredForHandlers
