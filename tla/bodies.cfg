SPECIFICATION Spec
CONSTANTS
    Request = {r1}
    MaxInt <- MCInt
    Sents <- MCSents
INVARIANTS
    TypeOK
    ServedAsJudged
    WholeOrTold
    BodiesCapped
    NoFalseRefusal
