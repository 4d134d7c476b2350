SPECIFICATION Spec
CONSTANTS
    Spelling <- MCSpelling
    Method <- MCMethod
    Upper <- MCUpper
    URI = {u1, u2}
    Content <- MCContent
    Identity = {id}
    Stamp <- MCStamp
    Skews = {1, 2, 8, 12}
    Second = 2
    MaxInt = 15
    Start = 20
    MaxClock = 27
    Drift = 1
    MaxIssued = 2
    None = None
INVARIANTS
    TypeOK
    Lifetime
    StaysUsable
SYMMETRY Alike
