SPECIFICATION Spec
CONSTANTS
    Report = {r1, r2, r3}
    q1 = q1
    q2 = q2
    q3 = q3
    Quote <- TwoQuotes
    NoReport = NoReport
    JobCount = 1
    Threshold = FALSE
    HasInterval = TRUE
    HandState <- AnyState
    Movable <- NoQuote
    MaxOverlap = 2
    MaxDay = 2
SYMMETRY Rows
INVARIANTS
    FinishedWorkIsDated
PROPERTIES
    UndockReleases
    
