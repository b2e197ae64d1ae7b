SPECIFICATION Spec
CONSTANTS
    Report = {r1, r2}
    q1 = q1
    q2 = q2
    q3 = q3
    Quote <- TwoQuotes
    NoReport = NoReport
    JobCount = 1
    Threshold = TRUE
    HasInterval = FALSE
    HandState <- AnyState
    Movable <- TwoQuotes
    MaxOverlap = 1
    MaxDay = 1
SYMMETRY Rows
INVARIANTS
    SummaryIsCurrent
PROPERTIES
    ChainContinues
