SPECIFICATION Spec
CONSTANTS
    Report = {r1}
    q1 = q1
    q2 = q2
    q3 = q3
    Quote <- TwoQuotes
    NoReport = NoReport
    JobCount = 1
    Threshold = TRUE
    HasInterval = TRUE
    HandState <- AnyState
    Movable <- NoQuote
    MaxOverlap = 0
    MaxDay = 1
SYMMETRY Rows
PROPERTIES
    ConfirmedWasCompleted
