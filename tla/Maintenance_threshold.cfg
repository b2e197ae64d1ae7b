SPECIFICATION Spec
CONSTANTS
    Report = {r1, r2, r3}
    q1 = q1
    q2 = q2
    q3 = q3
    Quote <- ThreeQuotes
    NoReport = NoReport
    JobCount = 1
    Threshold = TRUE
    HasInterval = TRUE
    HandState <- DefaultState
    Movable <- NoQuote
    MaxOverlap = 0
    MaxDay = 2
SYMMETRY Rows
INVARIANTS
    TypeOK
    StateFollowsApproval
    SummaryIsCurrent
PROPERTIES
    ChainContinues
    DockingFreezes
