SPECIFICATION Spec
CONSTANTS
    Entity = {u, m1, m2}
    Lifespan = {u}
    Assignment = {a1, a2}
    None = None
    MaxQuantity = 2
    MaxTime = 2
    Lives = {0, 1}
    NotRead = NotRead
SYMMETRY Symmetry
INVARIANTS
    TypeOK
    AvailableIsCurrent
    NeverOverAssigned
    OneUserAtATime
PROPERTIES
    OnlyFitIsAssigned
