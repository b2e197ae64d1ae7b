SPECIFICATION Spec
CONSTANTS
    r1 = r1
    q1 = q1
    q2 = q2
    s1 = s1
    s2 = s2
    Request = {r1}
    Quote = {q1, q2}
    Supplier = {s1, s2}
    SuppliersOf <- MCSuppliersOf
    JoinsOf <- MCJoinsOf
    PricesOf <- MCPricesOf
    Paint = {q2}
    LeastPrice <- MCLeastPrice
    MaxDay = 1
    MaxOpen = 1
    Overlapped = {q2}
    Top = 3
    SUPPLIER = 2
    EXPERT = 3
    CronMayAct = TRUE
    Decided = Decided
    NoStatus = NoStatus
    Gone = Gone
    NoRequest = NoRequest
    NoSupplier = NoSupplier
    NoDate = NoDate
INVARIANTS
    TypeOK
    DeadlineIsKept
    PricedNeverWaits
    ExpertChoiceStands
PROPERTIES
    PricesOnlyComplete
