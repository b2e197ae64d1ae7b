SPECIFICATION Spec
CONSTANTS
    crew = crew
    technical = technical
    oCrew = oCrew
    oTechnical = oTechnical
    oCrewAgain = oCrewAgain
    sailor = sailor
    engineer = engineer
    admin = admin
    r1 = r1
    r2 = r2
    Record = {r1}
    User = {sailor, engineer, admin}
    Admin = {admin}
    Group = {crew, technical}
    GroupsOf <- MCGroupsOf
    Option = {oCrew, oTechnical, oCrewAgain}
    GroupOf <- MCGroupOf
    FlowChoice <- EditedFlows
    Batch <- OneRecord
    APPROVED = APPROVED
    REJECTED = REJECTED
    NoStatus = NoStatus
    EMPTY = EMPTY
    NoReminder = NoReminder
INVARIANTS
    TypeOK
    IInv
    ApprovalIsFullySigned
PROPERTIES
    KeepsContract
