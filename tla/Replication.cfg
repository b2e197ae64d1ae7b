SPECIFICATION Spec
CONSTANTS
    land = land
    ship1 = ship1
    ship2 = ship2
    Server = {land, ship1, ship2}
    ShipNo <- MCShipNo
    Padding = 3
    Dump = 1
    DumpDate = 1
    crew = crew
    Pair = {crew}
    Moments <- MCMoments
    NoServer = NoServer
CONSTRAINT Bounded
CHECK_DEADLOCK FALSE
INVARIANTS
    TypeOK
    InsertsNeverClash
    ServersAgree
PROPERTIES
    EverythingArrives
