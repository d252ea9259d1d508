CONSTANTS
    mine = mine
    other = other
    Clients = {c1}
    Publishers = {p1, p2}
    Topics = {mine, other}
    Follows <- FollowsMine
    HistoryLimit = 2
    None = none
    MaxChanges = 3
    MaxDrops = 1
    MaxRestarts = 1
    E1 = E1
    E2 = E2
    Hojas <- MCHojas
    Pedidos = {r1, r2}
    MaxCorridas = 2
    MaxLecturas = 3
    MaxCaidas = 1
SPECIFICATION BothSpec
INVARIANTS
    TypeOK
    NothingPassedOver
    
PROPERTIES
    FramesInOrder
    ChangesArrive
    ReadingsKept
    ReadingEnds
CHECK_DEADLOCK FALSE
