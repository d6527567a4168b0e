SPECIFICATION Spec
CONSTANTS
    k1 = k1  k2 = k2  NONE = NONE
    Clients = {k1, k2}
    Initial = 1
    Ns = {1, 2}
    MaxPdrs = 2
    MaxLoads = 2
    Backlog = 1
INVARIANTS TypeOK ProgramsShareMaps WritesReachDatapath LeftoversExplained InitialSessionsStay
PROPERTY EveryRequestEnds
