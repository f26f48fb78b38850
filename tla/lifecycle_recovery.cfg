SPECIFICATION FairSpec
CONSTANTS
    None = None
    Classes = {n150}
    MaxProcs = 2
    MaxRestarts = 2
    MaxFaults = 1
    Races = {}
INVARIANTS NoListenConflict RegisteredOwnsSocket SocketInv
PROPERTIES EndpointMovesForward Readvertised
CHECK_DEADLOCK FALSE
