SPECIFICATION Spec
CONSTANTS
    None = None
    Torn = Torn
    Ids = {d0, d1}
    Classes = {n150, n300}
    MaxChanges = 0
    MaxGen = 1
    MaxFaults = 0
    MaxAsks = 2
INVARIANTS CountsRequests
CHECK_DEADLOCK FALSE
