SPECIFICATION Spec
CONSTANTS
    None = None
    Torn = Torn
    Ids = {d0, d1}
    Classes = {n150, n300}
    MaxChanges = 2
    MaxGen = 1
    MaxFaults = 1
    MaxAsks = 2
INVARIANTS NamesResolve
CHECK_DEADLOCK FALSE
