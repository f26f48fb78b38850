SPECIFICATION Spec
CONSTANTS
    None = None
    Torn = Torn
    Ids = {d0, d1}
    Classes = {n150, n300}
    MaxChanges = 2
    MaxGen = 3
    MaxFaults = 1
    MaxAsks = 2
SYMMETRY Symmetry
INVARIANTS TypeOK SpecNeverTorn SpecMatchesPlugin OneResourcePerCard AnswersResolve CountsContainers AllocationInv
CHECK_DEADLOCK FALSE
