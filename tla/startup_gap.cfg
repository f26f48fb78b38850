SPECIFICATION FairSpec
CONSTANTS
    None = None
    Classes = {n150}
    MaxProcs = 1
    MaxRestarts = 1
    MaxFaults = 0
    Races = {"startup"}
PROPERTIES Readvertised
CHECK_DEADLOCK FALSE
