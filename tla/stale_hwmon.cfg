SPECIFICATION FairSpec
CONSTANTS
    None = None
    Gone = Gone
    Dirs = {h1, h2}
    Temps = {29000}
    CardLimit = 31000
    Configured = {0}
    Half = 32768
    Milli = 1000
    MaxMoves = 2
    Flaky = {}
PROPERTIES SensorRecovers
