SPECIFICATION FairSpec
CONSTANTS
    None = None
    Gone = Gone
    Dirs = {h1}
    Temps = {29000, 31000}
    CardLimit = 31000
    Configured = {0, 30}
    Half = 32768
    Milli = 1000
    MaxMoves = 1
    Flaky = {"link_width", "temp_max"}
INVARIANTS TypeOK SeriesHonest HeatCaught CoolNotBlamed
PROPERTIES SensorRecovers
