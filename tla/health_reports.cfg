SPECIFICATION FairSpec
CONSTANTS
    None = None
    N = 3
    Streams = {s1}
    Hwmon = {1, 2, 3}
    Sound = {1}
    Sick = {3}
    Freezing = {2}
    MaxRestarts = 1
INVARIANTS TypeOK MetricsMatchKubelet SickNeverOffered
PROPERTIES NoFalseAlarm HeatDetected FreezeDetected Recovers
