SPECIFICATION Spec
CONSTANTS
    None = None
    N = 1
    Streams = {s1}
    Hwmon = {1}
    Sound = {}
    Sick = {}
    Freezing = {1}
    MaxRestarts = 1
PROPERTIES RecoveryIsAssessed
