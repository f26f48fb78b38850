SPECIFICATION FairSpec
CONSTANTS
    None = None
    Classes = {n150}
    MaxProcs = 1
    MaxRestarts = 1
    MaxFaults = 1
    Races = {"startup", "restart"}
INVARIANTS TypeOK LifecycleInv OneLivePerClass NoLeakedPlugin NoDoubleClose StoppedServerIsDown
PROPERTIES ListenConflictIsZombie NoStrayUnlink ShutdownCompletes ImplementsIncarnations
CHECK_DEADLOCK FALSE
