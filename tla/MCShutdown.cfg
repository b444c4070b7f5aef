SPECIFICATION FairShutdownSpec
CONSTANTS
    Cpus = 2
    MaxPackets = 2
INVARIANTS
    CountsAreNeverInvented
    LastWindowIsReported
PROPERTY ShutdownEnds
CHECK_DEADLOCK FALSE
