SPECIFICATION RestartFairSpec
CONSTANTS
    Process = {p1, p2}
    Overlap = TRUE
    Manual = {}
    XdpMayFail = FALSE
    NoProcess = NoProcess
    CacheSize = {s1}
    NoMap = NoMap
PROPERTY FastPathComesBack
CHECK_DEADLOCK FALSE
