SPECIFICATION RestartFairSpec
CONSTANTS
    Process = {p1, p2, p3}
    Overlap = TRUE
    Manual = {p3}
    XdpMayFail = TRUE
    NoProcess = NoProcess
    CacheSize = {s1, s2}
    NoMap = NoMap
INVARIANTS
    ClaimsAreHeld
    PinIsShared
PROPERTIES NodeKeepsAnswering ControlComesBack
CHECK_DEADLOCK FALSE
