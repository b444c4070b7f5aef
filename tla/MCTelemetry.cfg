SPECIFICATION TelemetrySpec
CONSTANTS
    String = {"", " ", "f", "a", "t", " t", "cpu", "nanoseconds", "thread.name"}
    Empty = ""
    ThreadName = "thread.name"
    Cpu = "cpu"
    Nanoseconds = "nanoseconds"
    Trim <- MCTrim
    Address = {0, 1, 2}
    NoAddress = 0
    NoValue = NoValue
    NanosPerSecond = 12
    MaxI64 = 31
    Segment = {"v1", "api", "default", "logs", "metrics", "traces", "profiles"}
    Token = {"V", "${", "NL", "a", "b", "c", "e", "f", "u", "x", "json", "authorization", "scope", "content-type"}
    Var = {"V"}
    Unterminated = "${"
    Unsendable = "NL"
    None = None
    Failed = Failed
    Inputs <- MCInputs
    Profiles <- MCProfiles
    MaxWindows = 2
INVARIANTS
    DictionaryIsClosed
    RowsAreShared
    RoundTrip
    PathsAreNotDoubled
    HeadersFollowPrecedence
CHECK_DEADLOCK FALSE
