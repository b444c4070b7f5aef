SPECIFICATION BackoffSpec
CONSTANTS
    Caller = {c1, c2}
    Threshold = 2
    Backoff = 1
    CounterModulus = 4
    MaxTime = 2
SYMMETRY CallerSymmetry
INVARIANTS BackoffTypeOK OpenIsEarned OpenCoversAFailure
