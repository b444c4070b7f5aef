SPECIFICATION ProgramSpec
CONSTANTS
    WordLen = 3
    MaxName = 8
    Names <- MCNames
    TypeAndClass <- MCTypeAndClass
    Trailers <- MCTrailers
    Word16 = 32
    Chunk = 4
    MaxDns = 11
    MaxClaim = 18
    FrontLen = 3
    Tailroom = 4
    Sums = {0, 12}
    Frags = {1, 8}
INVARIANTS
    KernelKeyIsUserspaceKey
    PassedIsTheQuery
    ReplyIsFramed
    ReplyIsTheEntry
    DropOnlyTruncated
CHECK_DEADLOCK FALSE
