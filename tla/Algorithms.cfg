INIT Init
NEXT Next
CONSTANTS
    NoPath = NoPath
    MAXSYMLINKS = 3
    MAX_FAKE_NETLINK_REPLY = 400
    MaxSeen = 2
    MaxRounds = 3
    NoName = NoName
    AVOIDER = AVOIDER
    Avoided = {}
    Scratch = 77
    PathMax = 5
    SunPathMax = 4
    SunPathOffset = 1
    BufSize = 8
    MaxScripts = 3
    NoProgram = NoProgram
    Page = 2
    ExecPicAddress = 20
    InterpPicAddress = 40
    WordSize = 2
    ChunkSize = 4
    RedZone = 2
    NoString = NoString
    PORT_THRESHOLD = 1024
    PORT_ADDITION = 2000
INVARIANTS CanonIsKernels RepliesWellFormed FilterStops ReplacementsFaithful OutputsInGuestTerms ImagesRight MemoryExact ArgumentsKept ExtensionsKeepTheirWord
CHECK_DEADLOCK FALSE
