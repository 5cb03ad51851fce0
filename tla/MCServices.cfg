SPECIFICATION Spec
CONSTANTS
    Requests <- MCRequests
    MaxStageCalls = 2
    MaxChain = 2
    Signals = {"s1"}
    Tracees = {a, b, c}
    Root = a
    Threads = FALSE
    EntryPaths = {"ptrace", "sigsys"}
    Faults = {"kill", "signal", "refused", "nospace", "nomap"}
    Keys = {k}
    MaxSlots = 1
    MaxGen = 1
    MaxMaps = 2
    TraceeFds = {3, 4}
    Chunks = {x1, x2, x3, x4}
    NULL = NULL
    None = None
    First = First
    Mains <- MCMains
    m1 = m1
    Customs = {c1}
    Names = {First, m1, c1}
    MaxSessions = 3
    Shells = {s1, s2, s3}
INVARIANTS RootfsWhole CallsFaithful SegmentsKept HandledAsAsked
PROPERTIES ObjectsOwned SessionsKept StageCallsEnd ShmatReturns
CHECK_DEADLOCK FALSE
