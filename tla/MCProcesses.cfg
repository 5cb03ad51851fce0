SPECIFICATION Spec
CONSTANTS
    Pids <- MCPids
    ParentOf <- MCParentOf
    Unborn <- MCUnborn
    Mortal <- MCMortal
    Calls <- MCCalls
    Options <- MCOptions
    Steps <- MCSteps
    NoPath = NoPath
    Tracees = {p, q}
    First1 = p
    Startup <- MCStartup
    Cwd <- MCCwd
    HostDirs <- MCHostDirs
    GuestPaths <- MCGuestPaths
    PivotPairs <- MCPivotPairs
    Renames <- MCRenames
    TmpNames <- MCTmpNames
    Chroots = TRUE
    MaxCalls = 3
    ExecTracees = {t1, t2}
    ExecRoot = t1
    Programs = {a, unnamed, broken, missing}
    Unnamed = {unnamed}
    Broken = {broken}
    Missing = {missing}
    NoProgram = NoProgram
    HeapTracees = {p, c}
    FirstTracee = p
    PAGE = 2
    BssEnd = 2
    TopAddress = 9
    Start = 0
    UserIds = {0, 1, 2}
    RealUid = 10123
    RealGid = 10123
    ModeTracees = {m1, m2}
    Dir = Dir
    ModeFiles = {f1, f2}
    NetTracees = {n1, n2}
    NetRoot = n1
    NetFds = {0, 1}
    MAX_FAKE_NETLINK_FDS = 1
    NoTable = NoTable
INVARIANTS NeverHijacks WaitsAnswered NobodyInLimbo ProgramKnown HeapMapped ModesComeBack
PROPERTIES TreesKept IdsKept
CHECK_DEADLOCK FALSE
