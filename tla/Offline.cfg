SPECIFICATION OfflineSpec
CONSTANTS
    Parts = {"weights", "files"}
    Configs <- MCConfigs
    SpecPath = SpecPath
    PlainPath = PlainPath
    Own = Own
    NoPath = NoPath
    None = None
    Torn = Torn
    MaxTp = 2
    Paths <- MCPaths
    Requests <- MCRequests
INVARIANTS
    LoadsExactly
    NormsShiftedOnce
    StoredAsRead
    NoSharedStorage
    HeadsGrouped
    FilesInv
    LoadFindsShards
    ServedAsRequested
PROPERTIES
    KillsAreOvercome
