SPECIFICATION OfflineSpec
CONSTANTS
    Parts = {"files"}
    Configs <- MCConfigs
    SpecPath = SpecPath
    PlainPath = PlainPath
    Own = Own
    NoPath = NoPath
    None = None
    Torn = Torn
    MaxTp = 2
    Paths <- MCPaths
    Requests <- MCDefaultPath
INVARIANTS
    KernelsAskedAreServed
