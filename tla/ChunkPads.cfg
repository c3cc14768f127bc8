SPECIFICATION Spec
CONSTANTS
    Parts = {"chunks"}
    Off = Off
    Batch = 1
    PadRows = 1
    CtxBatch = 1
    MaxRequests = 1
    ChunkWidth = 3
    ChunkMaxLen = 6
    PromptWidth = 4
    PromptMaxLen = 6
    Width = 5
    MinPrompt = 3
    MaxNew = 2
    Section <- MCSection
    SpecLength = 3
    AliasTypes <- MCAliasTypes
    MaxCalls = 4
    Patterns <- MCPatterns
    MaxLaunches = 3
    PathTypes <- MCPathTypes
    MaxSteps = 3
INVARIANTS
    ChunkedIsExact
CHECK_DEADLOCK FALSE
