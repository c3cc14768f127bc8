SPECIFICATION Spec
CONSTANTS
    Parts = {"chunks"}
    Off = Off
    Batch = 3
    PadRows = 1
    CtxBatch = 2
    MaxRequests = 2
    ChunkWidth = 2
    ChunkMaxLen = 4
    PromptWidth = 4
    PromptMaxLen = 6
    Width = 5
    MinPrompt = 3
    MaxNew = 2
    Section <- MCSection
    SpecLength = 3
    AliasTypes <- MCAliasTypes
    MaxCalls = 4
    Patterns <- MCPatterns
    MaxLaunches = 3
    PathTypes <- MCPathTypes
    MaxSteps = 3
INVARIANTS
    KeysRotatedInPlace
CHECK_DEADLOCK FALSE
