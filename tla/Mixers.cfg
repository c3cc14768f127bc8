SPECIFICATION MixersSpec
CONSTANTS
    Parts = {"state", "delta", "gqa", "attn", "flash"}
    Configs <- FlashConfigs
    Unwritten = Unwritten
    Stale = Stale
    Off = Off
    Token = {0, 1}
    PadToken = 0
    Bucket = 5
    MaxLen = 7
    Zero = Zero
    PadColumn = PadColumn
    Prompts <- StatePrompts
    Builds <- AllBuilds
INVARIANTS
    MixersTypeOK
    LaunchIsLayer
    CachesHoldHistory
    QueriesReadHistory
    AttentionIsExact
    ConvIsHistory
    ConvHeals
    RecIsHistory
    CandidatesAreDecodeSteps
PROPERTIES
    LaunchEnds
CHECK_DEADLOCK FALSE
