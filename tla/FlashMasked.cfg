SPECIFICATION MixersSpec
CONSTANTS
    Parts = {"flash"}
    Configs <- LongCache
    Unwritten = Unwritten
    Stale = Stale
    Off = Off
    Token = {0, 1}
    PadToken = 0
    Bucket = 5
    MaxLen = 7
    Zero = Zero
    PadColumn = PadColumn
    Prompts <- StatePrompts
    Builds <- AllBuilds
INVARIANTS
    NeverNaN
CHECK_DEADLOCK FALSE
