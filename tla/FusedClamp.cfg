SPECIFICATION Spec
CONSTANTS
    Parts = {"rule"}
    Junk = Junk
    Off = Off
    TpDegree = 2
    VCore = 3
    MaxReduceWidth = 2
    TwoCoreRows <- MCTwoCoreRows
    OneCoreRows <- MCOneCoreRows
    Shapes <- MCShapes
    H0 = 2
    H2 = 2
    TrunkVocab = {1, 2, 3}
    Layers = 2
    Prime = 5
    Unit = 2
    MaxExp = 5
    CpuChunk = 3
    NkiChunk = 4
    Rounds = 1
    Kinds <- MCKinds
    Starts <- MCStarts
    MaxLen = 5
    P = 4
    RouterExperts = 4
    K = 2
    RouterLogit <- MCLogit
    Bias <- MCBias
    Launches <- MCLaunches
INVARIANTS
    FusedNeedsNoClamp
CHECK_DEADLOCK FALSE
