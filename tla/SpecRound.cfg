SPECIFICATION Spec
CONSTANTS
    Token = {0, 1, 2}
    Eos = {2}
    SeqLen = 8
    Modes = {"xla", "launch3", "launch1"}
    Junk = Junk
    Prompts <- MCPrompts
    Target <- MCTarget
    DraftHead <- MCDraftHead
INVARIANTS
    RoundInv
    GreedyOutput
    TrunkStateCommitted
    DraftStateCommitted
    LateWriteBenign
PROPERTIES
    StreamGrowsByCommit
    RequestEnds
    ImplementsGreedyDecode
