SPECIFICATION Spec
CONSTANTS
    MaxTurns = 2
    MaxCalls = 2
    KeepSeqs = 2
    Minted = {2, 4, 6, 8}
    MaxRows = 7
    MaxSeq = 9
INVARIANTS Paired HoldsPrompt Lowerable
CHECK_DEADLOCK FALSE
