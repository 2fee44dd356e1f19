CONSTANTS
    Files <- MCFiles
    FileOf <- MCFileOf
    Spelled <- MCSpelled
    Calls <- MCCalls
    Texts <- MCTexts
    Agents = {"build", "plan"}
    MaxCalls = 2
    MaxEdits = 1
SPECIFICATION Spec
INVARIANTS Consented CacheTruthful Exact
PROPERTIES OthersKept
CHECK_DEADLOCK FALSE
