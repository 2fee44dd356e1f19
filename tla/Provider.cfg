SPECIFICATION StreamSpec
CONSTANTS
    Dialects <- AllDialects
    MaxItems = 3
INVARIANTS Kept ChargedInFull
CHECK_DEADLOCK FALSE
