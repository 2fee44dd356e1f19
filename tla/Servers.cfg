CONSTANTS
    Turns = {t1, t2}
    Boot = boot
    None = none
    OwnIds = {3}
    Room = 1
    MaxPrompts = 2
SPECIFICATION FairSpec
INVARIANTS Matched LspInOrder
PROPERTIES TurnsEnd
CHECK_DEADLOCK FALSE
