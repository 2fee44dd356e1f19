\* Two changes of the tree or of the world, one failing statement, one
\* compaction, two overlapping turns.
SPECIFICATION ContextFairSpec
CONSTANTS
    d1 = d1
    d2 = d2
    r1 = r1
    r2 = r2
    Dirs <- MCDirs
    Names <- MCNames
    Ignored = {"gen"}
    PathOrder <- MCPathOrder
    MaxSymbols = 2
    ChannelSize = 1
    Budget = 4
    HeaderCost = 2
    LineCost = 2
    MarkerCost = 1
    Starts <- MCStarts
    Runners = {r1, r2}
    Levels = 2
    MaxTexts = 1
INVARIANTS IndexCurrent MapBounded RecordTrue
PROPERTIES BaselineStable EventuallyTold
CHECK_DEADLOCK FALSE
