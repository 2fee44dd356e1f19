SPECIFICATION FairSpec
CONSTANTS
    q1 = q1
    q2 = q2
    s1 = s1
    None = None
    Inputs = {q1, q2}
    Steers = {}
    MaxBacklog = 1
    MaxTurns = 2
    MaxLives = 2
    MayForce = TRUE
    MayFail = TRUE
PROPERTIES
    StoppedTurnsEnd
    AcceptedRuns
CHECK_DEADLOCK FALSE
