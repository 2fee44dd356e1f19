SPECIFICATION Spec
CONSTANTS
    N = 2
    Final = Final
    RingCap = 3
    MaxTurns = 1
    MayFail = TRUE
INVARIANTS SynthesisOfSurvivors AbortIsQuiet Billed ComparisonFaithful
PROPERTY TurnEnds
CHECK_DEADLOCK FALSE
