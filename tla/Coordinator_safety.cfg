SPECIFICATION Spec
CONSTANTS
    q1 = q1
    q2 = q2
    s1 = s1
    None = None
    Inputs = {q1, q2, s1}
    Steers = {s1}
    MaxBacklog = 1
    MaxTurns = 1
    MaxLives = 2
    MayForce = FALSE
    MayFail = TRUE
INVARIANTS
    Inv
    PromptOrder
PROPERTIES
    PromotedOnce
    ImplementsInbox
SYMMETRY QueuePermutations
CHECK_DEADLOCK FALSE
