SPECIFICATION DesktopSpec
CONSTANTS
    x = x
    y = y
    p = p
    q = q
    c1 = c1
    c2 = c2
    None = None
    Sessions = {x, y}
    Providers = {p, q}
    Calls = {c1, c2}
    MaxGens = 3
    MaxLives = 1
INVARIANTS SwitchStays DisplayFollowsUser
SYMMETRY Symmetry
CHECK_DEADLOCK FALSE
