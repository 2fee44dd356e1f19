SPECIFICATION Spec
CONSTANTS
    f1 = f1
    f2 = f2
    a = a
    b = b
    big = big
    c1 = c1
    Files = {f1, f2}
    Small = {a, b}
    Large = {big}
    Absent = Absent
    Turn = Turn
    Calls = {c1}
    MaxRows = 3
    MaxEdits = 1
    MayFail = TRUE
INVARIANTS SnapshotFaithful Undoable RestoreExact
SYMMETRY Symmetry
CHECK_DEADLOCK FALSE
