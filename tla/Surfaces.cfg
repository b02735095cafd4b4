SPECIFICATION Spec
CONSTANTS
    t1 = t1
    t2 = t2
    v1 = v1
    v2 = v2
    Turns = {t1, t2}
    Visits = {v1, v2}
    Keys = {k1}
    None = None
    Storage = {"deleted", "raised"}
    MaxEdits = 2
    MaxQuiet = 1
SYMMETRY Interchangeable
INVARIANTS TypeOK PageWhole EveryPageCounts AnsweredOnce
PROPERTIES ImplementsContract
CHECK_DEADLOCK FALSE
