SPECIFICATION FairSpec
CONSTANTS
    t1 = t1
    t2 = t2
    v1 = v1
    v2 = v2
    Turns = {t1}
    Visits = {v1}
    Keys = {k1}
    None = None
    Storage = {"deleted", "swallowed", "raised"}
    MaxEdits = 1
    MaxQuiet = 2
PROPERTIES ClosedIsSwept AsksSettle
CHECK_DEADLOCK FALSE
