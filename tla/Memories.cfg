SPECIFICATION FairSpec
CONSTANTS
    Turns = {t1, t2}
    Known = {1, 2}
    MaxMemories = 4
    MaxOps = 2
INVARIANTS TypeOK LinesHold
PROPERTIES EndedStaysEnded MemoryTurnsEnd
CHECK_DEADLOCK FALSE
