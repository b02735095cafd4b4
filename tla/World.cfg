SPECIFICATION Spec
CONSTANTS
    Works = {1, 2}
    MaxAttempts = 2
    MaxFaults = 3
INVARIANTS TypeOK OneLine TakenIsInFile
CHECK_DEADLOCK FALSE
