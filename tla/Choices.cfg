SPECIFICATION FairSpec
CONSTANTS
    Taps = {t1, t2, t3}
    Expiries = {"none", "ahead"}
    MaxHandlers = 2
    MaxAborts = 1
INVARIANTS TypeOK ClosedIsContinued TimeoutOnce
PROPERTIES ExpiryContinues
\* The interaction is over once it is closed and its taps are handled.
CHECK_DEADLOCK FALSE
