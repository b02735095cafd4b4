SPECIFICATION Spec
CONSTANTS
    Taps = {t1, t2}
    Expiries = {"none"}
    MaxHandlers = 2
    MaxAborts = 1
INVARIANTS ConsumedOnce
\* The interaction is over once it is closed and its taps are handled.
CHECK_DEADLOCK FALSE
