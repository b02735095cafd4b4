SPECIFICATION FairSpec
CONSTANTS
    compatible = compatible
    anthropic = anthropic
    Turns = {t1, t2}
    N = 2
    Hosts = {compatible, anthropic}
    Longest <- LongestOf
    Cap = 1
    Attempts <- AttemptsOf
    MaxContinuations = 2
INVARIANTS TypeOK ReplyExplained 
PROPERTIES WaitedOut EveryTurnEnds
CHECK_DEADLOCK FALSE
