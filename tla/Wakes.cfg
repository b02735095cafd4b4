SPECIFICATION FairSpec
CONSTANTS
    Actions = {a1, a2}
    Workers = {w1, w2}
    MaxWorks = 3
    MaxFailures = 2
    MayCancel = {a1}
INVARIANTS TypeOK OneOpenWork FiredOnce
PROPERTIES CancelledUnclaimedIsFinal EveryActionEnds
