SPECIFICATION Spec
CONSTANTS
    m1 = m1
    m2 = m2
    s1 = s1
    Messages = {m1}
    Workers = {w1, w2}
    Principals = {s1}
    Conversations = {"c1", "c2"}
    PrincipalOf <- OneStudent
    ConversationOf <- OneChat
    NoWork = NoWork
    MaxAttempts = 1
    MaxTries = 2
    TurnResults = {"reply", "silent", "error"}
    SendResults = {"acked", "unacked", "refused"}
    MayAge = {m1}
    MayProtect = {s1}
    MaxAborts = 1
    MaxRevivals = 1
SYMMETRY SameLoops
INVARIANTS TypeOK SweptOnce DuplicatesExplained
