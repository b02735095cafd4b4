SPECIFICATION Spec
CONSTANTS
    m1 = m1
    m2 = m2
    s1 = s1
    Messages = {m1, m2}
    Workers = {w1, w2}
    Principals = {s1}
    Conversations = {"c1", "c2"}
    PrincipalOf <- OneStudent
    ConversationOf <- OneChat
    NoWork = NoWork
    MaxAttempts = 1
    MaxTries = 1
    TurnResults = {"reply"}
    SendResults = {"acked"}
    MayAge = {m1}
    MayProtect = {}
    MaxAborts = 0
    MaxRevivals = 0
INVARIANTS NeverDiscarded
