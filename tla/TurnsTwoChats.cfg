SPECIFICATION FairSpec
CONSTANTS
    m1 = m1
    m2 = m2
    s1 = s1
    Messages = {m1, m2}
    Workers = {w1, w2}
    Principals = {s1}
    Conversations = {"c1", "c2"}
    PrincipalOf <- OneStudent
    ConversationOf <- TwoChats
    NoWork = NoWork
    MaxAttempts = 2
    MaxTries = 2
    TurnResults = {"reply", "error"}
    SendResults = {"acked", "refused"}
    MayAge = {}
    MayProtect = {}
    MaxAborts = 0
    MaxRevivals = 0
INVARIANTS LocksExclusive HeldIsOpen TurnsSerialized OutboxAgrees NeverDiscarded
PROPERTIES EveryWorkEnds MailSettles
