SPECIFICATION FairSpec
CONSTANTS
    w1 = w1
    w2 = w2
    r1 = r1
    r2 = r2
    a1 = a1
    a2 = a2
    Workers = {w1, w2}
    Requests = {r1, r2}
    Nobody = Nobody
    Nothing = Nothing
    Apps = {a1, a2}
    Boot <- MCBoot
    s1 = s1
    s2 = s2
    Sessions = {s1, s2}
    Scenes <- MCScenes
INVARIANTS
    TypeOK
    OwnAnswer
    FlagHasSession
    SessionInCharge
CHECK_DEADLOCK FALSE
PROPERTIES
    RequestReturns
