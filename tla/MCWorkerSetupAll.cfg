SPECIFICATION Spec
CONSTANTS
    a1 = a1
    a2 = a2
    d1 = d1
    d2 = d2
    Apps = {a1, a2}
    Setups = {d1, d2}
    Lists = {"q1", "q2", "long"}
    LongNames = {"long"}
    Scenes <- MCScenes
    Vocabulary = {"a", "b", "c", "d"}
    MaxPushes = 2
    MaxRows = 2
    Nothing = Nothing
    Partial = Partial
    Uninit = Uninit
INVARIANTS
    TypeOK
    
    N1QLOwnBucket
    AliasesInstalled
    QueueIsOwn
    QueryAllOrNothing
    RewrittenAsMeant
    WordsKept
CHECK_DEADLOCK FALSE
