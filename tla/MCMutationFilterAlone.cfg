SPECIFICATION FairSpec
CONSTANTS
    a1 = a1
    a2 = a2
    b1 = b1
    b2 = b2
    Apps = {a1, a2}
    Keys = {k1, k2}
    User = User
    Buckets = {b1, b2}
    MetadataBucket <- PrivateBuckets
    Callers = {}
    RchCap = 1
    MaxWrites = 3
    MaxRestarts = 0
    KvFails = FALSE
INVARIANTS
    TypeOK
    NoSelfTrigger
PROPERTIES
    DeliveryKept
    UserMutationHandled
CHECK_DEADLOCK FALSE
