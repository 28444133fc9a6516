SPECIFICATION Spec
CONSTANTS
    a1 = a1
    a2 = a2
    b1 = b1
    b2 = b2
    Apps = {a1, a2}
    Keys = {k1}
    User = User
    Buckets = {b1}
    MetadataBucket <- SharedBucket
    Callers = {"http"}
    RchCap = 1
    MaxWrites = 2
    MaxRestarts = 1
    KvFails = TRUE
SYMMETRY AppSymmetry
INVARIANTS
    WithheldOnlyHandlerWrites
CHECK_DEADLOCK FALSE
