\* Is a confirmed message ever lost?
SPECIFICATION Spec
CONSTANTS
    r1 = r1
    r2 = r2
    k1 = k1
    Request = {r1}
    KeyOf <- OneKey
    Signed = {r1}
    Ahead = {}
    CacheMax = 1
    MaxDeliver = 2
    MaxTries <- Twice
    MaxBucket = 0
INVARIANTS
    ConfirmedMessagesAreKept
CHECK_DEADLOCK FALSE
