\* A signed request, its sender's clock ahead, sent twice, and a bearer request with the same
\* idempotency key, through every loss, under the worker's fairness.
SPECIFICATION FairSpec
CONSTANTS
    r1 = r1
    r2 = r2
    k1 = k1
    Request = {r1, r2}
    KeyOf <- SameKey
    Signed = {r1}
    Ahead = {r1}
    CacheMax = 1
    MaxDeliver = 2
    MaxTries <- TwiceOnce
    MaxBucket = 1
INVARIANTS
    OneEventPerSignedRequest
    AckedIsHandled
    OnlyTheLastDeliveryLoses
PROPERTIES
    MessagesSettle
CHECK_DEADLOCK FALSE
