\* Two external notifications and a mock, two workers that crash and lose reports.
SPECIFICATION FairSpec
CONSTANTS
    w1 = w1
    w2 = w2
    Worker = {w1, w2}
    Delivery = {d1, d2, m1}
    Mock = {m1}
    Limit = 2
    MaxAttempts = 2
    MaxClaims = 2
INVARIANTS
    ExternalIsExclusive
    SendsAreBounded
PROPERTIES
    DeliveredStays
    DeliveriesSettle
CHECK_DEADLOCK FALSE
