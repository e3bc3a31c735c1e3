\* Is an ambiguous notification sent again without an operator?
SPECIFICATION Spec
CONSTANTS
    w1 = w1
    w2 = w2
    Worker = {w1, w2}
    Delivery = {d1}
    Mock = {}
    Limit = 1
    MaxAttempts = 5
    MaxClaims = 0
PROPERTIES
    AmbiguousIsNotReplayed
CHECK_DEADLOCK FALSE
