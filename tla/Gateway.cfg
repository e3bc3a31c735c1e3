SPECIFICATION MCSpec
CHECK_DEADLOCK FALSE

CONSTANTS
    server = server
    w1 = w1
    w2 = w2
    s1 = s1
    r1 = r1
    r2 = r2
    r3 = r3
    Server = {server}
    Worker = {w1, w2}
    TheServer = server
    Build <- MCBuild
    Environment <- MCEnvironment
    Malformed = Malformed
    NoConfig = NoConfig
    Nobody = Nobody
    NoConsumer = NoConsumer
    NoBucket = NoBucket
    MaxStarts = 2
    Source = {s1}
    Rate <- MCRate
    Burst <- MCBurst
    Handler = {h1, h2}
    Request = {r1, r2, r3}
    SourceOf <- MCSourceOf
    Signed <- MCSigned
    MsgIDOf <- MCMsgIDOf
    Bearer = Bearer
    Never = Never
    NoRequest = NoRequest
    CacheMax = 1
    PublishTimeout = 1
    MaxDelay = 1
    Duplicates = 7
    MaxReceived = 3
    MaxTime = 7

INVARIANTS
    MigrationsAreOrdered
    LimitsAgree
    AdmissionIsBounded
    AcceptedIsRemembered
    StoredOnce

PROPERTY
    StartsFinish
