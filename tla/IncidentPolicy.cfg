\* Two events, one policy, and the driver the code uses.
SPECIFICATION FairSpec
CONSTANTS
    i1 = i1
    i2 = i2
    i3 = i3
    e1 = e1
    e2 = e2
    e3 = e3
    e4 = e4
    k1 = k1
    k2 = k2
    NoIncident = NoIncident
    EnabledChannel = {"mock", "oncall"}
    DefaultChannel = "mock"
    Incident = {i1, i2}
    Event = {e1, e2}
    CorrelationKey <- PairKey
    ReceivedAt <- Pair
    Severity <- PairSeverity
    Window = 2
    Copies <- PairCopies
    ChannelsOf <- PairPolicy
    Suppressed = {}
    OpenRowsBlockExec = TRUE
PROPERTIES
    EventsAreProcessed
CHECK_DEADLOCK FALSE
