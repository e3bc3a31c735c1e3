\* Events of two keys in any order, with operators, links and policies in between.
SPECIFICATION Spec
CONSTANTS
    i1 = i1
    i2 = i2
    i3 = i3
    e1 = e1
    e2 = e2
    e3 = e3
    e4 = e4
    k1 = k1
    k2 = k2
    NoIncident = NoIncident
    EnabledChannel = {"mock", "oncall"}
    DefaultChannel = "mock"
    Incident = {i1, i2, i3}
    Event = {e1, e2, e3, e4}
    CorrelationKey <- StormKey
    ReceivedAt <- Storm
    Severity <- StormSeverity
    Window = 2
    Copies <- StormCopies
    ChannelsOf <- StormPolicy
    Suppressed = {e4}
    OpenRowsBlockExec = FALSE
SYMMETRY IncidentSymmetry
INVARIANTS
    OpenIncidentsAreApart
    SummaryIsExact
    CurrentVersionIsCurrentView
    TrailLeadsToState
PROPERTIES
    StateMachine
CHECK_DEADLOCK FALSE
