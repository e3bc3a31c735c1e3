------------------------- MODULE IncidentCorrelation ------------------------
(***************************************************************************)
(* Incidents: the transaction of Store.ProcessEvent for a new canonical    *)
(* event (correlate, evaluatePolicies, enqueueNotifications) and for a     *)
(* duplicate of one (recordDuplicate), the operator's acknowledge and      *)
(* resolve, and the acknowledgement links of notifications.                *)
(*                                                                         *)
(* Each action is one transaction: correlate holds the advisory lock of    *)
(* the correlation key and the row lock of the incident, the others lock   *)
(* the incident's row.  Workers process events in any order, whatever      *)
(* their ReceivedAt.  Which message is a duplicate is EventPipeline's.     *)
(***************************************************************************)
EXTENDS Naturals, FiniteSets

CONSTANTS
    Incident,            \* ids a new incident can get
    NoIncident,
    Event,               \* canonical events
    CorrelationKey,      \* events.CorrelationKey of each event
    ReceivedAt,          \* its arrival
    Severity,            \* rank of its severity: info 0 to critical 3
    Window,              \* CorrelationWindow
    Copies,              \* bound: how many duplicates of each event come
    ChannelsOf,          \* channels the policies that match an event name, {} without a match
    Suppressed,          \* the events a matching policy suppresses
    EnabledChannel,      \* notification channels that exist and are enabled
    DefaultChannel,      \* local-mock
    OpenRowsBlockExec    \* external: pgx refuses Exec while the rows of a query are open

Channel == EnabledChannel \cup {DefaultChannel} \cup UNION {ChannelsOf[e] : e \in Event}

ASSUME CorrelationAssumption ==
    /\ NoIncident \notin Incident
    /\ IsFiniteSet(Event)
    /\ ReceivedAt \in [Event -> Nat]
    /\ Severity \in [Event -> 0 .. 3]
    /\ Window \in Nat
    /\ Copies \in [Event -> Nat]
    /\ Suppressed \subseteq Event
    /\ OpenRowsBlockExec \in BOOLEAN

VARIABLES
    state,       \* incidents.state, "none" before the row is inserted
    key,         \* incidents.correlation_key
    severity,    \* incidents.severity
    lastEvent,   \* incidents.last_event_at
    version,     \* incidents.version
    link,        \* incident_events: the incident of each processed event
    duplicates,  \* normalized_events.duplicate_count
    trail,       \* incident_transitions: the recorded from and to states of each incident
    token,       \* incident_ack_tokens, each named by its event; over once used or expired
    outbox,      \* delivery_attempts: dedupe key and the token in the payload
    policies,    \* the tenant has an enabled policy
    view         \* what an operator last read, and of which incident

row == <<state, key, severity, lastEvent, version>>
vars == <<row, link, duplicates, trail, token, outbox, policies, view>>

\* The state machine this module implements.
M == INSTANCE IncidentStates WITH Incident <- Incident, state <- state

Delivery ==
    [incident : Incident, channel : Channel, state : M!State, severity : 0 .. 3, token : Event]

EventsOf(i) == {e \in Event : link[e] = i}

\* What an operator goes by; version 0 before anything was read.
View == [incident : Incident \cup {NoIncident}, state : M!State \cup {"none"},
         severity : 0 .. 3, lastEvent : Nat, version : Nat, events : SUBSET Event,
         duplicates : [Event -> Nat]]

NoView == [incident |-> NoIncident, state |-> "none", severity |-> 0, lastEvent |-> 0,
           version |-> 0, events |-> {}, duplicates |-> [e \in Event |-> 0]]

\* An incident is shown with its events, and with how many duplicates there were of them.
ViewOf(i) == [incident |-> i, state |-> state[i], severity |-> severity[i],
              lastEvent |-> lastEvent[i], version |-> version[i], events |-> EventsOf(i),
              duplicates |-> [e \in Event |-> IF link[e] = i THEN duplicates[e] ELSE 0]]

TypeOK ==
    /\ state \in [Incident -> M!State \cup {"none"}]
    /\ key \in [Incident -> {CorrelationKey[e] : e \in Event} \cup {NoIncident}]
    /\ severity \in [Incident -> 0 .. 3]
    /\ lastEvent \in [Incident -> Nat]
    /\ version \in [Incident -> Nat]
    /\ link \in [Event -> Incident \cup {NoIncident}]
    /\ duplicates \in [Event -> Nat]
    /\ trail \in [Incident -> SUBSET ((M!State \cup {"none"}) \X M!State)]
    /\ token \in [Event -> {"none", "valid", "over"}]
    /\ outbox \subseteq Delivery
    /\ policies \in BOOLEAN
    /\ view \in View

Init ==
    /\ state = [i \in Incident |-> "none"]
    /\ key = [i \in Incident |-> NoIncident]
    /\ severity = [i \in Incident |-> 0]
    /\ lastEvent = [i \in Incident |-> 0]
    /\ version = [i \in Incident |-> 0]
    /\ link = [e \in Event |-> NoIncident]
    /\ duplicates = [e \in Event |-> 0]
    /\ trail = [i \in Incident |-> {}]
    /\ token = [e \in Event |-> "none"]
    /\ outbox = {}
    /\ policies = FALSE
    /\ view = NoView

-----------------------------------------------------------------------------
\* WHERE correlation_key = key AND state is open AND last_event_at >= ReceivedAt - window.
Candidates(e) ==
    {i \in Incident : /\ M!IsOpen(state[i])
                      /\ key[i] = CorrelationKey[e]
                      /\ lastEvent[i] + Window >= ReceivedAt[e]}

\* Mutant: the oldest of them.
IsChosenOldest(e, i) ==
    i \in Candidates(e) /\ \A j \in Candidates(e) : lastEvent[i] <= lastEvent[j]

\* ORDER BY last_event_at DESC LIMIT 1
IsChosen(e, i) ==
    i \in Candidates(e) /\ \A j \in Candidates(e) : lastEvent[i] >= lastEvent[j]

Later(a, b) == IF a >= b THEN a ELSE b

\* Mutant: the severity of the last event.
NewSeverityLast(i, e) == Severity[e]

\* maxSeverity
NewSeverity(i, e) == Later(severity[i], Severity[e])

\* GREATEST(last_event_at, received_at)
NewLastEvent(i, e) == Later(lastEvent[i], ReceivedAt[e])

\* The event opens incident i.
CreateIncident(e, i) ==
    /\ Candidates(e) = {}
    /\ state[i] = "none"
    /\ state' = [state EXCEPT ![i] = "detected"]
    /\ key' = [key EXCEPT ![i] = CorrelationKey[e]]
    /\ severity' = [severity EXCEPT ![i] = Severity[e]]
    /\ lastEvent' = [lastEvent EXCEPT ![i] = ReceivedAt[e]]
    /\ version' = [version EXCEPT ![i] = 1]
    /\ trail' = [trail EXCEPT ![i] = {<<"none", "detected">>}]

\* The event joins incident i.
UpdateIncident(e, i) ==
    /\ IsChosen(e, i)
    /\ severity' = [severity EXCEPT ![i] = NewSeverity(i, e)]
    /\ lastEvent' = [lastEvent EXCEPT ![i] = NewLastEvent(i, e)]
    /\ version' = [version EXCEPT ![i] = @ + 1]
    /\ UNCHANGED <<state, key, trail>>

\* The channels to notify: those the policies name, or the local default.
Channels(e) ==
    CASE policies /\ e \in Suppressed -> {}
      [] policies /\ e \notin Suppressed /\ ChannelsOf[e] # {} -> ChannelsOf[e]
      [] OTHER -> {DefaultChannel}

\* evaluatePolicies writes an audit entry for each policy while it reads the policies.
PoliciesEvaluate == ~(policies /\ OpenRowsBlockExec)

\* The rows that are not there yet: the dedupe key is incident, channel, state and severity.
NewDeliveries(e, i) ==
    {d \in [incident : {i}, channel : Channels(e), state : {state'[i]},
            severity : {severity'[i]}, token : {e}] :
        ~\E o \in outbox : /\ o.incident = i
                           /\ o.channel = d.channel
                           /\ o.state = d.state
                           /\ o.severity = d.severity}

TokenIfNew(e, i) == NewDeliveries(e, i) # {}

\* One token for all of them, and none if there is nothing to send.
EnqueueNotifications(e, i) ==
    /\ Channels(e) \subseteq EnabledChannel
    /\ outbox' = outbox \cup NewDeliveries(e, i)
    /\ token' = IF TokenIfNew(e, i) THEN [token EXCEPT ![e] = "valid"] ELSE token

\* The whole transaction; an error anywhere rolls it back, for the worker to try again.
ProcessEvent(e, i) ==
    /\ link[e] = NoIncident
    /\ CreateIncident(e, i) \/ UpdateIncident(e, i)
    /\ PoliciesEvaluate
    /\ EnqueueNotifications(e, i)
    /\ link' = [link EXCEPT ![e] = i]
    /\ UNCHANGED <<duplicates, policies, view>>

\* A message whose dedupe key is e's in e's bucket: the event was processed, its copy is counted.
RecordDuplicate(e) ==
    /\ link[e] # NoIncident
    /\ duplicates[e] < Copies[e]
    /\ duplicates' = [duplicates EXCEPT ![e] = @ + 1]
    /\ UNCHANGED <<row, link, trail, token, outbox, policies, view>>

\* The first policy of the tenant is applied and enabled.
ApplyPolicy ==
    /\ ~policies
    /\ policies' = TRUE
    /\ UNCHANGED <<row, link, duplicates, trail, token, outbox, view>>

-----------------------------------------------------------------------------
\* Mutant: the change goes unnoticed by holders of the old version.
NextVersionSame(i) == version[i]

NextVersion(i) == version[i] + 1

\* Mutant: the state the row has after the update.
RecordedAfter(i, to) == trail[i] \cup {<<to, to>>}

\* The incident_transitions row, from the state before the update.
Recorded(i, to) == trail[i] \cup {<<state[i], to>>}

Moved(i, to) ==
    /\ state' = [state EXCEPT ![i] = to]
    /\ version' = [version EXCEPT ![i] = NextVersion(i)]
    /\ trail' = [trail EXCEPT ![i] = Recorded(i, to)]
    /\ UNCHANGED <<key, severity, lastEvent, link, duplicates, outbox, policies, view>>

ReadIncident(i) ==
    /\ state[i] # "none"
    /\ view' = ViewOf(i)
    /\ UNCHANGED <<row, link, duplicates, trail, token, outbox, policies>>

\* The API offers ack and resolve; expected is the version the operator read, or 0 for any.
TransitionIncident(i, to, expected) ==
    /\ state[i] # "none"
    /\ expected > 0 => expected = version[i]
    /\ M!ValidTransition(state[i], to)
    /\ Moved(i, to)
    /\ UNCHANGED token

\* Mutant: the link acknowledges whatever it finds.
AckAllowedAlways(i) == state[i] # "acknowledged"

AckAllowed(i) == M!ValidTransition(state[i], "acknowledged")

\* A used or expired token, or an incident that is acknowledged or investigated already: nothing changes.
AcknowledgeByToken(e) ==
    LET i == link[e] IN
    /\ token[e] = "valid"
    /\ state[i] \notin {"acknowledged", "investigating"}
    /\ AckAllowed(i)
    /\ Moved(i, "acknowledged")
    /\ token' = [token EXCEPT ![e] = "over"]

\* 24 hours pass.
TokenExpires(e) ==
    /\ token[e] = "valid"
    /\ token' = [token EXCEPT ![e] = "over"]
    /\ UNCHANGED <<row, link, duplicates, trail, outbox, policies, view>>

-----------------------------------------------------------------------------
Process == \E e \in Event, i \in Incident : ProcessEvent(e, i)

Operate ==
    \E i \in Incident :
        \/ ReadIncident(i)
        \/ \E to \in {"acknowledged", "resolved"} :
              \/ TransitionIncident(i, to, 0)
              \/ view.incident = i /\ TransitionIncident(i, to, view.version)

Next ==
    \/ Process
    \/ ApplyPolicy
    \/ Operate
    \/ \E e \in Event : RecordDuplicate(e) \/ AcknowledgeByToken(e) \/ TokenExpires(e)

Spec == Init /\ [][Next]_vars

(***************************************************************************)
(* Fairness: the worker is redelivered an event until it is processed.     *)
(***************************************************************************)
FairSpec == Spec /\ WF_vars(Process)

-----------------------------------------------------------------------------
\* Two open incidents of one correlation key are more than a correlation window apart, in
\* whatever order the events come and whichever incidents operators resolve in between.
OpenIncidentsAreApart ==
    \A i, j \in Incident :
        (i # j /\ M!IsOpen(state[i]) /\ M!IsOpen(state[j]) /\ key[i] = key[j]) =>
            lastEvent[i] + Window < lastEvent[j] \/ lastEvent[j] + Window < lastEvent[i]

\* An incident is as severe as its worst event and as recent as its latest, whatever the order
\* in which they were processed.
SummaryIsExact ==
    \A i \in Incident : state[i] # "none" =>
        /\ \E e \in EventsOf(i) : severity[i] = Severity[e]
        /\ \A e \in EventsOf(i) : severity[i] >= Severity[e]
        /\ \E e \in EventsOf(i) : lastEvent[i] = ReceivedAt[e]
        /\ \A e \in EventsOf(i) : lastEvent[i] >= ReceivedAt[e]

\* An operator who holds the incident's current version has seen the incident and its events as
\* they are: no event, link or other operator changes what was read and leaves the version.
\* Duplicates do (process.go:131 leaves the incident's row alone), so the duplicates the operator
\* saw are at most the ones counted by now.
CurrentVersionIsCurrentView ==
    \A i \in Incident :
        view.incident = i /\ view.version = version[i] =>
            /\ view.state = state[i] /\ view.severity = severity[i]
            /\ view.lastEvent = lastEvent[i]
            /\ view.events = EventsOf(i)
            /\ \A e \in EventsOf(i) : view.duplicates[e] <= duplicates[e]

\* docs/architecture.md: every transition leaves a row.  The recorded transitions are valid
\* ones and lead from the detection of the incident to the state it is in.
TrailLeadsToState ==
    \A i \in Incident : state[i] # "none" =>
        /\ <<"none", "detected">> \in trail[i]
        /\ \E t \in trail[i] : t[2] = state[i]
        /\ \A t \in trail[i] :
              t[1] # "none" => M!ValidTransition(t[1], t[2]) /\ \E u \in trail[i] : u[2] = t[1]

\* Events, operators and acknowledgement links, used or late, move every incident along the
\* state machine of internal/incidents only: IncidentCorrelation implements IncidentStates.
StateMachine == M!Spec

-----------------------------------------------------------------------------
\* README.md: events are correlated and explainable policies evaluated.  Every event is
\* processed in the end, policies or none.
EventsAreProcessed == \A e \in Event : <>(link[e] # NoIncident)
=============================================================================
