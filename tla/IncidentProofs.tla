--------------------------- MODULE IncidentProofs ---------------------------
(***************************************************************************)
(* Proofs about IncidentCorrelation, for any events, incidents, channels,  *)
(* windows and policies: it implements the state machine IncidentStates,   *)
(* and open incidents, summaries, versions and the recorded transitions    *)
(* are what they should be in whatever order events, operators and links   *)
(* come.                                                                   *)
(***************************************************************************)
EXTENDS IncidentCorrelation, TLAPS

\* Zenon is tried first, and a step it is not made for cites the SMT solver.  Both get more time
\* than by default: preparing the next step counts against it.
USE ZenonT(30), SMTT(30)

\* Events are linked to incidents that exist, and only linked events have a token.
LinkInv ==
    \A e \in Event :
        /\ link[e] # NoIncident => state[link[e]] # "none"
        /\ token[e] # "none" => link[e] # NoIncident

\* What an operator read was of an incident that exists, and versions only grow.
ViewInv ==
    \A i \in Incident : view.incident = i => state[i] # "none" /\ view.version <= version[i]

\* The inductive invariant.
IncidentInv ==
    /\ TypeOK
    /\ LinkInv
    /\ ViewInv
    /\ OpenIncidentsAreApart
    /\ SummaryIsExact
    /\ CurrentVersionIsCurrentView
    /\ TrailLeadsToState

-----------------------------------------------------------------------------
\* A token is used up or runs out; nothing else becomes of tokens after their creation.
TokenOver == token' = token \/ \E e \in Event : /\ token[e] = "valid"
                                                /\ token' = [token EXCEPT ![e] = "over"]

\* What an operator or a link does to incident i.
MovedTo(i, to) ==
    /\ to \in {"acknowledged", "resolved"}
    /\ M!ValidTransition(state[i], to)
    /\ Moved(i, to)
    /\ TokenOver

\* Duplicates are counted, and never taken back.
DuplicatesGrow == duplicates' \in [Event -> Nat] /\ \A e \in Event : duplicates[e] <= duplicates'[e]

\* What leaves the incidents alone.
IncidentsLeftAlone ==
    /\ UNCHANGED <<row, link, trail, outbox, view>>
    /\ DuplicatesGrow
    /\ TokenOver
    /\ policies' \in BOOLEAN

\* Everything starts empty.
LEMMA IncidentInit == Init => IncidentInv
<1> SUFFICES ASSUME Init PROVE IncidentInv
  OBVIOUS
<1>1. TypeOK
  <2>1. NoView \in View
    BY SMTT(30) DEF NoView, View, M!State
  <2>2. trail \in [Incident -> SUBSET ((M!State \cup {"none"}) \X M!State)]
    BY DEF Init
  <2>3. /\ key \in [Incident -> {CorrelationKey[e] : e \in Event} \cup {NoIncident}]
        /\ link \in [Event -> Incident \cup {NoIncident}]
        /\ token \in [Event -> {"none", "valid", "over"}]
        /\ state \in [Incident -> M!State \cup {"none"}]
    BY DEF Init
  <2>4. /\ severity \in [Incident -> 0 .. 3]
        /\ lastEvent \in [Incident -> Nat]
        /\ version \in [Incident -> Nat]
        /\ duplicates \in [Event -> Nat]
    BY SMTT(30) DEF Init
  <2>5. outbox \subseteq Delivery /\ policies \in BOOLEAN /\ view \in View
    BY <2>1 DEF Init
  <2> QED BY <2>2, <2>3, <2>4, <2>5 DEF TypeOK
<1>2. LinkInv /\ ViewInv /\ SummaryIsExact /\ CurrentVersionIsCurrentView /\ TrailLeadsToState
  BY CorrelationAssumption
     DEF Init, LinkInv, ViewInv, SummaryIsExact, CurrentVersionIsCurrentView, TrailLeadsToState,
         NoView
<1>3. OpenIncidentsAreApart
  BY DEF Init, OpenIncidentsAreApart, M!IsOpen, M!State
<1> QED BY <1>1, <1>2, <1>3 DEF IncidentInv

\* The five kinds of steps.
LEMMA StepKinds ==
    ASSUME IncidentInv, Next
    PROVE  \/ \E e \in Event, i \in Incident : ProcessEvent(e, i) /\ CreateIncident(e, i)
           \/ \E e \in Event, i \in Incident : ProcessEvent(e, i) /\ UpdateIncident(e, i)
           \/ \E i \in Incident, to \in {"acknowledged", "resolved"} : MovedTo(i, to)
           \/ \E i \in Incident : ReadIncident(i)
           \/ IncidentsLeftAlone
<1>0. UNCHANGED duplicates => DuplicatesGrow
  BY SMTT(30) DEF DuplicatesGrow, IncidentInv, TypeOK
<1>1. CASE Process
  BY <1>1 DEF Process, ProcessEvent
<1>2. CASE ApplyPolicy
  BY <1>0, <1>2 DEF ApplyPolicy, IncidentsLeftAlone, TokenOver
<1>3. CASE Operate
  BY <1>3 DEF Operate, TransitionIncident, MovedTo, TokenOver
<1>4. ASSUME NEW e \in Event, AcknowledgeByToken(e)
      PROVE  \E i \in Incident, to \in {"acknowledged", "resolved"} : MovedTo(i, to)
  <2>1. link[e] \in Incident
    BY <1>4 DEF AcknowledgeByToken, IncidentInv, LinkInv, TypeOK
  <2>2. MovedTo(link[e], "acknowledged")
    BY <1>4 DEF AcknowledgeByToken, AckAllowed, MovedTo, TokenOver
  <2> QED BY <2>1, <2>2
<1>5. ASSUME NEW e \in Event, TokenExpires(e) PROVE IncidentsLeftAlone
  BY <1>0, <1>5 DEF TokenExpires, IncidentsLeftAlone, TokenOver, IncidentInv, TypeOK
<1>6. ASSUME NEW e \in Event, RecordDuplicate(e) PROVE IncidentsLeftAlone
  <2>1. DuplicatesGrow
    BY <1>6, SMTT(30) DEF RecordDuplicate, DuplicatesGrow, IncidentInv, TypeOK
  <2> QED BY <1>6, <2>1
          DEF RecordDuplicate, IncidentsLeftAlone, TokenOver, IncidentInv, TypeOK
<1> QED BY <1>1, <1>2, <1>3, <1>4, <1>5, <1>6 DEF Next

-----------------------------------------------------------------------------
\* What one event's transaction writes besides the incident's row stays well typed.
LEMMA ProcessTypes ==
    ASSUME TypeOK, NEW e \in Event, NEW i \in Incident, ProcessEvent(e, i),
           state' \in [Incident -> M!State \cup {"none"}], state'[i] \in M!State,
           severity' \in [Incident -> 0 .. 3]
    PROVE  /\ link' \in [Event -> Incident \cup {NoIncident}]
           /\ token' \in [Event -> {"none", "valid", "over"}]
           /\ outbox' \subseteq Delivery
           /\ duplicates' \in [Event -> Nat]
           /\ policies' \in BOOLEAN
           /\ view' \in View
<1>1. /\ link' \in [Event -> Incident \cup {NoIncident}] /\ duplicates' \in [Event -> Nat]
      /\ policies' \in BOOLEAN /\ view' \in View
  BY DEF ProcessEvent, TypeOK
<1>2. token' \in [Event -> {"none", "valid", "over"}]
  BY DEF ProcessEvent, EnqueueNotifications, TypeOK
<1>3. ASSUME NEW d \in NewDeliveries(e, i) PROVE d \in Delivery
  <2>1. d \in [incident : {i}, channel : Channels(e), state : {state'[i]},
               severity : {severity'[i]}, token : {e}]
    BY <1>3 DEF NewDeliveries
  <2>2. Channels(e) \subseteq Channel
    BY DEF ProcessEvent, EnqueueNotifications, Channel
  <2>3. severity'[i] \in 0 .. 3
    OBVIOUS
  <2> QED BY <2>1, <2>2, <2>3 DEF Delivery
<1>4. outbox' \subseteq Delivery
  BY <1>3 DEF ProcessEvent, EnqueueNotifications, TypeOK
<1> QED BY <1>1, <1>2, <1>4

\* Every step keeps the types.
LEMMA TypesNext ==
    ASSUME IncidentInv, Next
    PROVE  TypeOK'
<1>0. TypeOK
  BY DEF IncidentInv
<1>1. ASSUME NEW e \in Event, NEW i \in Incident, ProcessEvent(e, i), CreateIncident(e, i)
      PROVE  TypeOK'
  <2>1. Severity[e] \in 0 .. 3 /\ ReceivedAt[e] \in Nat
    BY CorrelationAssumption
  <2>2. /\ state' \in [Incident -> M!State \cup {"none"}]
        /\ state'[i] \in M!State
    BY <1>0, <1>1 DEF CreateIncident, TypeOK, M!State
  <2>3. /\ key' \in [Incident -> {CorrelationKey[f] : f \in Event} \cup {NoIncident}]
        /\ severity' \in [Incident -> 0 .. 3]
        /\ lastEvent' \in [Incident -> Nat]
        /\ version' \in [Incident -> Nat]
    BY <1>0, <1>1, <2>1 DEF CreateIncident, TypeOK
  <2>4. trail' \in [Incident -> SUBSET ((M!State \cup {"none"}) \X M!State)]
    <3>1. {<<"none", "detected">>} \in SUBSET ((M!State \cup {"none"}) \X M!State)
      BY SMTT(30) DEF M!State
    <3> QED BY <1>0, <1>1, <3>1 DEF CreateIncident, TypeOK
  <2> QED BY <1>0, <1>1, <2>2, <2>3, <2>4, ProcessTypes DEF TypeOK
<1>2. ASSUME NEW e \in Event, NEW i \in Incident, ProcessEvent(e, i), UpdateIncident(e, i)
      PROVE  TypeOK'
  <2>1. Severity[e] \in 0 .. 3 /\ ReceivedAt[e] \in Nat
    BY CorrelationAssumption
  <2>2. state'[i] \in M!State /\ state' = state /\ key' = key /\ trail' = trail
    BY <1>2 DEF UpdateIncident, IsChosen, Candidates, M!IsOpen
  <2>3. /\ severity' \in [Incident -> 0 .. 3]
        /\ lastEvent' \in [Incident -> Nat]
        /\ version' \in [Incident -> Nat]
    BY <1>0, <1>2, <2>1, SMTT(30) DEF UpdateIncident, NewSeverity, NewLastEvent, Later, TypeOK
  <2> QED BY <1>0, <1>2, <2>2, <2>3, ProcessTypes DEF TypeOK
<1>3. ASSUME NEW i \in Incident, NEW to \in {"acknowledged", "resolved"}, MovedTo(i, to)
      PROVE  TypeOK'
  <2>1. to \in M!State /\ state[i] \in M!State
    BY <1>3 DEF MovedTo, M!ValidTransition, M!State
  <2>2. trail' \in [Incident -> SUBSET ((M!State \cup {"none"}) \X M!State)]
    BY <1>0, <1>3, <2>1, SMTT(30) DEF MovedTo, Moved, Recorded, TypeOK
  <2>3. /\ state' \in [Incident -> M!State \cup {"none"}]
        /\ version' \in [Incident -> Nat]
        /\ token' \in [Event -> {"none", "valid", "over"}]
    BY <1>0, <1>3, <2>1, SMTT(30) DEF MovedTo, Moved, NextVersion, TokenOver, TypeOK
  <2> QED BY <1>0, <1>3, <2>2, <2>3 DEF MovedTo, Moved, TypeOK
<1>4. ASSUME NEW i \in Incident, ReadIncident(i) PROVE TypeOK'
  <2>1. ViewOf(i) \in View
    <3>1. [e \in Event |-> IF link[e] = i THEN duplicates[e] ELSE 0] \in [Event -> Nat]
      BY <1>0, SMTT(30) DEF TypeOK
    <3> QED BY <1>0, <3>1 DEF ViewOf, View, EventsOf, TypeOK
  <2> QED BY <1>0, <1>4, <2>1 DEF ReadIncident, row, TypeOK
<1>5. ASSUME IncidentsLeftAlone PROVE TypeOK'
  <2>1. token' \in [Event -> {"none", "valid", "over"}]
    BY <1>0, <1>5 DEF IncidentsLeftAlone, TokenOver, TypeOK
  <2> QED BY <1>0, <1>5, <2>1 DEF IncidentsLeftAlone, DuplicatesGrow, row, TypeOK
<1> QED BY <1>1, <1>2, <1>3, <1>4, <1>5, StepKinds

\* An incident never disappears, and whatever changes what an operator goes by makes a new
\* version.
LEMMA VersionsGrow ==
    ASSUME IncidentInv, Next, NEW j \in Incident, state[j] # "none"
    PROVE  /\ state'[j] # "none"
           /\ version'[j] >= version[j]
           /\ version'[j] = version[j] =>
                 /\ state'[j] = state[j]
                 /\ severity'[j] = severity[j]
                 /\ lastEvent'[j] = lastEvent[j]
<1>0. TypeOK /\ version[j] \in Nat
  BY DEF IncidentInv, TypeOK
<1>1. ASSUME NEW e \in Event, NEW i \in Incident, CreateIncident(e, i)
      PROVE  /\ state'[j] = state[j] /\ version'[j] = version[j]
             /\ severity'[j] = severity[j] /\ lastEvent'[j] = lastEvent[j]
  BY <1>0, <1>1 DEF CreateIncident, TypeOK
<1>2. ASSUME NEW e \in Event, NEW i \in Incident, UpdateIncident(e, i)
      PROVE  /\ state'[j] = state[j]
             /\ version'[j] >= version[j]
             /\ version'[j] = version[j] =>
                   severity'[j] = severity[j] /\ lastEvent'[j] = lastEvent[j]
  BY <1>0, <1>2, SMTT(30) DEF UpdateIncident, TypeOK
<1>3. ASSUME NEW i \in Incident, NEW to \in {"acknowledged", "resolved"}, MovedTo(i, to)
      PROVE  /\ state'[j] # "none"
             /\ version'[j] >= version[j]
             /\ version'[j] = version[j] => state'[j] = state[j]
             /\ severity' = severity /\ lastEvent' = lastEvent
  BY <1>0, <1>3, SMTT(30) DEF MovedTo, Moved, NextVersion, TypeOK
<1>4. ASSUME NEW i \in Incident, ReadIncident(i) \/ IncidentsLeftAlone PROVE UNCHANGED row
  BY <1>4 DEF ReadIncident, IncidentsLeftAlone
<1>5. UNCHANGED row => /\ state' = state /\ version' = version
                       /\ severity' = severity /\ lastEvent' = lastEvent
  BY DEF row
<1>6. IncidentsLeftAlone => UNCHANGED row
  BY DEF IncidentsLeftAlone
<1> QED BY <1>0, <1>1, <1>2, <1>3, <1>4, <1>5, <1>6, StepKinds, SMTT(30)

\* Duplicates apart, no event joins an incident that keeps its version.
LEMMA LinksGrow ==
    ASSUME IncidentInv, Next, NEW j \in Incident, state[j] # "none"
    PROVE  /\ version'[j] = version[j] => \A f \in Event : link'[f] = j <=> link[f] = j
           /\ DuplicatesGrow
<1>0. TypeOK /\ version[j] \in Nat /\ (UNCHANGED duplicates => DuplicatesGrow)
  BY SMTT(30) DEF IncidentInv, TypeOK, DuplicatesGrow
<1>1. ASSUME NEW e \in Event, NEW i \in Incident, ProcessEvent(e, i), CreateIncident(e, i)
      PROVE  /\ \A f \in Event : link'[f] = j <=> link[f] = j
             /\ DuplicatesGrow
  <2>1. link' = [link EXCEPT ![e] = i] /\ link[e] # j /\ i # j
    BY <1>1, CorrelationAssumption DEF ProcessEvent, CreateIncident
  <2> QED BY <1>0, <1>1, <2>1 DEF ProcessEvent, TypeOK
<1>2. ASSUME NEW e \in Event, NEW i \in Incident, ProcessEvent(e, i), UpdateIncident(e, i)
      PROVE  /\ version'[j] = version[j] => \A f \in Event : link'[f] = j <=> link[f] = j
             /\ DuplicatesGrow
  <2>1. link' = [link EXCEPT ![e] = i] /\ link[e] # j
    BY <1>2, CorrelationAssumption DEF ProcessEvent
  <2>2. version'[j] = version[j] => i # j
    BY <1>0, <1>2, SMTT(30) DEF UpdateIncident, TypeOK
  <2> QED BY <1>0, <1>2, <2>1, <2>2 DEF ProcessEvent, TypeOK
<1>3. ASSUME NEW i \in Incident, NEW to \in {"acknowledged", "resolved"}, MovedTo(i, to)
      PROVE  UNCHANGED link /\ DuplicatesGrow
  BY <1>0, <1>3 DEF MovedTo, Moved
<1>4. ASSUME NEW i \in Incident, ReadIncident(i) PROVE UNCHANGED link /\ DuplicatesGrow
  BY <1>0, <1>4 DEF ReadIncident
<1>5. IncidentsLeftAlone => UNCHANGED link /\ DuplicatesGrow
  BY DEF IncidentsLeftAlone
<1> QED BY <1>1, <1>2, <1>3, <1>4, <1>5, StepKinds

\* Links and tokens keep pointing at incidents that exist.
LEMMA LinksNext ==
    ASSUME IncidentInv, Next
    PROVE  LinkInv'
<1>0. TypeOK /\ LinkInv
  BY DEF IncidentInv
<1>1. ASSUME NEW e \in Event, NEW i \in Incident, ProcessEvent(e, i),
             CreateIncident(e, i) \/ UpdateIncident(e, i), NEW f \in Event
      PROVE  /\ link'[f] # NoIncident => link'[f] = link[f] \/ state'[link'[f]] # "none"
             /\ token'[f] # "none" => token'[f] = token[f] \/ link'[f] # NoIncident
             /\ link[f] # NoIncident => link'[f] = link[f]
  <2>1. state'[i] # "none"
    BY <1>0, <1>1
    DEF CreateIncident, UpdateIncident, IsChosen, Candidates, M!IsOpen, M!State, TypeOK
  <2>2. link' = [link EXCEPT ![e] = i] /\ link[e] = NoIncident /\ i # NoIncident
    BY <1>1, CorrelationAssumption DEF ProcessEvent
  <2>3. token' = token \/ token' = [token EXCEPT ![e] = "valid"]
    BY <1>1 DEF ProcessEvent, EnqueueNotifications
  <2>4. CASE f = e
    BY <1>0, <2>1, <2>2, <2>4 DEF TypeOK
  <2>5. CASE f # e
    BY <1>0, <1>1, <2>2, <2>3, <2>5 DEF TypeOK
  <2> QED BY <2>4, <2>5
<1>2. ASSUME UNCHANGED link, TokenOver, NEW f \in Event
      PROVE  /\ link'[f] = link[f]
             /\ token'[f] # "none" => token[f] # "none"
  BY <1>0, <1>2 DEF TokenOver, TypeOK
<1>3. \/ \E e \in Event, i \in Incident :
            ProcessEvent(e, i) /\ (CreateIncident(e, i) \/ UpdateIncident(e, i))
      \/ UNCHANGED link /\ TokenOver
  <2>1. ASSUME NEW i \in Incident, NEW to \in {"acknowledged", "resolved"}, MovedTo(i, to)
        PROVE  UNCHANGED link /\ TokenOver
    BY <2>1 DEF MovedTo, Moved
  <2>2. ASSUME NEW i \in Incident, ReadIncident(i) PROVE UNCHANGED link /\ TokenOver
    BY <2>2 DEF ReadIncident, TokenOver
  <2>3. IncidentsLeftAlone => UNCHANGED link /\ TokenOver
    BY DEF IncidentsLeftAlone
  <2> QED BY <2>1, <2>2, <2>3, StepKinds
<1>4. ASSUME NEW f \in Event, link[f] # NoIncident PROVE state'[link[f]] # "none"
  BY <1>0, <1>4, VersionsGrow, SMTT(30) DEF LinkInv, TypeOK
<1>5. ASSUME NEW f \in Event
      PROVE  /\ link'[f] # NoIncident => state'[link'[f]] # "none"
             /\ token'[f] # "none" => link'[f] # NoIncident
  BY <1>0, <1>1, <1>2, <1>3, <1>4, <1>5 DEF LinkInv
<1> QED BY <1>5 DEF LinkInv

\* What an operator holds stays older than the incident, or exact.
LEMMA ViewsNext ==
    ASSUME IncidentInv, Next
    PROVE  ViewInv' /\ CurrentVersionIsCurrentView'
<1>0. TypeOK /\ ViewInv /\ CurrentVersionIsCurrentView
  BY DEF IncidentInv
<1>1. ASSUME NEW i \in Incident, ReadIncident(i) PROVE ViewInv' /\ CurrentVersionIsCurrentView'
  <2>1. /\ state[i] # "none" /\ state' = state /\ version' = version
        /\ severity' = severity /\ lastEvent' = lastEvent
        /\ link' = link /\ duplicates' = duplicates
        /\ view' = ViewOf(i)
    BY <1>1 DEF ReadIncident, row
  <2>2. version[i] \in Nat /\ duplicates \in [Event -> Nat]
    BY <1>0 DEF TypeOK
  <2>3. /\ view'.incident = i /\ view'.version = version[i] /\ view'.state = state[i]
        /\ view'.severity = severity[i] /\ view'.lastEvent = lastEvent[i]
        /\ view'.events = EventsOf(i)
        /\ view'.duplicates = [e \in Event |-> IF link[e] = i THEN duplicates[e] ELSE 0]
    BY <2>1 DEF ViewOf
  <2>4. \A e \in EventsOf(i) : view'.duplicates[e] <= duplicates[e]
    BY <2>2, <2>3, SMTT(30) DEF EventsOf
  <2>5. EventsOf(i)' = EventsOf(i)
    BY <2>1 DEF EventsOf
  <2>6. ViewInv'
    BY <2>1, <2>2, <2>3, SMTT(30) DEF ViewInv
  <2>7. CurrentVersionIsCurrentView'
    BY <2>1, <2>3, <2>4, <2>5 DEF CurrentVersionIsCurrentView
  <2> QED BY <2>6, <2>7
<1>2. ASSUME UNCHANGED view, NEW j \in Incident, view.incident = j
      PROVE  /\ state'[j] # "none" /\ view.version <= version'[j]
             /\ view.version = version'[j] =>
                   /\ view.state = state'[j] /\ view.severity = severity'[j]
                   /\ view.lastEvent = lastEvent'[j] /\ view.events = EventsOf(j)'
                   /\ \A e \in EventsOf(j)' : view.duplicates[e] <= duplicates'[e]
  <2>1. /\ state[j] # "none"
        /\ view.version <= version[j]
        /\ view.version = version[j] =>
              /\ view.state = state[j] /\ view.severity = severity[j]
              /\ view.lastEvent = lastEvent[j] /\ view.events = EventsOf(j)
              /\ \A e \in EventsOf(j) : view.duplicates[e] <= duplicates[e]
    BY <1>0, <1>2 DEF ViewInv, CurrentVersionIsCurrentView
  <2>2. view.version \in Nat /\ version[j] \in Nat /\ version'[j] \in Nat
    BY <1>0, TypesNext DEF TypeOK, View
  <2>3. /\ state'[j] # "none"
        /\ version'[j] >= version[j]
        /\ version'[j] = version[j] =>
              state'[j] = state[j] /\ severity'[j] = severity[j] /\ lastEvent'[j] = lastEvent[j]
    BY <2>1, VersionsGrow
  <2>4. version'[j] = version[j] => EventsOf(j)' = EventsOf(j)
    BY <2>1, LinksGrow DEF EventsOf
  <2>5. ASSUME NEW e \in Event PROVE view.duplicates[e] <= duplicates[e] =>
                                     view.duplicates[e] <= duplicates'[e]
    <3>1. view.duplicates[e] \in Nat /\ duplicates[e] \in Nat /\ duplicates'[e] \in Nat
      BY <1>0, TypesNext DEF TypeOK, View
    <3>2. duplicates[e] <= duplicates'[e]
      BY <2>1, LinksGrow DEF DuplicatesGrow
    <3> QED BY <3>1, <3>2, SMTT(30)
  <2>6. EventsOf(j) \subseteq Event
    BY DEF EventsOf
  <2>7. CASE version'[j] = version[j]
    BY <2>1, <2>3, <2>4, <2>5, <2>6, <2>7
  <2>8. CASE version'[j] # version[j]
    BY <2>1, <2>2, <2>3, <2>8, SMTT(30)
  <2> QED BY <2>7, <2>8
<1>3. ASSUME UNCHANGED view PROVE ViewInv' /\ CurrentVersionIsCurrentView'
  BY <1>2, <1>3 DEF ViewInv, CurrentVersionIsCurrentView
<1>4. (\E i \in Incident : ReadIncident(i)) \/ UNCHANGED view
  BY StepKinds DEF ProcessEvent, MovedTo, Moved, IncidentsLeftAlone
<1> QED BY <1>1, <1>3, <1>4

\* A new incident opens only outside the windows of the open ones of its key, and an event
\* joins the latest of those whose window it is in.
LEMMA ApartNext ==
    ASSUME IncidentInv, Next
    PROVE  OpenIncidentsAreApart'
<1> DEFINE Open(j) == M!IsOpen(state[j])
           Apart(a, b) == a + Window < b \/ b + Window < a
<1>0. TypeOK /\ OpenIncidentsAreApart /\ Window \in Nat
  BY CorrelationAssumption DEF IncidentInv
<1>1. ASSUME NEW e \in Event, NEW i \in Incident, CreateIncident(e, i),
             NEW j \in Incident, NEW k \in Incident, j # k, Open(j)', Open(k)', key'[j] = key'[k]
      PROVE  Apart(lastEvent'[j], lastEvent'[k])
  <2>1. ASSUME NEW l \in Incident, l # i, Open(l)', key'[l] = CorrelationKey[e]
        PROVE  lastEvent'[l] + Window < ReceivedAt[e]
    <3>1. state'[l] = state[l] /\ key'[l] = key[l] /\ lastEvent'[l] = lastEvent[l]
      BY <1>0, <1>1, <2>1 DEF CreateIncident, TypeOK
    <3>2. l \notin Candidates(e)
      BY <1>1 DEF CreateIncident
    <3>3. lastEvent[l] \in Nat /\ ReceivedAt[e] \in Nat
      BY <1>0, CorrelationAssumption DEF TypeOK
    <3> QED BY <1>0, <2>1, <3>1, <3>2, <3>3, SMTT(30) DEF Candidates, M!IsOpen
  <2>2. lastEvent'[i] = ReceivedAt[e] /\ key'[i] = CorrelationKey[e]
    BY <1>0, <1>1 DEF CreateIncident, TypeOK
  <2>3. ASSUME j # i, k # i PROVE Apart(lastEvent'[j], lastEvent'[k])
    <3>1. \A l \in {j, k} :
             state'[l] = state[l] /\ key'[l] = key[l] /\ lastEvent'[l] = lastEvent[l]
      BY <1>0, <1>1, <2>3 DEF CreateIncident, TypeOK
    <3> QED BY <1>0, <1>1, <3>1 DEF OpenIncidentsAreApart, M!IsOpen
  <2> QED BY <1>1, <2>1, <2>2, <2>3
<1>2. ASSUME NEW e \in Event, NEW i \in Incident, UpdateIncident(e, i)
      PROVE  \A l \in Incident : l # i /\ Open(l) /\ key[l] = key[i] =>
                                 Apart(lastEvent[l], lastEvent'[i])
  <2> SUFFICES ASSUME NEW l \in Incident, l # i, Open(l), key[l] = key[i]
               PROVE  Apart(lastEvent[l], lastEvent'[i])
    OBVIOUS
  <2>1. /\ lastEvent[l] \in Nat /\ lastEvent[i] \in Nat /\ ReceivedAt[e] \in Nat
        /\ lastEvent'[i] = IF lastEvent[i] >= ReceivedAt[e] THEN lastEvent[i] ELSE ReceivedAt[e]
    BY <1>0, <1>2, CorrelationAssumption DEF UpdateIncident, NewLastEvent, Later, TypeOK
  <2>2. /\ Open(i) /\ key[i] = CorrelationKey[e]
        /\ \A j \in Candidates(e) : lastEvent[i] >= lastEvent[j]
    BY <1>2 DEF UpdateIncident, IsChosen, Candidates
  <2>3. Apart(lastEvent[l], lastEvent[i])
    BY <1>0, <2>2 DEF OpenIncidentsAreApart
  <2>4. l \in Candidates(e) \/ lastEvent[l] + Window < ReceivedAt[e]
    BY <1>0, <2>1, <2>2, SMTT(30) DEF Candidates
  <2> QED BY <1>0, <2>1, <2>2, <2>3, <2>4, SMTT(30)
<1>3. ASSUME NEW e \in Event, NEW i \in Incident, UpdateIncident(e, i) PROVE OpenIncidentsAreApart'
  <2>1. /\ state' = state /\ key' = key
        /\ \A l \in Incident : l # i => lastEvent'[l] = lastEvent[l]
    BY <1>0, <1>3 DEF UpdateIncident, TypeOK
  <2>2. ASSUME NEW j \in Incident, NEW k \in Incident, j # k, Open(j), Open(k), key[j] = key[k]
        PROVE  Apart(lastEvent'[j], lastEvent'[k])
    <3>1. CASE j = i
      BY <1>2, <1>3, <2>1, <2>2, <3>1
    <3>2. CASE k = i
      BY <1>2, <1>3, <2>1, <2>2, <3>2
    <3>3. CASE j # i /\ k # i
      BY <1>0, <2>1, <2>2, <3>3 DEF OpenIncidentsAreApart
    <3> QED BY <3>1, <3>2, <3>3
  <2> QED BY <2>1, <2>2 DEF OpenIncidentsAreApart, M!IsOpen
<1>4. ASSUME NEW i \in Incident, NEW to \in {"acknowledged", "resolved"}, MovedTo(i, to)
      PROVE  OpenIncidentsAreApart'
  <2>1. M!IsOpen(state[i]) \/ to = "resolved" \/ ~ Open(i)'
    BY <1>0, <1>4, SMTT(30) DEF MovedTo, M!ValidTransition, M!Transitions, M!IsOpen, M!State
  <2>2. key' = key /\ lastEvent' = lastEvent /\ state' = [state EXCEPT ![i] = to]
    BY <1>4 DEF MovedTo, Moved
  <2>3. \A l \in Incident : Open(l)' => Open(l)
    BY <1>0, <2>1, <2>2 DEF TypeOK, M!IsOpen
  <2> QED BY <1>0, <2>2, <2>3 DEF OpenIncidentsAreApart
<1>5. UNCHANGED <<state, key, lastEvent>> => OpenIncidentsAreApart'
  BY <1>0 DEF OpenIncidentsAreApart, M!IsOpen
<1>6. ASSUME NEW i \in Incident, ReadIncident(i) PROVE UNCHANGED <<state, key, lastEvent>>
  BY <1>6 DEF ReadIncident, row
<1>7. IncidentsLeftAlone => UNCHANGED <<state, key, lastEvent>>
  BY DEF IncidentsLeftAlone, row
<1>8. ASSUME NEW e \in Event, NEW i \in Incident, CreateIncident(e, i) PROVE OpenIncidentsAreApart'
  BY <1>1, <1>8 DEF OpenIncidentsAreApart
<1> QED BY <1>3, <1>4, <1>5, <1>6, <1>7, <1>8, StepKinds

\* The summary of an incident takes every event that joins it into account.
LEMMA SummaryNext ==
    ASSUME IncidentInv, Next
    PROVE  SummaryIsExact'
<1> DEFINE Exact(j) ==
              /\ \E f \in EventsOf(j) : severity[j] = Severity[f]
              /\ \A f \in EventsOf(j) : severity[j] >= Severity[f]
              /\ \E f \in EventsOf(j) : lastEvent[j] = ReceivedAt[f]
              /\ \A f \in EventsOf(j) : lastEvent[j] >= ReceivedAt[f]
<1>0. /\ TypeOK /\ LinkInv
      /\ \A j \in Incident : state[j] # "none" => Exact(j)
  BY DEF IncidentInv, SummaryIsExact
<1>1. \A f \in Event : Severity[f] \in Nat /\ ReceivedAt[f] \in Nat
  BY CorrelationAssumption, SMTT(30)
<1>2. ASSUME NEW e \in Event, NEW i \in Incident, ProcessEvent(e, i)
      PROVE  /\ EventsOf(i)' = EventsOf(i) \cup {e}
             /\ \A j \in Incident : j # i => EventsOf(j)' = EventsOf(j)
  BY <1>0, <1>2, CorrelationAssumption, SMTT(30) DEF ProcessEvent, EventsOf, TypeOK
<1>3. ASSUME NEW e \in Event, NEW i \in Incident, ProcessEvent(e, i), CreateIncident(e, i),
             NEW j \in Incident, state'[j] # "none"
      PROVE  Exact(j)'
  <2>1. CASE j = i
    <3>1. EventsOf(i) = {}
      BY <1>0, <1>3, CorrelationAssumption, SMTT(30) DEF CreateIncident, EventsOf, LinkInv
    <3>2. severity'[i] = Severity[e] /\ lastEvent'[i] = ReceivedAt[e]
      BY <1>0, <1>3 DEF CreateIncident, TypeOK
    <3> QED BY <1>1, <1>2, <1>3, <2>1, <3>1, <3>2, SMTT(30)
  <2>2. CASE j # i
    <3>1. /\ state'[j] = state[j] /\ severity'[j] = severity[j] /\ lastEvent'[j] = lastEvent[j]
      BY <1>0, <1>3, <2>2 DEF CreateIncident, TypeOK
    <3> QED BY <1>0, <1>2, <1>3, <2>2, <3>1, SMTT(30)
  <2> QED BY <2>1, <2>2
<1>4. ASSUME NEW e \in Event, NEW i \in Incident, ProcessEvent(e, i), UpdateIncident(e, i),
             NEW j \in Incident, state'[j] # "none"
      PROVE  Exact(j)'
  <2>1. CASE j = i
    <3>1. Exact(i) /\ EventsOf(i)' = EventsOf(i) \cup {e} /\ EventsOf(i) \subseteq Event
      BY <1>0, <1>2, <1>4, <2>1 DEF UpdateIncident, EventsOf
    <3>2. severity[i] \in Nat /\ lastEvent[i] \in Nat
      BY <1>0, SMTT(30) DEF TypeOK
    <3>3. severity'[i] = IF severity[i] >= Severity[e] THEN severity[i] ELSE Severity[e]
      BY <1>0, <1>4 DEF UpdateIncident, NewSeverity, Later, TypeOK
    <3>4. lastEvent'[i] = IF lastEvent[i] >= ReceivedAt[e] THEN lastEvent[i] ELSE ReceivedAt[e]
      BY <1>0, <1>4 DEF UpdateIncident, NewLastEvent, Later, TypeOK
    <3>5. /\ \E f \in EventsOf(i)' : severity'[i] = Severity[f]
          /\ \A f \in EventsOf(i)' : severity'[i] >= Severity[f]
      BY <1>1, <3>1, <3>2, <3>3, SMTT(30)
    <3>6. /\ \E f \in EventsOf(i)' : lastEvent'[i] = ReceivedAt[f]
          /\ \A f \in EventsOf(i)' : lastEvent'[i] >= ReceivedAt[f]
      BY <1>1, <3>1, <3>2, <3>4, SMTT(30)
    <3> QED BY <2>1, <3>5, <3>6
  <2>2. CASE j # i
    <3>1. state'[j] = state[j] /\ severity'[j] = severity[j] /\ lastEvent'[j] = lastEvent[j]
      BY <1>0, <1>4, <2>2 DEF UpdateIncident, TypeOK
    <3> QED BY <1>0, <1>2, <1>4, <2>2, <3>1, SMTT(30)
  <2> QED BY <2>1, <2>2
<1>5. ASSUME UNCHANGED <<severity, lastEvent, link>>, NEW j \in Incident,
             state'[j] = "none" \/ state[j] # "none", state'[j] # "none"
      PROVE  Exact(j)'
  BY <1>0, <1>5, SMTT(30) DEF EventsOf
<1>6. ASSUME NEW i \in Incident, NEW to \in {"acknowledged", "resolved"}, MovedTo(i, to),
             NEW j \in Incident
      PROVE  UNCHANGED <<severity, lastEvent, link>> /\ (state'[j] = "none" \/ state[j] # "none")
  BY <1>0, <1>6 DEF MovedTo, Moved, M!ValidTransition, M!State, TypeOK
<1>7. ASSUME NEW i \in Incident, ReadIncident(i)
      PROVE  UNCHANGED <<state, severity, lastEvent, link>>
  BY <1>7 DEF ReadIncident, row
<1>8. IncidentsLeftAlone => UNCHANGED <<state, severity, lastEvent, link>>
  BY DEF IncidentsLeftAlone, row
<1>9. ASSUME NEW j \in Incident, state'[j] # "none" PROVE Exact(j)'
  <2> HIDE DEF Exact
  <2> QED BY <1>3, <1>4, <1>5, <1>6, <1>7, <1>8, <1>9, StepKinds
<1> QED BY <1>9 DEF SummaryIsExact

\* A transition is recorded with the state it leaves, in the transaction that makes it.
LEMMA TrailNext ==
    ASSUME IncidentInv, Next
    PROVE  TrailLeadsToState'
<1> DEFINE Leads(s, T) ==
              /\ <<"none", "detected">> \in T
              /\ \E t \in T : t[2] = s
              /\ \A t \in T :
                    t[1] # "none" => M!ValidTransition(t[1], t[2]) /\ \E u \in T : u[2] = t[1]
<1>0. /\ TypeOK
      /\ \A j \in Incident : state[j] # "none" => Leads(state[j], trail[j])
  BY DEF IncidentInv, TrailLeadsToState
<1>1. Leads("detected", {<<"none", "detected">>})
  BY SMTT(30)
<1>2. ASSUME NEW s, NEW to, NEW T, Leads(s, T), M!ValidTransition(s, to)
      PROVE  Leads(to, T \cup {<<s, to>>})
  <2>1. <<s, to>>[1] = s /\ <<s, to>>[2] = to
    OBVIOUS
  <2>2. PICK u \in T : u[2] = s
    BY <1>2
  <2>3. ASSUME NEW t \in T \cup {<<s, to>>}, t[1] # "none"
        PROVE  M!ValidTransition(t[1], t[2]) /\ \E v \in T \cup {<<s, to>>} : v[2] = t[1]
    <3>1. CASE t \in T
      BY <1>2, <2>3, <3>1
    <3>2. CASE t = <<s, to>>
      <4>1. M!ValidTransition(t[1], t[2])
        BY <1>2, <2>1, <3>2
      <4>2. u \in T \cup {<<s, to>>} /\ u[2] = t[1]
        BY <2>1, <2>2, <3>2
      <4> QED BY <4>1, <4>2
    <3> QED BY <2>3, <3>1, <3>2
  <2>4. <<"none", "detected">> \in T \cup {<<s, to>>}
    BY <1>2
  <2>5. \E t \in T \cup {<<s, to>>} : t[2] = to
    BY <2>1
  <2> QED BY <2>3, <2>4, <2>5
<1>3. ASSUME NEW e \in Event, NEW i \in Incident, CreateIncident(e, i),
             NEW j \in Incident, state'[j] # "none"
      PROVE  Leads(state'[j], trail'[j])
  <2>1. CASE j = i
    <3>1. state'[j] = "detected" /\ trail'[j] = {<<"none", "detected">>}
      BY <1>0, <1>3, <2>1 DEF CreateIncident, TypeOK
    <3> QED BY <1>1, <3>1
  <2>2. CASE j # i
    <3>1. state'[j] = state[j] /\ trail'[j] = trail[j]
      BY <1>0, <1>3, <2>2 DEF CreateIncident, TypeOK
    <3> QED BY <1>0, <1>3, <3>1, SMTT(30)
  <2> QED BY <2>1, <2>2
<1>4. ASSUME NEW i \in Incident, NEW to \in {"acknowledged", "resolved"}, MovedTo(i, to),
             NEW j \in Incident, state'[j] # "none"
      PROVE  Leads(state'[j], trail'[j])
  <2>1. CASE j = i
    <3>1. /\ M!ValidTransition(state[j], to) /\ state[j] # "none"
          /\ state'[j] = to /\ trail'[j] = trail[j] \cup {<<state[j], to>>}
      BY <1>0, <1>4, <2>1 DEF MovedTo, Moved, Recorded, TypeOK, M!ValidTransition, M!State
    <3> HIDE DEF Leads
    <3> QED BY <1>0, <1>2, <3>1, SMTT(30)
  <2>2. CASE j # i
    <3>1. state'[j] = state[j] /\ trail'[j] = trail[j]
      BY <1>0, <1>4, <2>2 DEF MovedTo, Moved, TypeOK
    <3> QED BY <1>0, <1>4, <3>1, SMTT(30)
  <2> QED BY <2>1, <2>2
<1>5. ASSUME NEW e \in Event, NEW i \in Incident,
             UpdateIncident(e, i) \/ ReadIncident(i) \/ IncidentsLeftAlone
      PROVE  UNCHANGED <<state, trail>>
  BY <1>5 DEF UpdateIncident, ReadIncident, IncidentsLeftAlone, row
<1>6. ASSUME NEW i \in Incident, ReadIncident(i) PROVE UNCHANGED <<state, trail>>
  BY <1>6 DEF ReadIncident, row
<1>7. IncidentsLeftAlone => UNCHANGED <<state, trail>>
  BY DEF IncidentsLeftAlone, row
<1>8. ASSUME NEW j \in Incident, state'[j] # "none" PROVE Leads(state'[j], trail'[j])
  <2> HIDE DEF Leads
  <2> QED BY <1>0, <1>3, <1>4, <1>5, <1>6, <1>7, <1>8, StepKinds
<1> QED BY <1>8 DEF TrailLeadsToState

-----------------------------------------------------------------------------
\* Every step keeps the invariant.
LEMMA IncidentNext == IncidentInv /\ [Next]_vars => IncidentInv'
<1> SUFFICES ASSUME IncidentInv, [Next]_vars PROVE IncidentInv'
  OBVIOUS
<1>1. CASE Next
  BY <1>1, TypesNext, LinksNext, ViewsNext, ApartNext, SummaryNext, TrailNext DEF IncidentInv
<1>2. CASE UNCHANGED vars
  <2>1. UNCHANGED <<state, key, severity, lastEvent, version, link, duplicates, trail, token,
                    outbox, policies, view>>
    BY <1>2 DEF vars, row
  <2>2. TypeOK' /\ LinkInv' /\ ViewInv'
    BY <2>1 DEF IncidentInv, TypeOK, LinkInv, ViewInv
  <2>3. OpenIncidentsAreApart' /\ TrailLeadsToState'
    BY <2>1 DEF IncidentInv, OpenIncidentsAreApart, TrailLeadsToState
  <2>4. SummaryIsExact' /\ CurrentVersionIsCurrentView'
    BY <2>1, SMTT(30) DEF IncidentInv, SummaryIsExact, EventsOf, CurrentVersionIsCurrentView, ViewOf
  <2> QED BY <2>2, <2>3, <2>4 DEF IncidentInv
<1> QED BY <1>1, <1>2

\* The invariant holds in every reachable state.
THEOREM IncidentInvariant == Spec => []IncidentInv
BY IncidentInit, IncidentNext, PTL DEF Spec

\* Two open incidents of one correlation key are more than the correlation window apart.
THEOREM OpenApart == Spec => []OpenIncidentsAreApart
BY IncidentInvariant, PTL DEF IncidentInv

\* An incident is as severe as its worst event and as recent as its latest.
THEOREM SummaryExact == Spec => []SummaryIsExact
BY IncidentInvariant, PTL DEF IncidentInv

\* The version an operator sends back stands for what they read of the incident and its events,
\* all but the duplicates, of which there may be more by now.
THEOREM VersionIsView == Spec => []CurrentVersionIsCurrentView
BY IncidentInvariant, PTL DEF IncidentInv

\* The recorded transitions are valid and lead to the state of the incident.
THEOREM TrailLeads == Spec => []TrailLeadsToState
BY IncidentInvariant, PTL DEF IncidentInv

\* The refinement: events, operators and links move every incident along the table of
\* internal/incidents only.  The mapping is the identity on the state of the rows; a token
\* names an event whose incident exists, or a link could move a row that is not there.
THEOREM ImplementsIncidentStates == Spec => StateMachine
<1>1. Init => M!Init
  BY DEF Init, M!Init
<1>2. ASSUME IncidentInv, [Next]_vars PROVE [M!Next]_state
  <2>1. ASSUME NEW e \in Event, NEW i \in Incident, CreateIncident(e, i) PROVE M!Next
    BY <2>1 DEF CreateIncident, M!Next, M!Detect
  <2>2. ASSUME NEW i \in Incident, NEW to \in {"acknowledged", "resolved"}, MovedTo(i, to)
        PROVE  M!Next
    <3>1. to \in M!State
      BY DEF M!State
    <3>2. M!ValidTransition(state[i], to) /\ state' = [state EXCEPT ![i] = to]
      BY <2>2 DEF MovedTo, Moved
    <3> QED BY <3>1, <3>2 DEF M!Next, M!Move
  <2>3. ASSUME NEW e \in Event, NEW i \in Incident, UpdateIncident(e, i) PROVE UNCHANGED state
    BY <2>3 DEF UpdateIncident
  <2>4. ASSUME NEW i \in Incident, ReadIncident(i) PROVE UNCHANGED state
    BY <2>4 DEF ReadIncident, row
  <2>5. IncidentsLeftAlone \/ UNCHANGED vars => UNCHANGED state
    BY DEF IncidentsLeftAlone, vars, row
  <2> QED BY <1>2, <2>1, <2>2, <2>3, <2>4, <2>5, StepKinds
<1> QED BY <1>1, <1>2, IncidentInvariant, PTL DEF Spec, StateMachine, M!Spec
=============================================================================
