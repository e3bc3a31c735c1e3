------------------------------ MODULE Gateway ------------------------------
(***************************************************************************)
(* The handlers of the webhook endpoint of one server, with the limiter    *)
(* and the replay cache they share, the clock, and the stream they publish *)
(* to, composed with the start of the processes.  Stopping the server      *)
(* loses the limiter and the cache.                                        *)
(*                                                                         *)
(* A request stands for the signed bytes: whoever sends it again sends the *)
(* same time stamp and signature.  Two requests may have one message id.   *)
(***************************************************************************)
EXTENDS Startup, RateLimiter

CONSTANTS
    TheServer,          \* the server whose handlers are modelled
    Handler,            \* goroutines of the server
    Request,
    SourceOf,           \* request |-> its source
    Signed,             \* request |-> X-StormRelay-Timestamp, or Bearer when it is not signed
    MsgIDOf,            \* request |-> source id and dedupe key
    Bearer, Never, NoRequest,
    CacheMax,           \* capacity of the replay cache
    PublishTimeout,     \* how long a handler waits for the stream
    MaxDelay,           \* how long after that its message may still reach the stream
    Duplicates,         \* how long the stream remembers a message id
    MaxReceived,        \* bound: how often requests are sent
    MaxTime             \* bound: the clock

ASSUME GatewayAssumption ==
    /\ TheServer \in Server
    /\ SourceOf \in [Request -> Source]
    /\ Signed \in [Request -> Int \cup {Bearer}]
    /\ NoRequest \notin Request
    /\ Never \notin Int /\ Bearer \notin Int
    /\ PublishTimeout \in Nat /\ MaxDelay \in Nat /\ Duplicates \in Nat
    /\ \A e \in Environment : LoadAccepts(e) => Parsed(e).replayWindow \in Nat

VARIABLES
    clock,
    handlers,           \* handler |-> the request it serves, how far it is and a time
    seen,               \* the replay cache: request |-> when its reservation expires, or Never
    accepted,           \* history: requests this process answered 202 in the last window, and
                        \*   when they were reserved
    late,               \* messages given up by their handler that may still arrive
    rememberedAt,       \* the stream: message id |-> when it was stored, or Never once forgotten
    received,           \* how often a request was sent
    copies              \* history: request |-> how many messages it has in the stream

handlerVars == <<clock, handlers, seen, accepted, late, rememberedAt, copies, received>>
vars == <<startupVars, limiterVars, handlerVars>>

MsgID == {MsgIDOf[r] : r \in Request}
Idle == [stage |-> "idle", request |-> NoRequest, at |-> 0]

Init ==
    /\ StartupInit
    /\ LimiterInit
    /\ clock \in 0 .. MaxTime
    /\ handlers = [h \in Handler |-> Idle]
    /\ seen = [r \in Request |-> Never]
    /\ accepted = {}
    /\ late = {}
    /\ rememberedAt = [i \in MsgID |-> Never]
    /\ copies = [r \in Request |-> 0]
    /\ received \in 0 .. MaxReceived

-----------------------------------------------------------------------------
ReplayWindow == config[TheServer].replayWindow

Becomes(h, s, at) == handlers' = [handlers EXCEPT ![h].stage = s, ![h].at = at]
Answer(h) == handlers' = [handlers EXCEPT ![h] = Idle]

\* The source is found and enabled, and time.Now() is evaluated for the limiter.
Receive(h, r) ==
    /\ stage[TheServer] = "serving"
    /\ handlers[h] = Idle
    /\ received < MaxReceived
    /\ received' = received + 1
    /\ handlers' = [handlers EXCEPT ![h] = [stage |-> "stamped", request |-> r, at |-> clock]]
    /\ UNCHANGED <<clock, seen, accepted, late, rememberedAt, copies, startupVars, limiterVars>>

\* Allow, with the stamp taken before.
Limit(h) ==
    LET s == SourceOf[handlers[h].request]
        now == handlers[h].at
    IN /\ handlers[h].stage = "stamped"
       /\ Allow(s, now)
       /\ IF Admits(s, now) THEN Becomes(h, "admitted", now) ELSE Answer(h)
       /\ UNCHANGED <<clock, seen, accepted, late, rememberedAt, copies, received, startupVars>>

\* Mutant: only old stamps are refused.
VerifiesAge(r) == Signed[r] # Bearer => clock - Signed[r] <= ReplayWindow

\* Verify: the stamp of a signed request is at most the window away, before or after.
Verifies(r) ==
    Signed[r] # Bearer =>
        clock - Signed[r] <= ReplayWindow /\ Signed[r] - clock <= ReplayWindow

Active(r) == seen[r] # Never /\ seen[r] > clock
Entries == {r \in Request : seen[r] # Never}

\* Mutant: at capacity, the cache is emptied.
PrunedAtAnyAge ==
    IF Cardinality(Entries) < CacheMax THEN seen ELSE [r \in Request |-> Never]

\* What Reserve keeps: at capacity, the expired entries go.
Pruned ==
    IF Cardinality(Entries) < CacheMax THEN seen
    ELSE [r \in Request |-> IF Active(r) THEN seen[r] ELSE Never]

HasRoom == Cardinality({r \in Request : Pruned[r] # Never}) < CacheMax

\* Reserve a request that has no active reservation.
Reserve(r) ==
    /\ ~Active(r)
    /\ HasRoom
    /\ seen' = [Pruned EXCEPT ![r] = clock + ReplayWindow]

\* The body is read, verified and, when it is signed, reserved.
Verify(h) ==
    LET r == handlers[h].request
    IN /\ handlers[h].stage = "admitted"
       /\ Verifies(r)
       /\ IF Signed[r] = Bearer THEN UNCHANGED seen ELSE Reserve(r)
       /\ Becomes(h, "reserved", clock)
       /\ UNCHANGED <<clock, accepted, late, rememberedAt, copies, received, startupVars, limiterVars>>

\* The body is too long, the request is not genuine, out of its window or already reserved,
\* or the cache is full, even without its expired entries.
Reject(h) ==
    LET r == handlers[h].request
    IN /\ handlers[h].stage = "admitted"
       /\ \/ UNCHANGED seen
          \/ Verifies(r) /\ Signed[r] # Bearer /\ ~Active(r) /\ ~HasRoom /\ seen' = Pruned
       /\ Answer(h)
       /\ UNCHANGED <<clock, accepted, late, rememberedAt, copies, received, startupVars, limiterVars>>

\* The stream receives the message of r: it drops an id it remembers.
Arrive(r) ==
    LET id == MsgIDOf[r]
    IN IF rememberedAt[id] # Never
       THEN UNCHANGED <<rememberedAt, copies>>
       ELSE /\ rememberedAt' = [rememberedAt EXCEPT ![id] = clock]
            /\ copies' = [copies EXCEPT ![r] = @ + 1]

\* The message is normalised, sent and received.
Publish(h) ==
    /\ handlers[h].stage = "reserved"
    /\ Arrive(handlers[h].request)
    /\ Becomes(h, "published", handlers[h].at)
    /\ UNCHANGED <<clock, seen, accepted, late, received, startupVars, limiterVars>>

\* The acknowledgement comes in time, and the reservation stays.
Accept(h) ==
    /\ handlers[h].stage = "published"
    /\ accepted' = accepted \cup {[request |-> handlers[h].request, at |-> handlers[h].at]}
    /\ Answer(h)
    /\ UNCHANGED <<clock, seen, late, rememberedAt, copies, received, startupVars, limiterVars>>

UnderWay(h) == [request |-> handlers[h].request, until |-> clock + MaxDelay]

\* The event is refused, or its acknowledgement does not come in time: the reservation is
\* released.  A message that was sent may still be on its way.
Release(h) ==
    LET r == handlers[h].request
    IN /\ handlers[h].stage \in {"reserved", "published"}
       /\ seen' = IF Signed[r] = Bearer THEN seen ELSE [seen EXCEPT ![r] = Never]
       /\ \/ UNCHANGED late
          \/ handlers[h].stage = "reserved" /\ late' = late \cup {UnderWay(h)}
       /\ Answer(h)
       /\ UNCHANGED <<clock, accepted, rememberedAt, copies, received, startupVars, limiterVars>>

\* A message arrives after its handler has given up, or never.
ArriveLate(m) ==
    /\ late' = late \ {m}
    /\ Arrive(m.request)
    /\ UNCHANGED <<clock, handlers, seen, accepted, received, startupVars, limiterVars>>

Vanish(m) ==
    /\ late' = late \ {m}
    /\ UNCHANGED <<clock, handlers, seen, accepted, rememberedAt, copies, received, startupVars, limiterVars>>

Remembers(i, now) == rememberedAt[i] # Never /\ now < rememberedAt[i] + Duplicates

\* Time passes, but not past the deadline of a handler or of a message.  Nothing in the start
\* of a process reads the clock, and a start takes no time.
Tick ==
    /\ clock < MaxTime
    /\ \A p \in Process : stage[p] \in {"down", "serving"}
    /\ \A h \in Handler :
         handlers[h].stage \in {"reserved", "published"} => clock < handlers[h].at + PublishTimeout
    /\ \A m \in late : clock < m.until
    /\ clock' = clock + 1
    /\ accepted' = {a \in accepted : clock' < a.at + ReplayWindow}
    /\ rememberedAt' = [i \in MsgID |-> IF Remembers(i, clock') THEN rememberedAt[i] ELSE Never]
    /\ UNCHANGED <<handlers, seen, late, copies, received, startupVars, limiterVars>>

\* A process stops; with the server go its handlers, its cache and its limiters.
Stop(p) ==
    /\ Die(p)
    /\ IF p = TheServer
       THEN /\ handlers' = [h \in Handler |-> Idle]
            /\ seen' = [r \in Request |-> Never]
            /\ accepted' = {}
            /\ \E sent \in SUBSET {h \in Handler : handlers[h].stage = "reserved"} :
                 late' = late \cup {UnderWay(h) : h \in sent}
            /\ ForgetBuckets
       ELSE UNCHANGED <<handlers, seen, accepted, late, limiterVars>>
    /\ UNCHANGED <<clock, rememberedAt, copies, received>>

Starting(p) == (Load(p) \/ StartupStep(p)) /\ UNCHANGED <<limiterVars, handlerVars>>

Handling(h) ==
    \/ \E r \in Request : Receive(h, r)
    \/ Limit(h) \/ Verify(h) \/ Reject(h) \/ Publish(h) \/ Accept(h) \/ Release(h)

Next ==
    \/ \E p \in Process : Starting(p) \/ Stop(p)
    \/ \E h \in Handler : Handling(h)
    \/ \E m \in late : ArriveLate(m) \/ Vanish(m)
    \/ Tick

Spec == Init /\ [][Next]_vars

\* A process that runs takes its next step of starting.
Fairness ==
    \A p \in Process : WF_vars(StartupStep(p) /\ UNCHANGED <<limiterVars, handlerVars>>)

-----------------------------------------------------------------------------
\* A request that the server accepted is refused for a whole replay window after it was
\* reserved, whatever other requests fill the cache or fail, provided that the window is
\* longer than a handler waits for the stream: release does not ask whose reservation it
\* removes.
AcceptedIsRemembered ==
    \A a \in accepted :
        /\ Signed[a.request] # Bearer
        /\ ReplayWindow > PublishTimeout
        => Active(a.request)

Fits(window) == 2 * window + PublishTimeout + MaxDelay < Duplicates
WindowsFit == \A e \in Environment : LoadAccepts(e) => Fits(Parsed(e).replayWindow)

\* A signed request is in the stream once, however often it is sent, to whatever process and
\* with whatever acknowledgements lost, provided that the windows on both sides of its stamp
\* and the time its message may be under way are together less than the stream remembers.
StoredOnce ==
    \A r \in Request :
        Signed[r] # Bearer /\ WindowsFit => copies[r] <= 1
=============================================================================
