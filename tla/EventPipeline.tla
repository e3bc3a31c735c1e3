---------------------------- MODULE EventPipeline ----------------------------
(***************************************************************************)
(* The way of an event: the gateway (Server.ingestWebhook and its replay   *)
(* cache), the JetStream stream with its durable consumer, the worker      *)
(* goroutines of Worker.handleMessage, and the commit of Store.ProcessEvent.*)
(*                                                                         *)
(* The stream and the consumer are not part of the repository: they are    *)
(* modelled from the configuration internal/messaging gives them (message  *)
(* ids remembered for Duplicates, explicit acks, AckWait, MaxDeliver).     *)
(*                                                                         *)
(* Time is counted in dedupe windows (timeBucket).  A request's timestamp, *)
(* a cache entry and a remembered message id end by steps of their own,    *)
(* in the order the default durations dictate: a timestamp is refused 5    *)
(* minutes after it, a reservation lives for 5 minutes from the arrival    *)
(* (so it may end before a timestamp that was ahead of the gateway), the   *)
(* broker remembers an id for 15 minutes, which covers a dedupe window and *)
(* any timestamp, and a request is in the gateway for seconds.             *)
(***************************************************************************)
EXTENDS Naturals, FiniteSets

CONSTANTS
    Request,      \* webhook requests; a sender may send the same one again
    KeyOf,        \* source id and events.DedupeKey of each request
    Signed,       \* requests of hmac-sha256 sources
    Ahead,        \* signed requests stamped by a clock ahead of the gateway's
    CacheMax,     \* capacity of the replay cache
    MaxDeliver,   \* EventMaxDeliveries, also the consumer's MaxDeliver
    MaxTries,     \* bound: times each request is sent
    MaxBucket     \* bound: dedupe windows that pass

ASSUME PipelineAssumption ==
    /\ IsFiniteSet(Request)
    /\ Signed \subseteq Request
    /\ Ahead \subseteq Signed
    /\ CacheMax \in Nat \ {0}
    /\ MaxDeliver \in Nat \ {0, 1}
    /\ MaxTries \in [Request -> Nat]
    /\ MaxBucket \in Nat

Bucket == 0 .. MaxBucket

\* One arrival of a request: the gateway stamps it, and the message it may publish carries
\* the stamp through every redelivery.
Attempt == [req : Request, n : Nat \ {0}, receivedAt : Bucket]

VARIABLES
    clock,        \* the current dedupe window
    stale,        \* requests whose timestamp is outside the replay window
    tries,        \* times each request was sent
    replay,       \* ReplayCache.seen: unexpired reservations
    received,     \* attempts in the gateway, not yet published
    publishing,   \* attempts whose message reached the broker, acknowledgement outstanding
    stored,       \* messages of the stream, each named by the attempt that published it
    remembered,   \* message ids in the broker's duplicate window
    delivered,    \* the consumer's delivery count of each message
    out,          \* messages delivered and awaiting an acknowledgement
    acked,        \* messages acknowledged
    tasks,        \* goroutines of handleMessage
    canonical,    \* normalized_events: key, window and the message that made the row
    committed,    \* messages whose transaction committed at least once
    dlq,          \* messages with a copy on <subject>.dlq
    lastHit       \* history: messages whose last delivery was lost to a crash or a failed DLQ publish

gatewayVars == <<tries, replay, received, publishing>>
brokerVars == <<stored, remembered, delivered, out, acked>>
workerVars == <<tasks, canonical, committed, dlq, lastHit>>
vars == <<clock, stale, gatewayVars, brokerVars, workerVars>>

Task == [msg : Attempt, delivery : Nat, stage : {"processing", "committed", "failed", "dead"}]

Canonical == [key : {KeyOf[r] : r \in Request}, bucket : Bucket, msg : Attempt]

TypeOK ==
    /\ clock \in Bucket
    /\ stale \subseteq Request
    /\ tries \in [Request -> Nat]
    /\ replay \subseteq Signed
    /\ received \subseteq Attempt
    /\ publishing \subseteq Attempt
    /\ stored \subseteq Attempt
    /\ remembered \subseteq {KeyOf[r] : r \in Request}
    /\ DOMAIN delivered = stored
    /\ \A m \in stored : delivered[m] \in 0 .. MaxDeliver
    /\ out \subseteq stored
    /\ acked \subseteq stored
    /\ tasks \subseteq Task
    /\ canonical \subseteq Canonical
    /\ committed \subseteq stored
    /\ dlq \subseteq stored
    /\ lastHit \subseteq stored

Init ==
    /\ clock = 0
    /\ stale = {}
    /\ tries = [r \in Request |-> 0]
    /\ replay = {}
    /\ received = {}
    /\ publishing = {}
    /\ stored = {}
    /\ remembered = {}
    /\ delivered = [m \in {} |-> 0]
    /\ out = {}
    /\ acked = {}
    /\ tasks = {}
    /\ canonical = {}
    /\ committed = {}
    /\ dlq = {}
    /\ lastHit = {}

InGateway(r) == \E a \in received \cup publishing : a.req = r

-----------------------------------------------------------------------------
(***************************************************************************)
(* The gateway.                                                            *)
(***************************************************************************)

\* ReplayCache.Reserve: no unexpired entry for the key, and room once expired ones are pruned.
Reserve(r) == r \notin replay /\ Cardinality(replay) < CacheMax

\* Only hmac-sha256 sources reserve.
Reservations(r) == IF r \in Signed THEN replay \cup {r} ELSE replay

\* Rejected attempts change nothing and are left out.
ReceiveRequest(r) ==
    /\ tries[r] < MaxTries[r]
    /\ r \in Signed => r \notin stale /\ Reserve(r)
    /\ tries' = [tries EXCEPT ![r] = @ + 1]
    /\ replay' = Reservations(r)
    /\ received' = received \cup {[req |-> r, n |-> tries[r] + 1, receivedAt |-> clock]}
    /\ UNCHANGED <<clock, stale, publishing, brokerVars, workerVars>>

\* The Nats-Msg-Id header.
MsgID(a) == KeyOf[a.req]

\* The message reaches the broker, which stores it unless it remembers its id.
PublishEvent(a) ==
    /\ a \in received
    /\ received' = received \ {a}
    /\ publishing' = publishing \cup {a}
    /\ IF MsgID(a) \in remembered
       THEN UNCHANGED <<stored, remembered, delivered>>
       ELSE /\ stored' = stored \cup {a}
            /\ remembered' = remembered \cup {MsgID(a)}
            /\ delivered' = [m \in stored' |-> IF m = a THEN 0 ELSE delivered[m]]
    /\ UNCHANGED <<clock, stale, tries, replay, out, acked, workerVars>>

\* The deferred ReplayCache.Release of a request that was not durably accepted.
Released(a, ok) == IF ok THEN replay ELSE replay \ {a.req}

\* 202: the broker's acknowledgement arrived.
AcceptRequest(a) ==
    /\ a \in publishing
    /\ publishing' = publishing \ {a}
    /\ replay' = Released(a, TRUE)
    /\ UNCHANGED <<clock, stale, tries, received, brokerVars, workerVars>>

\* The event is invalid, the publish fails, or its acknowledgement is lost or late: 4xx or 503.
RefuseRequest(a) ==
    /\ a \in received \cup publishing
    /\ received' = received \ {a}
    /\ publishing' = publishing \ {a}
    /\ replay' = Released(a, FALSE)
    /\ UNCHANGED <<clock, stale, tries, brokerVars, workerVars>>

\* The process dies: the replay cache lives in its memory.
RestartGateway ==
    /\ received \cup publishing # {} \/ replay # {}
    /\ received' = {}
    /\ publishing' = {}
    /\ replay' = {}
    /\ UNCHANGED <<clock, stale, tries, brokerVars, workerVars>>

-----------------------------------------------------------------------------
(***************************************************************************)
(* Time.                                                                   *)
(***************************************************************************)

NextBucket ==
    /\ clock < MaxBucket
    /\ clock' = clock + 1
    /\ UNCHANGED <<stale, gatewayVars, brokerVars, workerVars>>

TimestampExpires(r) ==
    /\ r \in Signed \ stale
    /\ stale' = stale \cup {r}
    /\ UNCHANGED <<clock, gatewayVars, brokerVars, workerVars>>

ReservationExpires(r) ==
    /\ r \in replay \cap (stale \cup Ahead)
    /\ ~InGateway(r)
    /\ replay' = replay \ {r}
    /\ UNCHANGED <<clock, stale, tries, received, publishing,
                   brokerVars, workerVars>>

\* The id leaves the duplicate window, which is at least a dedupe and a replay window long.
ForgetMsgID(k) ==
    /\ k \in remembered
    /\ \A r \in Request : KeyOf[r] = k => ~InGateway(r)
    /\ \A m \in stored : MsgID(m) = k =>
          m.receivedAt < clock /\ (m.req \in Signed => m.req \in stale)
    /\ remembered' = remembered \ {k}
    /\ UNCHANGED <<clock, stale, gatewayVars, stored, delivered, out, acked, workerVars>>

-----------------------------------------------------------------------------
(***************************************************************************)
(* The consumer and the worker.                                            *)
(***************************************************************************)

Deliver(m) ==
    /\ m \in stored \ (out \cup acked)
    /\ delivered[m] < MaxDeliver
    /\ delivered' = [delivered EXCEPT ![m] = @ + 1]
    /\ out' = out \cup {m}
    /\ tasks' = tasks \cup {[msg |-> m, delivery |-> delivered[m] + 1, stage |-> "processing"]}
    /\ UNCHANGED <<clock, stale, gatewayVars, stored, remembered, acked, canonical,
                   committed, dlq, lastHit>>

\* AckWait passes, whether the goroutine is gone or still busy.
AckWaitExpires(m) ==
    /\ m \in out
    /\ out' = out \ {m}
    /\ UNCHANGED <<clock, stale, gatewayVars, stored, remembered, delivered, acked, workerVars>>

\* Mutant: the window the event is processed in.
DedupeBucketNow(m) == clock

\* timeBucket of ReceivedAt
DedupeBucket(m) == m.receivedAt

\* ProcessEvent commits: the row is new, or the event is recorded as a duplicate of it.  The
\* commit may be reported as an error when the connection is lost.
ProcessEvent(t, reported) ==
    LET m == t.msg
        row == [key |-> KeyOf[m.req], bucket |-> DedupeBucket(m), msg |-> m]
        known == \E c \in canonical : c.key = row.key /\ c.bucket = row.bucket
    IN
    /\ t.stage = "processing"
    /\ canonical' = IF known THEN canonical ELSE canonical \cup {row}
    /\ committed' = committed \cup {m}
    /\ tasks' = (tasks \ {t}) \cup {[t EXCEPT !.stage = IF reported THEN "committed" ELSE "failed"]}
    /\ UNCHANGED <<clock, stale, gatewayVars, brokerVars, dlq, lastHit>>

\* AckSync, by whichever delivery; a lost one is the end of the goroutine all the same.
AckProcessed(t, ok) ==
    /\ t.stage = "committed"
    /\ tasks' = tasks \ {t}
    /\ acked' = IF ok THEN acked \cup {t.msg} ELSE acked
    /\ out' = IF ok THEN out \ {t.msg} ELSE out
    /\ UNCHANGED <<clock, stale, gatewayVars, stored, remembered, delivered, canonical,
                   committed, dlq, lastHit>>

\* Mutant: the limit is passed before the event is dead.
IsLastDeliveryAfter(t) == t.delivery > MaxDeliver

IsLastDelivery(t) == t.delivery >= MaxDeliver

\* failMessage: an undecodable message or an error of ProcessEvent.  The nak, which nobody
\* waits for, may be lost.
FailMessage(t) ==
    /\ t.stage \in {"processing", "failed"}
    /\ IF IsLastDelivery(t)
       THEN /\ tasks' = (tasks \ {t}) \cup {[t EXCEPT !.stage = "dead"]}
            /\ UNCHANGED out
       ELSE /\ tasks' = tasks \ {t}
            /\ out' \in {out, out \ {t.msg}}
    /\ UNCHANGED <<clock, stale, gatewayVars, stored, remembered, delivered, acked,
                   canonical, committed, dlq, lastHit>>

\* Mutant: the original is acknowledged whether or not its copy was published.
AcksOriginalAlways(ok) == TRUE

AcksOriginal(ok) == ok

\* PublishDLQ, then the acknowledgement of the original, which may be lost; or the nak, when
\* the publish or only its acknowledgement failed.
PublishDLQ(t, ok) ==
    /\ t.stage = "dead"
    /\ tasks' = tasks \ {t}
    /\ \/ dlq' = dlq \cup {t.msg}
       \/ ~ok /\ dlq' = dlq
    /\ lastHit' = IF ok THEN lastHit ELSE lastHit \cup {t.msg}
    /\ \/ AcksOriginal(ok) /\ acked' = acked \cup {t.msg} /\ out' = out \ {t.msg}
       \/ acked' = acked /\ out' \in {out, out \ {t.msg}}
    /\ UNCHANGED <<clock, stale, gatewayVars, stored, remembered, delivered, canonical,
                   committed>>

\* The worker dies with the goroutine in it.
CrashTask(t) ==
    /\ tasks' = tasks \ {t}
    /\ lastHit' = IF t.delivery = MaxDeliver THEN lastHit \cup {t.msg} ELSE lastHit
    /\ UNCHANGED <<clock, stale, gatewayVars, brokerVars, canonical, committed, dlq>>

-----------------------------------------------------------------------------
HandleMessage(t) ==
    \/ FailMessage(t)
    \/ \E ok \in BOOLEAN : ProcessEvent(t, ok) \/ AckProcessed(t, ok) \/ PublishDLQ(t, ok)

Gateway ==
    \/ \E r \in Request : ReceiveRequest(r)
    \/ \E a \in received : PublishEvent(a)
    \/ \E a \in publishing : AcceptRequest(a)
    \/ \E a \in received \cup publishing : RefuseRequest(a)
    \/ RestartGateway

Time ==
    \/ NextBucket
    \/ \E r \in Request : TimestampExpires(r) \/ ReservationExpires(r)
    \/ \E k \in remembered : ForgetMsgID(k)

Consumer == \E m \in stored : Deliver(m) \/ AckWaitExpires(m)

Next ==
    \/ Gateway
    \/ Time
    \/ Consumer
    \/ \E t \in tasks : HandleMessage(t) \/ CrashTask(t)

Spec == Init /\ [][Next]_vars

(***************************************************************************)
(* Fairness: the worker keeps fetching, AckWait passes, and a goroutine    *)
(* gets on, since every call it makes has a deadline.                      *)
(***************************************************************************)
Fairness ==
    /\ WF_vars(Consumer)
    /\ WF_vars(\E t \in tasks : HandleMessage(t))

FairSpec == Spec /\ Fairness

-----------------------------------------------------------------------------
(***************************************************************************)
(* Safety.                                                                 *)
(***************************************************************************)

\* However often publish acknowledgements, acks and naks are lost, the sender repeats a signed
\* request and the message is redelivered, in whatever dedupe window, at most one normalized
\* event comes from it.
OneEventPerSignedRequest ==
    \A c, d \in canonical : c.msg.req = d.msg.req /\ c.msg.req \in Signed => c = d

\* A message is acknowledged only after its transaction committed, or once it is on the
\* dead-letter subject, by whichever of its deliveries.
AckedIsHandled ==
    \A m \in acked : m \in committed \cup dlq

Exhausted(m) ==
    /\ delivered[m] = MaxDeliver
    /\ \A t \in tasks : t.msg # m

Settled(m) == m \in committed \cup dlq \cup lastHit

\* The only way to lose a message: its last delivery dies, or cannot publish to the DLQ.
OnlyTheLastDeliveryLoses ==
    \A m \in stored : Exhausted(m) => Settled(m)

-----------------------------------------------------------------------------
(***************************************************************************)
(* Liveness.                                                               *)
(***************************************************************************)

\* Every stored message is committed or dead-lettered, unless its last delivery was lost: again
\* and again there is a moment when that is so of all of them, and none ever leaves the stream.
MessagesSettle == []<>(\A m \in stored : Settled(m))

-----------------------------------------------------------------------------
(***************************************************************************)
(* What the documentation says and the code does not do.                   *)
(***************************************************************************)

\* docs/failure-testing.md: a confirmed message is not lost.  The consumer's MaxDeliver is the
\* worker's dead-letter threshold, so nothing is left to retry a failed last delivery.
ConfirmedMessagesAreKept ==
    \A m \in stored : Exhausted(m) => m \in committed \cup dlq
=============================================================================
