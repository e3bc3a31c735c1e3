--------------------------- MODULE PipelineProofs ---------------------------
(***************************************************************************)
(* Proofs about EventPipeline: one normalized event per signed request,    *)
(* no acknowledgement without a trace, and nothing lost but by the last    *)
(* delivery, for any requests, keys, capacities, delivery limits and       *)
(* numbers of repetitions, losses and restarts.                            *)
(***************************************************************************)
EXTENDS EventPipeline, TLAPS

\* Zenon is tried first, and a step it is not made for cites the SMT solver.  Both get more time
\* than by default: preparing the next step counts against it.
USE ZenonT(30), SMTT(30)

\* The stream holds at most one message of a signed request: while the request can still be
\* published, the broker remembers the id of the message it has.
StreamInv ==
    /\ \A m \in stored : m.req \in Signed =>
          MsgID(m) \in remembered \/ (m.req \in stale /\ ~InGateway(m.req))
    /\ \A m, n \in stored : m.req \in Signed /\ m.req = n.req => m = n

\* A row of normalized_events is determined by the message that made it.
CanonicalInv ==
    \A c \in canonical : /\ c.msg \in stored
                         /\ c.key = KeyOf[c.msg.req]
                         /\ c.bucket = c.msg.receivedAt

\* The goroutine of the last delivery is there until the message is settled.
LastInv ==
    \A m \in stored : delivered[m] = MaxDeliver =>
        Settled(m) \/ \E t \in tasks : t.msg = m /\ t.delivery = MaxDeliver

TaskInv ==
    \A t \in tasks : t.msg \in stored /\ (t.stage = "committed" => t.msg \in committed)

PipelineInv ==
    /\ TypeOK
    /\ StreamInv
    /\ CanonicalInv
    /\ TaskInv
    /\ LastInv
    /\ AckedIsHandled

-----------------------------------------------------------------------------
\* Everything starts empty.
LEMMA PipelineInit == Init => PipelineInv
<1> SUFFICES ASSUME Init PROVE PipelineInv
  OBVIOUS
<1>1. TypeOK
  <2>1. DOMAIN delivered = {}
    BY DEF Init
  <2> QED BY <2>1, PipelineAssumption, SMTT(30) DEF Init, TypeOK, Bucket
<1> QED BY <1>1 DEF Init, PipelineInv, StreamInv, CanonicalInv, TaskInv, LastInv, AckedIsHandled

-----------------------------------------------------------------------------
\* The steps that leave the stream's messages and the worker alone.
LEMMA QuietSteps ==
    ASSUME PipelineInv, TypeOK', StreamInv',
           UNCHANGED <<stored, delivered, acked, tasks, canonical, committed, dlq, lastHit>>
    PROVE  PipelineInv'
BY DEF PipelineInv, CanonicalInv, TaskInv, LastInv, AckedIsHandled, Settled

\* An attempt leaves the gateway without a message, or its timestamp ends.
LEMMA LeavingKeepsStream ==
    ASSUME StreamInv, UNCHANGED <<stored, remembered>>, stale \subseteq stale',
           received' \cup publishing' \subseteq received \cup publishing
    PROVE  StreamInv'
BY DEF StreamInv, InGateway, MsgID

\* A request that arrives is not stale, so the broker still knows its message, if it has one.
LEMMA ReceiveStep ==
    ASSUME PipelineInv, NEW r \in Request, ReceiveRequest(r)
    PROVE  PipelineInv'
<1> DEFINE a == [req |-> r, n |-> tries[r] + 1, receivedAt |-> clock]
<1>0. TypeOK /\ StreamInv
  BY DEF PipelineInv
<1>1. a \in Attempt /\ a.req = r
  BY <1>0, SMTT(30) DEF TypeOK, Attempt
<1>2. received' = received \cup {a}
  BY DEF ReceiveRequest
<1> HIDE DEF a
<1>3. /\ tries' \in [Request -> Nat]
      /\ replay' \subseteq Signed
      /\ received' \subseteq Attempt
  BY <1>0, <1>1, <1>2, SMTT(30) DEF ReceiveRequest, Reservations, TypeOK
<1>4. TypeOK'
  BY <1>0, <1>3 DEF ReceiveRequest, brokerVars, workerVars, TypeOK
<1>5. StreamInv'
  <2>1. UNCHANGED <<stored, remembered, stale, publishing>>
    BY DEF ReceiveRequest, brokerVars
  <2>2. \A s \in Request : s # r => InGateway(s)' = InGateway(s)
    BY <1>1, <1>2, <2>1 DEF InGateway
  <2>3. ASSUME NEW m \in stored, m.req \in Signed
        PROVE  MsgID(m) \in remembered \/ (m.req \in stale /\ ~InGateway(m.req)')
    <3>1. CASE m.req = r
      <4>1. r \notin stale
        BY <2>3, <3>1 DEF ReceiveRequest
      <4> QED BY <1>0, <2>3, <3>1, <4>1 DEF StreamInv
    <3>2. CASE m.req # r
      <4>1. m.req \in Request
        BY <2>3, PipelineAssumption
      <4> QED BY <1>0, <2>2, <2>3, <3>2, <4>1 DEF StreamInv
    <3> QED BY <3>1, <3>2
  <2> QED BY <1>0, <2>1, <2>3 DEF StreamInv, MsgID
<1>6. UNCHANGED <<stored, delivered, acked, tasks, canonical, committed, dlq, lastHit>>
  BY DEF ReceiveRequest, brokerVars, workerVars
<1> QED BY <1>4, <1>5, <1>6, QuietSteps

\* A message is stored only under an id the broker does not know.
LEMMA PublishStep ==
    ASSUME PipelineInv, NEW a \in received, PublishEvent(a)
    PROVE  PipelineInv'
<1>0. TypeOK /\ StreamInv /\ CanonicalInv /\ TaskInv /\ LastInv /\ AckedIsHandled
  BY DEF PipelineInv
<1>1. /\ a \in Attempt /\ a.req \in Request
      /\ received' = received \ {a} /\ publishing' = publishing \cup {a}
      /\ UNCHANGED <<clock, stale, tries, replay, out, acked, tasks, canonical, committed, dlq,
                     lastHit>>
  BY <1>0 DEF PublishEvent, TypeOK, Attempt, workerVars
<1>2. received' \cup publishing' \subseteq received \cup publishing
  BY <1>1
<1>3. CASE MsgID(a) \in remembered
  <2>1. UNCHANGED <<stored, remembered, delivered>>
    BY <1>3 DEF PublishEvent
  <2>2. StreamInv'
    BY <1>0, <1>1, <1>2, <2>1, LeavingKeepsStream
  <2>3. TypeOK'
    BY <1>0, <1>1, <2>1 DEF TypeOK
  <2> QED BY <1>1, <2>1, <2>2, <2>3, QuietSteps
<1>4. CASE MsgID(a) \notin remembered
  <2>1. /\ stored' = stored \cup {a}
        /\ remembered' = remembered \cup {MsgID(a)}
        /\ delivered' = [m \in stored' |-> IF m = a THEN 0 ELSE delivered[m]]
    BY <1>4 DEF PublishEvent
  <2>2. a.req \in Signed => \A m \in stored : m.req # a.req
    BY <1>0, <1>1, <1>4 DEF StreamInv, MsgID, InGateway
  <2>3. StreamInv'
    <3>1. \A m \in stored' : MsgID(m)' = MsgID(m)
      BY DEF MsgID
    <3>2. \A r \in Request : InGateway(r)' => InGateway(r)
      BY <1>2 DEF InGateway
    <3>3. ASSUME NEW m \in stored', m.req \in Signed
          PROVE  MsgID(m) \in remembered' \/ (m.req \in stale' /\ ~InGateway(m.req)')
      <4>1. m.req \in Request
        BY <3>3, PipelineAssumption
      <4> QED BY <1>0, <1>1, <2>1, <3>2, <3>3, <4>1 DEF StreamInv
    <3>4. \A m, n \in stored' : m.req \in Signed /\ m.req = n.req => m = n
      BY <1>0, <2>1, <2>2 DEF StreamInv
    <3> QED BY <3>1, <3>3, <3>4 DEF StreamInv
  <2>4. TypeOK'
    <3>1. /\ received' \subseteq Attempt /\ publishing' \subseteq Attempt
          /\ stored' \subseteq Attempt
          /\ remembered' \subseteq {KeyOf[r] : r \in Request}
      BY <1>0, <1>1, <2>1 DEF TypeOK, MsgID
    <3>2. DOMAIN delivered' = stored' /\ \A m \in stored' : delivered'[m] \in 0 .. MaxDeliver
      BY <1>0, <2>1, PipelineAssumption, SMTT(30) DEF TypeOK
    <3>3. out \subseteq stored' /\ acked \subseteq stored' /\ committed \subseteq stored'
          /\ dlq \subseteq stored' /\ lastHit \subseteq stored'
      BY <1>0, <2>1 DEF TypeOK
    <3> QED BY <1>0, <1>1, <3>1, <3>2, <3>3 DEF TypeOK
  <2>5. LastInv'
    <3>1. ASSUME NEW m \in stored', delivered'[m] = MaxDeliver
          PROVE  m \in stored /\ delivered[m] = MaxDeliver
      BY <2>1, <3>1, PipelineAssumption
    <3> QED BY <1>0, <1>1, <3>1 DEF LastInv, Settled
  <2> QED BY <1>0, <1>1, <2>1, <2>3, <2>4, <2>5
          DEF PipelineInv, CanonicalInv, TaskInv, AckedIsHandled
<1> QED BY <1>3, <1>4

-----------------------------------------------------------------------------
\* The consumer hands a message out, once more than before.
LEMMA DeliverStep ==
    ASSUME PipelineInv, NEW m \in stored, Deliver(m)
    PROVE  PipelineInv'
<1> DEFINE t == [msg |-> m, delivery |-> delivered[m] + 1, stage |-> "processing"]
<1>0. TypeOK /\ StreamInv /\ CanonicalInv /\ TaskInv /\ LastInv /\ AckedIsHandled
  BY DEF PipelineInv
<1>1. delivered[m] \in 0 .. MaxDeliver /\ delivered[m] < MaxDeliver
  BY <1>0 DEF TypeOK, Deliver
<1>2. delivered' = [delivered EXCEPT ![m] = @ + 1] /\ tasks' = tasks \cup {t} /\ out' = out \cup {m}
  BY DEF Deliver
<1>3. UNCHANGED <<clock, stale, tries, replay, received, publishing, stored, remembered, acked,
                  canonical, committed, dlq, lastHit>>
  BY DEF Deliver, gatewayVars
<1>4. t \in Task /\ t.msg = m /\ t.delivery = delivered[m] + 1 /\ t.stage = "processing"
  BY <1>0, <1>1, PipelineAssumption, SMTT(30) DEF TypeOK, Task
<1> HIDE DEF t
<1>5. DOMAIN delivered' = stored /\ \A n \in stored :
          delivered'[n] = IF n = m THEN delivered[m] + 1 ELSE delivered[n]
  BY <1>0, <1>2 DEF TypeOK
<1>6. TypeOK'
  <2>1. \A n \in stored' : delivered'[n] \in 0 .. MaxDeliver
    BY <1>0, <1>1, <1>3, <1>5, PipelineAssumption, SMTT(30) DEF TypeOK
  <2> QED BY <1>0, <1>2, <1>3, <1>4, <1>5, <2>1 DEF TypeOK
<1>7. StreamInv'
  BY <1>0, <1>3 DEF StreamInv, InGateway, MsgID
<1>8. LastInv'
  BY <1>0, <1>2, <1>3, <1>4, <1>5, SMTT(30) DEF LastInv, Settled
<1> QED BY <1>0, <1>2, <1>3, <1>4, <1>6, <1>7, <1>8
        DEF PipelineInv, CanonicalInv, TaskInv, AckedIsHandled

\* One goroutine goes on or ends: what it leaves behind keeps the claims about all of them.
LEMMA GoroutineStep ==
    ASSUME PipelineInv, NEW t \in tasks,
           UNCHANGED <<stored, delivered>>,
           committed \subseteq committed', dlq \subseteq dlq', lastHit \subseteq lastHit',
           tasks \ {t} \subseteq tasks',
           \A u \in tasks' :
               u \in tasks \/ (u.msg = t.msg /\ (u.stage = "committed" => t.msg \in committed')),
           t.delivery = MaxDeliver =>
               Settled(t.msg)' \/ \E u \in tasks' : u.msg = t.msg /\ u.delivery = MaxDeliver
    PROVE  TaskInv' /\ LastInv'
<1>0. TaskInv /\ LastInv
  BY DEF PipelineInv
<1>1. TaskInv'
  BY <1>0 DEF TaskInv
<1>2. ASSUME NEW m \in stored', delivered'[m] = MaxDeliver
      PROVE  Settled(m)' \/ \E u \in tasks' : u.msg = m /\ u.delivery = MaxDeliver
  <2>1. Settled(m) \/ \E u \in tasks : u.msg = m /\ u.delivery = MaxDeliver
    BY <1>0, <1>2 DEF LastInv
  <2>2. CASE Settled(m)
    BY <2>2 DEF Settled
  <2>3. CASE \E u \in tasks : u.msg = m /\ u.delivery = MaxDeliver
    <3>1. PICK u \in tasks : u.msg = m /\ u.delivery = MaxDeliver
      BY <2>3
    <3>2. CASE u = t
      BY <3>1, <3>2
    <3>3. CASE u # t
      BY <3>1, <3>3
    <3> QED BY <3>2, <3>3
  <2> QED BY <2>1, <2>2, <2>3
<1> QED BY <1>1, <1>2 DEF LastInv

\* What no step of a goroutine touches.
LEMMA StreamIsApart ==
    ASSUME StreamInv, UNCHANGED <<stored, remembered, stale, received, publishing>>
    PROVE  StreamInv'
BY DEF StreamInv, InGateway, MsgID

\* The transaction commits, whether or not the worker hears of it.
LEMMA ProcessStep ==
    ASSUME PipelineInv, NEW t \in tasks, NEW ok \in BOOLEAN, ProcessEvent(t, ok)
    PROVE  PipelineInv'
<1> DEFINE m == t.msg
           row == [key |-> KeyOf[m.req], bucket |-> DedupeBucket(m), msg |-> m]
           next == [t EXCEPT !.stage = IF ok THEN "committed" ELSE "failed"]
<1>0. TypeOK /\ StreamInv /\ CanonicalInv /\ TaskInv /\ LastInv /\ AckedIsHandled
  BY DEF PipelineInv
<1>1. t \in Task /\ m \in Attempt /\ m \in stored
  BY <1>0 DEF TypeOK, Task, TaskInv
<1>2. /\ canonical' \in {canonical, canonical \cup {row}}
      /\ committed' = committed \cup {m}
      /\ tasks' = (tasks \ {t}) \cup {next}
      /\ UNCHANGED <<clock, stale, tries, replay, received, publishing, stored, remembered,
                     delivered, out, acked, dlq, lastHit>>
  BY DEF ProcessEvent, gatewayVars, brokerVars
<1>3. row \in Canonical /\ row.msg = m /\ row.key = KeyOf[m.req] /\ row.bucket = m.receivedAt
  BY <1>1 DEF Canonical, Attempt, DedupeBucket
<1>4. next \in Task /\ next.msg = m /\ next.delivery = t.delivery
  BY <1>1 DEF Task
<1> HIDE DEF m, row, next
<1>5. TypeOK'
  BY <1>0, <1>1, <1>2, <1>3, <1>4 DEF TypeOK
<1>6. CanonicalInv'
  BY <1>0, <1>1, <1>2, <1>3 DEF CanonicalInv
<1>7. TaskInv' /\ LastInv'
  <2>1. \A u \in tasks' :
            u \in tasks \/ (u.msg = t.msg /\ (u.stage = "committed" => t.msg \in committed'))
    BY <1>2, <1>4 DEF m
  <2>2. t.delivery = MaxDeliver =>
            Settled(t.msg)' \/ \E u \in tasks' : u.msg = t.msg /\ u.delivery = MaxDeliver
    BY <1>2, <1>4 DEF m
  <2> QED BY <1>2, <2>1, <2>2, GoroutineStep
<1>8. StreamInv'
  BY <1>0, <1>2, StreamIsApart
<1> QED BY <1>0, <1>2, <1>5, <1>6, <1>7, <1>8 DEF PipelineInv, AckedIsHandled

\* The steps of a goroutine that leave the database alone.
LEMMA SettleSteps ==
    ASSUME PipelineInv, NEW t \in tasks,
           UNCHANGED <<clock, stale, tries, replay, received, publishing, stored, remembered,
                       delivered, canonical, committed>>,
           dlq' \in {dlq, dlq \cup {t.msg}}, lastHit' \in {lastHit, lastHit \cup {t.msg}},
           acked' \in {acked, acked \cup {t.msg}}, out' \in {out, out \ {t.msg}},
           tasks' \in {tasks \ {t}, (tasks \ {t}) \cup {[t EXCEPT !.stage = "dead"]}},
           t.msg \in acked' => t.msg \in acked \cup committed \cup dlq',
           t.delivery = MaxDeliver =>
               Settled(t.msg)' \/ tasks' = (tasks \ {t}) \cup {[t EXCEPT !.stage = "dead"]}
    PROVE  PipelineInv'
<1> DEFINE next == [t EXCEPT !.stage = "dead"]
<1>0. TypeOK /\ StreamInv /\ CanonicalInv /\ TaskInv /\ LastInv /\ AckedIsHandled
  BY DEF PipelineInv
<1>1. t \in Task /\ t.msg \in stored
  BY <1>0 DEF TypeOK, TaskInv
<1>2. next \in Task /\ next.msg = t.msg /\ next.delivery = t.delivery /\ next.stage = "dead"
  BY <1>1 DEF Task
<1>3. tasks' = tasks \ {t} \/ tasks' = (tasks \ {t}) \cup {next}
  OBVIOUS
<1>4. t.delivery = MaxDeliver => Settled(t.msg)' \/ tasks' = (tasks \ {t}) \cup {next}
  OBVIOUS
<1> HIDE DEF next
<1>5. TypeOK'
  BY <1>0, <1>1, <1>2, <1>3 DEF TypeOK
<1>6. TaskInv' /\ LastInv'
  <2>1. \A u \in tasks' :
            u \in tasks \/ (u.msg = t.msg /\ (u.stage = "committed" => t.msg \in committed'))
    BY <1>2, <1>3
  <2>2. t.delivery = MaxDeliver =>
            Settled(t.msg)' \/ \E u \in tasks' : u.msg = t.msg /\ u.delivery = MaxDeliver
    BY <1>2, <1>4
  <2> QED BY <1>3, <2>1, <2>2, GoroutineStep
<1>7. StreamInv'
  BY <1>0, StreamIsApart
<1>8. AckedIsHandled'
  BY <1>0 DEF AckedIsHandled
<1> QED BY <1>0, <1>5, <1>6, <1>7, <1>8 DEF PipelineInv, CanonicalInv

\* A goroutine acknowledges, fails, dead-letters or dies.
LEMMA EndSteps ==
    ASSUME PipelineInv, NEW t \in tasks,
           \/ FailMessage(t)
           \/ \E ok \in BOOLEAN : AckProcessed(t, ok) \/ PublishDLQ(t, ok)
           \/ CrashTask(t)
    PROVE  PipelineInv'
<1>0. TypeOK /\ TaskInv /\ t \in Task /\ t.delivery \in Nat
  BY DEF PipelineInv, TypeOK, Task
<1>1. CASE FailMessage(t)
  <2>1. t.delivery = MaxDeliver => tasks' = (tasks \ {t}) \cup {[t EXCEPT !.stage = "dead"]}
    BY <1>0, <1>1, PipelineAssumption, SMTT(30) DEF FailMessage, IsLastDelivery
  <2>2. t.msg \in acked' => t.msg \in acked
    BY <1>1 DEF FailMessage
  <2>3. UNCHANGED <<clock, stale, tries, replay, received, publishing, stored, remembered,
                    delivered, canonical, committed, acked, dlq, lastHit>>
    BY <1>1 DEF FailMessage, gatewayVars
  <2>4. /\ tasks' \in {tasks \ {t}, (tasks \ {t}) \cup {[t EXCEPT !.stage = "dead"]}}
        /\ out' \in {out, out \ {t.msg}}
    BY <1>1 DEF FailMessage
  <2> QED BY <2>1, <2>2, <2>3, <2>4, SettleSteps
<1>2. ASSUME NEW ok \in BOOLEAN, AckProcessed(t, ok)
      PROVE  PipelineInv'
  <2>1. t.msg \in committed
    BY <1>0, <1>2 DEF AckProcessed, TaskInv
  <2>2. UNCHANGED <<clock, stale, tries, replay, received, publishing, stored, remembered,
                    delivered, canonical, committed, dlq, lastHit>>
    BY <1>2 DEF AckProcessed, gatewayVars
  <2>3. /\ tasks' = tasks \ {t}
        /\ acked' \in {acked, acked \cup {t.msg}} /\ out' \in {out, out \ {t.msg}}
    BY <1>2 DEF AckProcessed
  <2>4. Settled(t.msg)'
    BY <2>1, <2>2 DEF Settled
  <2> QED BY <2>1, <2>2, <2>3, <2>4, SettleSteps
<1>3. ASSUME NEW ok \in BOOLEAN, PublishDLQ(t, ok)
      PROVE  PipelineInv'
  <2>1. UNCHANGED <<clock, stale, tries, replay, received, publishing, stored, remembered,
                    delivered, canonical, committed>>
    BY <1>3 DEF PublishDLQ, gatewayVars
  <2>2. /\ tasks' = tasks \ {t}
        /\ dlq' \in {dlq, dlq \cup {t.msg}} /\ lastHit' \in {lastHit, lastHit \cup {t.msg}}
        /\ acked' \in {acked, acked \cup {t.msg}} /\ out' \in {out, out \ {t.msg}}
    BY <1>3 DEF PublishDLQ
  <2>3. t.msg \in acked' => t.msg \in acked \cup dlq'
    BY <1>3 DEF PublishDLQ, AcksOriginal
  <2>4. Settled(t.msg)'
    BY <1>3 DEF PublishDLQ, Settled
  <2> QED BY <2>1, <2>2, <2>3, <2>4, SettleSteps
<1>4. CASE CrashTask(t)
  <2>1. UNCHANGED <<clock, stale, tries, replay, received, publishing, stored, remembered,
                    delivered, canonical, committed, acked, out, dlq>>
    BY <1>4 DEF CrashTask, gatewayVars, brokerVars
  <2>2. tasks' = tasks \ {t} /\ lastHit' \in {lastHit, lastHit \cup {t.msg}}
    BY <1>4 DEF CrashTask
  <2>3. t.delivery = MaxDeliver => Settled(t.msg)'
    BY <1>4 DEF CrashTask, Settled
  <2> QED BY <2>1, <2>2, <2>3, SettleSteps
<1> QED BY <1>1, <1>2, <1>3, <1>4

-----------------------------------------------------------------------------
\* The other steps of the gateway, and of time.
LEMMA GatewayAndTimeSteps ==
    ASSUME PipelineInv,
           \/ \E a \in received \cup publishing : AcceptRequest(a) \/ RefuseRequest(a)
           \/ RestartGateway
           \/ NextBucket
           \/ \E r \in Request : TimestampExpires(r) \/ ReservationExpires(r)
    PROVE  PipelineInv'
<1>0. TypeOK /\ StreamInv
  BY DEF PipelineInv
<1>1. /\ UNCHANGED <<stored, remembered, delivered, out, acked, tasks, canonical, committed, dlq,
                     lastHit, tries>>
      /\ received' \subseteq received /\ publishing' \subseteq publishing /\ replay' \subseteq replay
      /\ stale \subseteq stale' /\ stale' \subseteq Request
      /\ clock' \in Bucket
  <2>1. ASSUME NEW a \in received \cup publishing, AcceptRequest(a)
        PROVE  <1>1!:
    BY <1>0, <2>1 DEF TypeOK, AcceptRequest, Released, brokerVars, workerVars
  <2>2. ASSUME NEW a \in received \cup publishing, RefuseRequest(a)
        PROVE  <1>1!:
    BY <1>0, <2>2 DEF TypeOK, RefuseRequest, Released, brokerVars, workerVars
  <2>3. CASE RestartGateway
    BY <1>0, <2>3 DEF TypeOK, RestartGateway, brokerVars, workerVars
  <2>4. CASE NextBucket
    BY <1>0, <2>4, PipelineAssumption, SMTT(30)
       DEF TypeOK, NextBucket, Bucket, gatewayVars, brokerVars, workerVars
  <2>5. ASSUME NEW r \in Request, TimestampExpires(r)
        PROVE  <1>1!:
    BY <1>0, <2>5 DEF TypeOK, TimestampExpires, gatewayVars, brokerVars, workerVars
  <2>6. ASSUME NEW r \in Request, ReservationExpires(r)
        PROVE  <1>1!:
    BY <1>0, <2>6 DEF TypeOK, ReservationExpires, brokerVars, workerVars
  <2> QED BY <2>1, <2>2, <2>3, <2>4, <2>5, <2>6
<1>2. TypeOK'
  BY <1>0, <1>1 DEF TypeOK
<1>3. StreamInv'
  BY <1>0, <1>1, LeavingKeepsStream
<1> QED BY <1>1, <1>2, <1>3, QuietSteps

\* The broker forgets an id only when no attempt of a request with it can arrive any more.
LEMMA ForgetStep ==
    ASSUME PipelineInv, NEW k \in remembered, ForgetMsgID(k)
    PROVE  PipelineInv'
<1>0. TypeOK /\ StreamInv
  BY DEF PipelineInv
<1>1. /\ remembered' = remembered \ {k}
      /\ UNCHANGED <<clock, stale, tries, replay, received, publishing, stored, delivered, out,
                     acked, tasks, canonical, committed, dlq, lastHit>>
  BY DEF ForgetMsgID, gatewayVars, workerVars
<1>2. TypeOK'
  BY <1>0, <1>1 DEF TypeOK
<1>3. ASSUME NEW m \in stored, m.req \in Signed
      PROVE  MsgID(m) \in remembered' \/ (m.req \in stale /\ ~InGateway(m.req))
  <2>1. m.req \in Request
    BY <1>3, PipelineAssumption
  <2>2. CASE MsgID(m) = k
    BY <1>3, <2>1, <2>2 DEF ForgetMsgID, MsgID
  <2>3. CASE MsgID(m) # k
    BY <1>0, <1>1, <1>3, <2>3 DEF StreamInv
  <2> QED BY <2>2, <2>3
<1>4. StreamInv'
  BY <1>0, <1>1, <1>3 DEF StreamInv, InGateway, MsgID
<1> QED BY <1>1, <1>2, <1>4, QuietSteps

\* No step of the gateway, the broker or the worker breaks the invariant.
LEMMA PipelineNext == PipelineInv /\ [Next]_vars => PipelineInv'
<1> SUFFICES ASSUME PipelineInv, [Next]_vars PROVE PipelineInv'
  OBVIOUS
<1>1. CASE Gateway
  BY <1>1, ReceiveStep, PublishStep, GatewayAndTimeSteps DEF Gateway
<1>2. CASE Time
  BY <1>2, GatewayAndTimeSteps, ForgetStep DEF Time
<1>3. CASE Consumer
  <2>1. ASSUME NEW m \in stored, AckWaitExpires(m)
        PROVE  PipelineInv'
    <3>1. /\ out' \subseteq out
          /\ UNCHANGED <<clock, stale, tries, replay, received, publishing, stored, remembered,
                         delivered, acked, tasks, canonical, committed, dlq, lastHit>>
      BY <2>1 DEF AckWaitExpires, gatewayVars, workerVars
    <3>2. TypeOK' /\ StreamInv'
      BY <3>1, StreamIsApart DEF PipelineInv, TypeOK
    <3> QED BY <3>1, <3>2, QuietSteps
  <2> QED BY <1>3, <2>1, DeliverStep DEF Consumer
<1>4. ASSUME NEW t \in tasks, HandleMessage(t) \/ CrashTask(t)
      PROVE  PipelineInv'
  BY <1>4, ProcessStep, EndSteps DEF HandleMessage
<1>5. CASE UNCHANGED vars
  <2>1. UNCHANGED <<clock, stale, tries, replay, received, publishing, stored, remembered,
                    delivered, out, acked, tasks, canonical, committed, dlq, lastHit>>
    BY <1>5 DEF vars, gatewayVars, brokerVars, workerVars
  <2>2. TypeOK' /\ StreamInv'
    BY <2>1, StreamIsApart DEF PipelineInv, TypeOK
  <2> QED BY <2>1, <2>2, QuietSteps
<1> QED BY <1>1, <1>2, <1>3, <1>4, <1>5 DEF Next

\* The invariant holds in every reachable state of the pipeline.
THEOREM PipelineInvariant == Spec => []PipelineInv
BY PipelineInit, PipelineNext, PTL DEF Spec

-----------------------------------------------------------------------------
\* A signed request makes at most one normalized event, whatever is lost, repeated, redelivered
\* or restarted: Nats-Msg-Id, the replay window and the dedupe window together.
THEOREM OneEvent == Spec => []OneEventPerSignedRequest
<1>1. PipelineInv => OneEventPerSignedRequest
  <2> SUFFICES ASSUME PipelineInv, NEW c \in canonical, NEW d \in canonical,
                      c.msg.req = d.msg.req, c.msg.req \in Signed
               PROVE  c = d
    BY DEF OneEventPerSignedRequest
  <2>1. c \in Canonical /\ d \in Canonical
    BY DEF PipelineInv, TypeOK
  <2>2. c.msg = d.msg
    BY DEF PipelineInv, StreamInv, CanonicalInv
  <2>3. c.key = d.key /\ c.bucket = d.bucket
    BY <2>2 DEF PipelineInv, CanonicalInv
  <2> QED BY <2>1, <2>2, <2>3, SMTT(30) DEF Canonical
<1> QED BY <1>1, PipelineInvariant, PTL

\* The worker acknowledges nothing that is neither in the database nor on the DLQ.
THEOREM AckedHandled == Spec => []AckedIsHandled
BY PipelineInvariant, PTL DEF PipelineInv

\* A message whose deliveries are used up was committed or dead-lettered, or its last delivery
\* died or could not publish to the DLQ.
THEOREM LastDeliveryLoses == Spec => []OnlyTheLastDeliveryLoses
<1>1. PipelineInv => OnlyTheLastDeliveryLoses
  BY DEF PipelineInv, LastInv, OnlyTheLastDeliveryLoses, Exhausted
<1> QED BY <1>1, PipelineInvariant, PTL
=============================================================================
