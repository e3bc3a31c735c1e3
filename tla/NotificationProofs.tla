------------------------- MODULE NotificationProofs -------------------------
(***************************************************************************)
(* Proofs about NotificationDelivery: who holds an external notification,  *)
(* how often it is sent, and that a delivered one stays delivered, for any *)
(* number of rows, workers, crashes, expired leases and lost reports.      *)
(***************************************************************************)
EXTENDS NotificationDelivery, TLAPS

\* Zenon is tried first, and a step it is not made for cites the SMT solver.  Both get more time
\* than by default: preparing the next step counts against it.
USE ZenonT(30), SMTT(30)

Held(d) == \E w \in Worker : d \in batch[w] \cup outcome[w].row

Waiting(d) == \E w \in Worker : d \in batch[w]

\* The inductive invariant.  A row in somebody's hands is being delivered or was parked as
\* ambiguous under their feet, so nobody claims it; a row that can be claimed has attempts
\* left; and a row that waits in a batch has an attempt that is not yet a send.
RowInv(d) ==
    /\ \A v, w \in Worker :
          d \in batch[v] \cup outcome[v].row /\ d \in batch[w] \cup outcome[w].row => v = w
    /\ Held(d) => status[d] \in {"delivering", "ambiguous"}
    /\ status[d] \in {"none", "pending"} => attempt[d] = 0
    /\ status[d] = "failed" => attempt[d] < MaxAttempts
    /\ attempt[d] <= MaxAttempts
    /\ sends[d] <= attempt[d]
    /\ Waiting(d) => sends[d] < attempt[d]

\* The row whose provider call is over is no longer in the batch.
HandInv(w) ==
    /\ outcome[w].row \cap batch[w] = {}
    /\ outcome[w] = NoOutcome \/ \E d \in Delivery : outcome[w].row = {d}

DeliveryInv ==
    /\ TypeOK
    /\ \A w \in Worker : HandInv(w)
    /\ \A d \in External : RowInv(d)

-----------------------------------------------------------------------------
\* Nothing is in anybody's hands before the first row is inserted.
LEMMA DeliveryInit == Init => DeliveryInv
BY DeliveryAssumption, SMTT(30)
   DEF Init, DeliveryInv, TypeOK, HandInv, RowInv, Held, Waiting, NoOutcome, Outcome, Status,
       External

\* What a claim knows of an external row it takes: the row was pending or failed.
LEMMA ClaimedIsFree ==
    ASSUME TypeOK, NEW d \in External, Recovered[d] \in {"pending", "failed"}
    PROVE  status[d] \in {"pending", "failed"}
BY DEF TypeOK, Recovered, StatusOfExpired, Expired, External

-----------------------------------------------------------------------------
\* A new row, and the end of a lease.
LEMMA TableSteps ==
    ASSUME DeliveryInv, NEW e \in Delivery, EnqueueNotification(e) \/ LeaseEnds(e)
    PROVE  DeliveryInv'
<1> USE DEF DeliveryInv
<1>1. TypeOK'
  BY DEF TypeOK, EnqueueNotification, LeaseEnds, Status
<1>2. ASSUME NEW w \in Worker PROVE HandInv(w)'
  BY <1>2 DEF HandInv, EnqueueNotification, LeaseEnds
<1>3. ASSUME NEW d \in External PROVE RowInv(d)'
  <2>1. /\ batch' = batch /\ outcome' = outcome /\ attempt' = attempt /\ sends' = sends
        /\ status'[d] = status[d] \/ (status[d] = "none" /\ status'[d] = "pending")
    BY <1>3 DEF TypeOK, EnqueueNotification, LeaseEnds, External
  <2> QED BY <1>3, <2>1 DEF RowInv, Held, Waiting
<1> QED BY <1>1, <1>2, <1>3

\* A claim takes only rows that nobody holds and that have attempts left.
LEMMA ClaimStep ==
    ASSUME DeliveryInv, NEW u \in Worker, ClaimDeliveries(u)
    PROVE  DeliveryInv'
<1> USE DeliveryAssumption DEF DeliveryInv
<1>1. PICK claimed \in SUBSET {d \in Delivery : Recovered[d] \in {"pending", "failed"}} :
         /\ status' = [d \in Delivery |-> IF d \in claimed THEN "delivering" ELSE Recovered[d]]
         /\ attempt' = [d \in Delivery |-> IF d \in claimed THEN attempt[d] + 1 ELSE attempt[d]]
         /\ leaseOver' = leaseOver \ (Expired \cup claimed)
         /\ batch' = [batch EXCEPT ![u] = claimed]
  BY DEF ClaimDeliveries
<1>2. batch[u] = {} /\ outcome[u] = NoOutcome /\ outcome' = outcome /\ sends' = sends
  BY DEF ClaimDeliveries
<1>3. TypeOK'
  <2>1. \A d \in Delivery : Recovered[d] \in Status
    BY DEF TypeOK, Recovered, StatusOfExpired, Status
  <2> QED BY <1>1, <1>2, <2>1, SMTT(30) DEF TypeOK, Status
<1>4. ASSUME NEW w \in Worker PROVE HandInv(w)'
  BY <1>1, <1>2, <1>4, SMTT(30) DEF HandInv, TypeOK, NoOutcome
<1>5. ASSUME NEW d \in External PROVE RowInv(d)'
  <2>0. d \in Delivery /\ attempt[d] \in Nat /\ sends[d] \in Nat /\ status[d] \in Status
    BY <1>5 DEF TypeOK, External
  <2>1. CASE d \in claimed
    <3>1. status[d] \in {"pending", "failed"}
      BY <1>1, <1>5, <2>1, ClaimedIsFree
    <3>2. ~Held(d)
      BY <1>5, <3>1 DEF RowInv
    <3>3. /\ \A w \in Worker : outcome'[w].row = outcome[w].row
          /\ \A w \in Worker : w # u => batch'[w] = batch[w]
          /\ batch'[u] = claimed
      BY <1>1, <1>2 DEF TypeOK
    <3>4. \A w \in Worker : d \in (batch'[w] \cup outcome'[w].row) => w = u
      BY <3>2, <3>3 DEF Held
    <3>5. attempt[d] < MaxAttempts /\ attempt'[d] = attempt[d] + 1 /\ status'[d] = "delivering"
      BY <1>1, <1>5, <2>0, <2>1, <3>1, SMTT(30) DEF RowInv
    <3>6. sends'[d] = sends[d] /\ sends[d] <= attempt[d]
      BY <1>2, <1>5 DEF RowInv
    <3> QED BY <2>0, <3>4, <3>5, <3>6, SMTT(30) DEF RowInv
  <2>2. CASE d \notin claimed
    <3>1. \A w \in Worker : /\ outcome'[w].row = outcome[w].row
                            /\ d \in batch'[w] <=> d \in batch[w]
      BY <1>1, <1>2, <2>2 DEF TypeOK
    <3>2. /\ status'[d] = status[d] \/ (status[d] = "delivering" /\ status'[d] = "ambiguous")
          /\ attempt'[d] = attempt[d] /\ sends'[d] = sends[d]
      BY <1>1, <1>2, <1>5, <2>0, <2>2 DEF Recovered, Expired, StatusOfExpired, External
    <3> QED BY <1>5, <2>0, <3>1, <3>2 DEF RowInv, Held, Waiting
  <2> QED BY <2>1, <2>2
<1> QED BY <1>3, <1>4, <1>5

\* The provider call: the row passes from the batch to the outcome and the send is counted.
LEMMA DeliverStep ==
    ASSUME DeliveryInv, NEW u \in Worker, DeliverNext(u)
    PROVE  DeliveryInv'
<1> USE DEF DeliveryInv
<1>1. PICK e \in Delivery, arrives \in BOOLEAN, answered \in BOOLEAN :
         Deliver(u, e, arrives, answered)
  BY DEF DeliverNext
<1>2. /\ e \in batch[u] /\ outcome[u] = NoOutcome
      /\ batch' = [batch EXCEPT ![u] = batch[u] \ {e}]
      /\ status' = status /\ attempt' = attempt /\ leaseOver' = leaseOver
  BY <1>1 DEF Deliver
<1>3. PICK ok \in BOOLEAN : outcome' = [outcome EXCEPT ![u] = [row |-> {e}, ok |-> ok]]
  BY <1>1 DEF Deliver, Reported
<1>4. /\ sends' \in [Delivery -> Nat]
      /\ \A d \in Delivery : d # e => sends'[d] = sends[d]
      /\ sends'[e] <= sends[e] + 1
  BY <1>1, SMTT(30) DEF Deliver, TypeOK
<1>5. TypeOK'
  BY <1>2, <1>3, <1>4 DEF TypeOK, Outcome
<1>6. ASSUME NEW w \in Worker PROVE HandInv(w)'
  <2>1. CASE w = u
    BY <1>2, <1>3, <2>1 DEF HandInv, TypeOK
  <2>2. CASE w # u
    BY <1>2, <1>3, <1>6, <2>2 DEF HandInv, TypeOK
  <2> QED BY <2>1, <2>2
<1>7. ASSUME NEW d \in External PROVE RowInv(d)'
  <2>0. d \in Delivery /\ attempt[d] \in Nat /\ sends[d] \in Nat /\ sends'[d] \in Nat
    BY <1>4, <1>7 DEF TypeOK, External
  <2>1. \A w \in Worker : d \in (batch'[w] \cup outcome'[w].row) =>
                          d \in (batch[w] \cup outcome[w].row)
    BY <1>2, <1>3 DEF TypeOK
  <2>2. \A w \in Worker : d \in batch'[w] => d \in batch[w] /\ (w = u => d # e)
    BY <1>2 DEF TypeOK
  <2>3. CASE d = e
    <3>1. ~ Waiting(d)'
      BY <1>2, <1>7, <2>2, <2>3 DEF RowInv, Waiting
    <3>2. sends[d] < attempt[d] /\ sends'[d] <= sends[d] + 1
      BY <1>2, <1>4, <1>7, <2>3 DEF RowInv, Waiting
    <3> QED BY <1>2, <1>7, <2>0, <2>1, <3>1, <3>2, SMTT(30) DEF RowInv, Held
  <2>4. CASE d # e
    BY <1>2, <1>4, <1>7, <2>0, <2>1, <2>2, <2>4 DEF RowInv, Held, Waiting
  <2> QED BY <2>3, <2>4
<1> QED BY <1>5, <1>6, <1>7

\* A report: the row leaves the hands of the only worker that had it.
LEMMA CompleteStep ==
    ASSUME DeliveryInv, NEW u \in Worker, CompleteDelivery(u)
    PROVE  DeliveryInv'
<1> USE DEF DeliveryInv
<1>1. PICK e \in outcome[u].row :
        /\ status' = [status EXCEPT ![e] =
                         IF outcome[u].ok THEN "delivered" ELSE StatusOfFailure(e)]
        /\ leaseOver' = leaseOver \ {e}
        /\ outcome' = [outcome EXCEPT ![u] = NoOutcome]
        /\ attempt' = attempt /\ batch' = batch /\ sends' = sends
  BY DEF CompleteDelivery
<1>2. e \in Delivery /\ e \notin batch[u] /\ outcome[u].row = {e}
  BY <1>1, SMTT(30) DEF HandInv, TypeOK, Outcome, NoOutcome
<1>3. TypeOK'
  BY <1>1, <1>2 DEF TypeOK, Status, Outcome, NoOutcome, StatusOfFailure
<1>4. ASSUME NEW w \in Worker PROVE HandInv(w)'
  BY <1>1, <1>4 DEF HandInv, TypeOK, NoOutcome
<1>5. ASSUME NEW d \in External PROVE RowInv(d)'
  <2>0. d \in Delivery /\ attempt[d] \in Nat
    BY <1>5 DEF TypeOK, External
  <2>1. \A w \in Worker : d \in (batch'[w] \cup outcome'[w].row) =>
                          d \in (batch[w] \cup outcome[w].row) /\ (w = u => d # e)
    BY <1>1, <1>2 DEF TypeOK, NoOutcome
  <2>2. CASE d = e
    <3>1. ~ Held(d)'
      BY <1>1, <1>5, <2>1, <2>2 DEF RowInv, Held
    <3>2. status'[d] \in {"delivered", "failed", "ambiguous"}
          /\ (status'[d] = "failed" => attempt[d] < MaxAttempts)
      BY <1>1, <1>2, <2>0, <2>2, DeliveryAssumption, SMTT(30) DEF StatusOfFailure, TypeOK
    <3> QED BY <1>1, <1>5, <2>1, <3>1, <3>2 DEF RowInv, Held, Waiting
  <2>3. CASE d # e
    <3>1. status'[d] = status[d]
      BY <1>1, <2>0, <2>3 DEF TypeOK
    <3> QED BY <1>1, <1>5, <2>1, <3>1 DEF RowInv, Held, Waiting
  <2> QED BY <2>2, <2>3
<1> QED BY <1>3, <1>4, <1>5

\* A lost report and a crash only take rows out of somebody's hands.
LEMMA LossStep ==
    ASSUME DeliveryInv, NEW u \in Worker, CompleteFails(u) \/ Crash(u)
    PROVE  DeliveryInv'
<1> USE DEF DeliveryInv
<1>1. /\ status' = status /\ attempt' = attempt /\ leaseOver' = leaseOver /\ sends' = sends
      /\ outcome' = [outcome EXCEPT ![u] = NoOutcome]
      /\ batch' = batch \/ batch' = [batch EXCEPT ![u] = {}]
  BY DEF CompleteFails, Crash
<1>2. TypeOK'
  BY <1>1 DEF TypeOK, Outcome, NoOutcome
<1>3. \A w \in Worker : /\ batch'[w] \subseteq batch[w]
                        /\ outcome'[w] \in {outcome[w], NoOutcome}
                        /\ outcome'[w].row \subseteq outcome[w].row
  BY <1>1 DEF TypeOK, NoOutcome
<1>4. ASSUME NEW w \in Worker PROVE HandInv(w)'
  BY <1>3, <1>4 DEF HandInv
<1>5. ASSUME NEW d \in External PROVE RowInv(d)'
  BY <1>1, <1>3, <1>5 DEF RowInv, Held, Waiting
<1> QED BY <1>2, <1>4, <1>5

\* Every step keeps the invariant.
LEMMA DeliveryNext == DeliveryInv /\ [Next]_vars => DeliveryInv'
<1> SUFFICES ASSUME DeliveryInv, [Next]_vars PROVE DeliveryInv'
  OBVIOUS
<1>1. CASE UNCHANGED vars
  BY <1>1 DEF vars, DeliveryInv, TypeOK, HandInv, RowInv, Held, Waiting
<1>2. CASE Next
  BY <1>2, TableSteps, ClaimStep, DeliverStep, CompleteStep, LossStep DEF Next
<1> QED BY <1>1, <1>2

\* The invariant holds in every reachable state of the delivery loops.
THEOREM DeliveryInvariant == Spec => []DeliveryInv
BY DeliveryInit, DeliveryNext, PTL DEF Spec

-----------------------------------------------------------------------------
\* However leases end, workers crash and reports are lost or late, an external notification
\* is in the hands of at most one worker.
THEOREM ExternalExclusive == Spec => []ExternalIsExclusive
<1>1. DeliveryInv => ExternalIsExclusive
  BY DEF DeliveryInv, RowInv, ExternalIsExclusive, Holders
<1> QED BY <1>1, DeliveryInvariant, PTL

\* The provider is called at most MaxAttempts times for an external notification.
THEOREM SendsBounded == Spec => []SendsAreBounded
<1>1. DeliveryInv => SendsAreBounded
  BY DEF DeliveryInv, RowInv, SendsAreBounded
<1> QED BY <1>1, DeliveryInvariant, PTL

\* CompleteDelivery finds its row by id only, and still no late or duplicate report takes a
\* delivered external notification back: a delivered row is in nobody's hands.
THEOREM DeliveredIsFinal == Spec => DeliveredStays
<1>1. ASSUME DeliveryInv, Next, NEW d \in External, status[d] = "delivered"
      PROVE  status'[d] = "delivered"
  <2>0. d \in Delivery /\ ~Held(d)
    BY <1>1 DEF DeliveryInv, RowInv, External
  <2>1. ASSUME NEW e \in Delivery, EnqueueNotification(e) \/ LeaseEnds(e)
        PROVE  status'[d] = "delivered"
    BY <1>1, <2>0, <2>1 DEF EnqueueNotification, LeaseEnds, DeliveryInv, TypeOK
  <2>2. ASSUME NEW w \in Worker, ClaimDeliveries(w) PROVE status'[d] = "delivered"
    BY <1>1, <2>0, <2>2 DEF ClaimDeliveries, Recovered, Expired
  <2>3. ASSUME NEW w \in Worker, CompleteDelivery(w) PROVE status'[d] = "delivered"
    BY <1>1, <2>0, <2>3 DEF CompleteDelivery, Held, DeliveryInv, TypeOK
  <2>4. ASSUME NEW w \in Worker, DeliverNext(w) \/ CompleteFails(w) \/ Crash(w)
        PROVE  status'[d] = "delivered"
    BY <1>1, <2>4 DEF DeliverNext, Deliver, CompleteFails, Crash
  <2> QED BY <1>1, <2>1, <2>2, <2>3, <2>4 DEF Next
<1>2. DeliveryInv /\ [Next]_vars =>
         [\A d \in External : status[d] = "delivered" => status'[d] = "delivered"]_vars
  BY <1>1
<1> QED BY <1>2, DeliveryInvariant, PTL DEF Spec, DeliveredStays
=============================================================================
