------------------------ MODULE NotificationDelivery ------------------------
(***************************************************************************)
(* The notification outbox: rows of delivery_attempts, inserted in the     *)
(* transaction of an event, and the delivery loop of every worker process, *)
(* which claims a batch under one lease, calls the provider for one row    *)
(* after the other and records each outcome.                               *)
(*                                                                         *)
(* Clocks are left out.  A lease may end at any moment after the claim: up *)
(* to 20 calls of up to 10 s run one after the other under a lease of 30 s.*)
(* A backoff may end at any moment too, a pending row is due at once.      *)
(***************************************************************************)
EXTENDS Naturals, FiniteSets

CONSTANTS
    Delivery,      \* dedupe keys: incident, channel, state, severity
    Mock,          \* the deliveries of channels of kind mock
    Worker,        \* worker processes
    Limit,         \* rows claimed at a time
    MaxAttempts,   \* attempts after which a failure is ambiguous (5)
    MaxClaims      \* bound: claims of a mock delivery

ASSUME DeliveryAssumption ==
    /\ IsFiniteSet(Delivery)
    /\ Mock \subseteq Delivery
    /\ Limit \in Nat \ {0}
    /\ MaxAttempts \in Nat \ {0}
    /\ MaxClaims \in Nat

VARIABLES
    status,        \* delivery_attempts.status, "none" before the row is inserted
    attempt,       \* delivery_attempts.attempt
    leaseOver,     \* rows whose lease_expires_at <= now()
    batch,         \* rows each worker has claimed and not yet tried
    outcome,       \* what the provider call in progress of each worker came to
    sends          \* history: messages the provider got for each row

vars == <<status, attempt, leaseOver, batch, outcome, sends>>

Status == {"none", "pending", "delivering", "delivered", "failed", "ambiguous"}

External == Delivery \ Mock

NoOutcome == [row |-> {}, ok |-> FALSE]

\* The provider's answer for the one row in row.
Outcome == [row : SUBSET Delivery, ok : BOOLEAN]

TypeOK ==
    /\ status \in [Delivery -> Status]
    /\ attempt \in [Delivery -> Nat]
    /\ leaseOver \subseteq Delivery
    /\ batch \in [Worker -> SUBSET Delivery]
    /\ outcome \in [Worker -> Outcome]
    /\ sends \in [Delivery -> Nat]

Init ==
    /\ status = [d \in Delivery |-> "none"]
    /\ attempt = [d \in Delivery |-> 0]
    /\ leaseOver = {}
    /\ batch = [w \in Worker |-> {}]
    /\ outcome = [w \in Worker |-> NoOutcome]
    /\ sends = [d \in Delivery |-> 0]

-----------------------------------------------------------------------------
\* A second notification with the same dedupe key inserts nothing.
EnqueueNotification(d) ==
    /\ status[d] = "none"
    /\ status' = [status EXCEPT ![d] = "pending"]
    /\ UNCHANGED <<attempt, leaseOver, batch, outcome, sends>>

LeaseEnds(d) ==
    /\ status[d] = "delivering"
    /\ leaseOver' = leaseOver \cup {d}
    /\ UNCHANGED <<status, attempt, batch, outcome, sends>>

\* Mutant: nothing is recovered.
ExpiredNone == {}

Expired == {d \in leaseOver : status[d] = "delivering"}

\* Mutant: an expired lease of any channel is retried.
StatusOfExpiredFailed(d) == "failed"

StatusOfExpired(d) == IF d \in Mock THEN "failed" ELSE "ambiguous"

Recovered == [d \in Delivery |-> IF d \in Expired THEN StatusOfExpired(d) ELSE status[d]]

\* Every pending row is due, and the failed ones whose backoff is over; Limit of them are
\* claimed.  The recovery of expired leases is part of the transaction.
ClaimDeliveries(w) ==
    /\ batch[w] = {} /\ outcome[w] = NoOutcome
    /\ \E due \in SUBSET {d \in Delivery : Recovered[d] \in {"pending", "failed"}} :
       \E claimed \in SUBSET due :
          /\ {d \in Delivery : status[d] = "pending"} \subseteq due
          /\ Cardinality(claimed) <= Limit
          /\ claimed = due \/ Cardinality(claimed) = Limit
          /\ \A d \in claimed \cap Mock : attempt[d] < MaxClaims
          /\ status' = [d \in Delivery |-> IF d \in claimed THEN "delivering" ELSE Recovered[d]]
          /\ attempt' = [d \in Delivery |-> IF d \in claimed THEN attempt[d] + 1 ELSE attempt[d]]
          /\ leaseOver' = leaseOver \ (Expired \cup claimed)
          /\ batch' = [batch EXCEPT ![w] = claimed]
    /\ UNCHANGED <<outcome, sends>>

\* What Deliver returns: a mock always succeeds, telegram when the answer is good.
Reported(d, arrives, answered) == d \in Mock \/ (arrives /\ answered)

\* The call of the provider, which may get the message (arrives) without the worker getting
\* its answer (answered).
Deliver(w, d, arrives, answered) ==
    /\ d \in batch[w] /\ outcome[w] = NoOutcome
    /\ batch' = [batch EXCEPT ![w] = @ \ {d}]
    /\ outcome' = [outcome EXCEPT ![w] = [row |-> {d}, ok |-> Reported(d, arrives, answered)]]
    /\ sends' = [sends EXCEPT ![d] = IF d \in Mock \/ arrives THEN @ + 1 ELSE @]
    /\ UNCHANGED <<status, attempt, leaseOver>>

\* Mutant: one attempt too many.
StatusOfFailureLate(d) == IF attempt[d] > MaxAttempts THEN "ambiguous" ELSE "failed"

StatusOfFailure(d) == IF attempt[d] >= MaxAttempts THEN "ambiguous" ELSE "failed"

\* The row is found by its id, whatever its status and whoever holds its lease.
CompleteDelivery(w) ==
    \E d \in outcome[w].row :
        /\ status' = [status EXCEPT ![d] =
                         IF outcome[w].ok THEN "delivered" ELSE StatusOfFailure(d)]
        /\ leaseOver' = leaseOver \ {d}
        /\ outcome' = [outcome EXCEPT ![w] = NoOutcome]
        /\ UNCHANGED <<attempt, batch, sends>>

\* The transaction of CompleteDelivery fails; the loop logs it and goes on.
CompleteFails(w) ==
    /\ outcome[w] # NoOutcome
    /\ outcome' = [outcome EXCEPT ![w] = NoOutcome]
    /\ UNCHANGED <<status, attempt, leaseOver, batch, sends>>

\* The process dies and is started again.
Crash(w) ==
    /\ batch[w] # {} \/ outcome[w] # NoOutcome
    /\ batch' = [batch EXCEPT ![w] = {}]
    /\ outcome' = [outcome EXCEPT ![w] = NoOutcome]
    /\ UNCHANGED <<status, attempt, leaseOver, sends>>

-----------------------------------------------------------------------------
DeliverNext(w) ==
    \E d \in Delivery, arrives, answered \in BOOLEAN : Deliver(w, d, arrives, answered)

Next ==
    \/ \E d \in Delivery : EnqueueNotification(d) \/ LeaseEnds(d)
    \/ \E w \in Worker :
          \/ ClaimDeliveries(w)
          \/ DeliverNext(w)
          \/ CompleteDelivery(w)
          \/ CompleteFails(w)
          \/ Crash(w)

Spec == Init /\ [][Next]_vars

(***************************************************************************)
(* Fairness: the ticker fires, the provider call has a timeout, the        *)
(* report follows it, and leases end.                                      *)
(***************************************************************************)
Fairness ==
    /\ \A d \in Delivery : WF_vars(LeaseEnds(d))
    /\ \A w \in Worker :
          /\ WF_vars(ClaimDeliveries(w))
          /\ WF_vars(DeliverNext(w))
          /\ WF_vars(CompleteDelivery(w) \/ CompleteFails(w))

FairSpec == Spec /\ Fairness

-----------------------------------------------------------------------------
\* The workers that still have something to do with d.
Holders(d) == {w \in Worker : d \in batch[w] \cup outcome[w].row}

\* An external notification is in the hands of at most one worker, also after its lease ended
\* under the worker's feet: the row is parked as ambiguous, and reclaimed only after a report.
ExternalIsExclusive ==
    \A d \in External : \A v, w \in Holders(d) : v = w

\* The provider is called at most MaxAttempts times for a row, counting the calls whose
\* outcome was never recorded.
SendsAreBounded ==
    \A d \in External : sends[d] <= attempt[d] /\ attempt[d] <= MaxAttempts

\* No late or duplicate report takes a delivered external notification back.
DeliveredStays ==
    [][\A d \in External : status[d] = "delivered" => status'[d] = "delivered"]_vars

\* Through crashes and lost reports, an external notification ends delivered or ambiguous.
DeliveriesSettle ==
    \A d \in External : <>[](status[d] \in {"none", "delivered", "ambiguous"})

-----------------------------------------------------------------------------
\* docs/threat-model.md: a row whose lease expired is ambiguous, requiring inspection, instead
\* of automatic replay.  A late error report puts it back among the rows to be claimed.
AmbiguousIsNotReplayed ==
    [][\A d \in External : status[d] = "ambiguous" => status'[d] # "failed"]_vars
=============================================================================
