# StormRelay in TLA+

This directory holds a TLA+ model of StormRelay, the TLC runs that check it on
small instances, and TLAPS proofs of its most important properties for every
instance.  `PROJECT.json` records the components, the runs, which source lines
each definition translates, the hazards the properties are aimed at, and the
theorems.

Every definition is translated from the Go and SQL under `src/`.  JetStream,
pgx and the OIDC library are outside the repository; they are modelled from how
the code configures and calls them, and marked external.

## 1. The system and its parts

StormRelay takes authenticated webhooks and turns them into incidents,
notifications and runbook executions.  A *server* process holds the API and the
webhook gateway.  *Worker* processes consume the event stream, deliver the
notification outbox, and run the runbook engine.  All durable state is in
PostgreSQL and in one JetStream stream.

| Part | Source | Module | State |
|---|---|---|---|
| Runbook engine | `runbookengine`, `storage/execution_*.go`, `storage/approvals.go`, `api/runbooks.go` | `RunbookExecution` | modelled |
| Runbook documents | `runbooks`, `storage/runbook_definitions.go`, `storage/executions.go` | `RunbookDocument`, `Definitions`, `Registry` | modelled |
| Policies | `policies`, `storage/policies.go` | `PolicyDocument`, `Definitions`, `IncidentCorrelation` | modelled |
| Plugins, plugin SDK | `plugins`, `storage/plugins.go`, `api/plugins.go`, `sdk/go/plugin` | `PluginProtocol`, `Definitions` | modelled |
| Event gateway | `api/sources.go`, `ingestion`, `events` | `Gateway`, `RateLimiter`, `EventPipeline` | the webhook path is modelled |
| Event stream | `messaging/nats.go` | `Startup`, `Gateway`, `EventPipeline` | modelled |
| Event worker | `worker`, `storage/process.go` | `EventPipeline`, `IncidentCorrelation` | modelled |
| Incidents | `storage/process.go`, `storage/incidents.go`, `incidents` | `IncidentStates`, `IncidentCorrelation` | modelled |
| Notifications | `storage/notifications.go`, `notifications` | `NotificationDelivery` | modelled |
| Identity and access | `auth`, `oidcauth`, `storage/service_accounts.go`, `storage/oidc.go` | `Access` | modelled |
| Configuration | `config` | `Configuration` | modelled |
| Migrations, commands | `storage/store.go`, `cmd/stormrelay-server`, `cmd/stormrelay-worker` | `Startup` | starting and stopping |
| Manual incidents, audit, telemetry, encryption, network guard, request bounds, client SDK, console | – | – | not modelled, §7 |

How they interact: the gateway publishes an event to the stream.  A worker
commits it in one transaction that writes the canonical event or a duplicate,
the incident, the policy decisions, the outbox rows and the audit entries; then
it acknowledges the message.  The delivery loop claims outbox rows.  A
notification carries a link whose token acknowledges the incident.  The runbook
engine has tables of its own and is started through the API, from the active
version of a stored document.  Every API call but the webhooks, the links and
the probes passes through `requireAuth`.

## 2. The modules and the code

One action is one committed transaction, or one step of a process between two
transactions; where a transaction's statements can be seen apart (authentication,
applying a definition, migrations), one action is one statement.  Row locks
(`FOR UPDATE`, `SKIP LOCKED`) and advisory locks make the rest one step.  Clocks
are left out unless an order of durations matters: a lease, a backoff or a
deadline may end at any moment after it began.  `Gateway` is the module with a
clock.

### RunbookExecution

The variables are the rows of `executions`, `execution_steps` and `approvals`,
the goroutines that execute a claimed step (`tasks`), the transactions that have
read that an execution is done and not yet written it (`finalizing`), and three
histories: the attempts whose request has left the engine (`sent`), the operator's
retries (`retries`) and the forced ones among them (`forced`).  `Def` is the immutable part of a row.

| Actions | Code |
|---|---|
| `StartExecution` | `Store.StartExecution` |
| `ClaimExecutionStep`, `RecoverExpiredStepLease` | `ClaimExecutionSteps`, `RecoverExpiredStepLeases` |
| `SkipStep`, `DryRunStep`, `ScheduleWait`, `OpenApproval`, `SendRequest`, `FailBeforeSend`, `RemoteSucceeded`, `RemoteFailed`, `AbandonTask` | the steps of `Engine.execute` |
| `CompleteSuccess`, `CompleteFailure`, `MarkExecutionStepAmbiguous` | the reports |
| `ReadFinal` (within the report or the wait that calls it), `CommitFinal` | `finalizeExecutionIfDone` |
| `CompleteWait`, `ApprovalDeadline`, `ExpireApproval` | `AdvanceRunbookTimers` |
| `DecideApproval`, `PauseExecution`, `ResumeExecution`, `CancelExecution`, `RetryExecutionStep`, `StartExecutionRollback` | the operator's API |

Claims, recoveries and timers handle several rows per transaction in a loop;
the model takes them row by row, since any subset may be due.  A crash of an
engine is `AbandonTask` for each of its goroutines, in any order; it is also
what a lost report is.

`finalizeExecutionIfDone` reads the status of an execution that its transaction
has not locked and writes the final one later, so the two are separate steps: the
row of the step is locked in between, the execution is not, and a pause or a cancel
may commit first.  `DecideApproval` has locked the execution, and is one step.

`OpenRowsBlockExec` says whether pgx refuses an `Exec` while the rows of a query
of the same transaction are open, as it does in the pinned version.  It is TRUE
where liveness is checked (`runbook_timers`) and where that is the question
(`incident_policy`).  In the safety runs it is FALSE, which only adds behaviours:
the code after the refused statement is then checked too.

### RunbookDocument, PolicyDocument, PluginProtocol

These have no state.  `RunbookDocument` is `Document.Validate` with its
normalization, and the rows an accepted document becomes: keys, timeouts, retry
policies, rollback rows, and `retryBackoff`.  `PolicyDocument` is the validation
and evaluation of the condition language with the explanation it writes; a
policy's tree is a table of nodes (`Expression`), children before parents.
`PluginProtocol` is both ends of the plugin protocol: what the client, the
server and the registration accept of a manifest, a request and an answer.
Texts are their lengths, or members of small sets.

### Registry and Definitions

`Registry` is what the stores promise: under every name a log of immutable
documents that grows only at its end, and executions that keep the document they
were started with.  `Definitions` has the tables of runbooks, policies, plugins
and executions, and requests that each are a transaction of several steps: parse
(`ApplyRunbook`, `ApplyPolicy`, `RegisterPlugin`), `AcquireLock`, `ReadVersion`,
`CommitVersion` or `CommitPlugin`; or `StartExecution` and `CommitExecution`.
Any of them may fail, and the answer of a commit may be lost (`unknown`).
`ImplementsRegistry` is the refinement.  A plugin behind its endpoint is replaced
at any moment (`UpgradePlugin`), also between discovery and lock.

### Configuration, Startup, RateLimiter, Gateway

`Configuration` is what `config.Load` accepts.  `Startup` has the processes of a
deployment with their builds: `Load`, the migrations under the session lock one
statement at a time, `Connect`, and the creation of the durable consumer, whose
`UpdateConsumer` and `AddConsumer` race with another worker's.  `Die` may come
at any moment.  `RateLimiter` is the token bucket with integer tokens.

`Gateway` composes the three with the handlers of `ingestWebhook`: `Receive`
takes the stamp, `Limit` uses it, `Verify` checks the time stamp and reserves,
`Publish`, `Accept` or `Release`, with a clock, the replay cache at its capacity,
deadlines, messages that arrive after their handler gave up (the NATS client
buffers them while it reconnects) and the stream's duplicate window.  Stopping
the server loses its cache and its buckets.  The clock may start at any moment: a
later start is a shorter history.

### EventPipeline

The gateway with its replay cache, the stream with its duplicate window, the
durable consumer, the goroutines of `handleMessage`, the rows of
`normalized_events` and the dead-letter subject.  A message is named by the
attempt that published it.

Time is counted in dedupe windows.  A timestamp, a reservation and a remembered
message id end by steps of their own, in the order of the default durations
(replay window 5 minutes, dedupe window and the broker's duplicate window 15
minutes).  That the broker remembers an id as long as an attempt of its request
can arrive is a guard of `ForgetMsgID` here; `Gateway` has the clock, and its
`StoredOnce` shows which durations make it true.  A sender repeats a request
unchanged.  Left out: requests that fail verification or the rate limit, the
worker's semaphore (it only delays), the fallback for messages without metadata,
and the stream's `MaxAge` of 7 days.

### NotificationDelivery

The rows of `delivery_attempts`, and the delivery loop of each worker: a claim
takes a batch under one lease (`ClaimDeliveries`, with the recovery of expired
leases it begins with), the provider is called row by row (`Deliver`), and each
outcome is recorded (`CompleteDelivery`) or lost (`CompleteFails`, `Crash`).

### IncidentStates and IncidentCorrelation

`IncidentStates` is the state machine of `internal/incidents/state.go`: what an
incident promises.  `IncidentCorrelation` has the rows of `incidents`, the links
of events, the transitions, the acknowledgement tokens, the outbox and what an
operator last read.  `ProcessEvent` is the transaction of a new canonical event:
`correlate`, `evaluatePolicies` and `enqueueNotifications`.  Operators
acknowledge and resolve against the version they read, which are the transitions
the API offers; links acknowledge by token.  `StateMachine` states that every
incident follows `IncidentStates`.  `RecordDuplicate` is the transaction of an
event that was there already: it raises the `duplicate_count` that the API sums up
for the incident, and leaves the incident and its version alone.  What an operator
reads (`ViewOf`) is the state, severity and time of the last event, the events and
the number of duplicates.  Titles, service and environment, `first_event_at` and the
times of the transitions are left out.

### Access

Service accounts and identities with their roles, keys, providers, the verifier
cache, and the requests in progress.  An authentication is several statements
and each is a step: the row of the key, or provider, verifier and identity; then
the roles.  `during` is a history: whether the credential was good at some
moment of the request, and which sets of roles its holder had.  One tenant; the
verification of a token either lets it through or not.  Updates with an outdated
version are refused and appear as `FinishRequest`.

## 3. The runs

Every passing run has, for each of its properties, a mutant of the code's
definition that TLC finds out (in `PROJECT.json`).

| Run | Instance | Shows |
|---|---|---|
| `runbook_http` | one execution; an unprotected http step with a protected rollback, then an approval with a deadline; two workers, two goroutines each, one operator retry per row | Requests without an idempotency header leave at most once per human decision; order, exclusiveness and number of attempts, stable done steps and final statuses, rollbacks only of completed steps, ambiguity waits for an operator |
| `runbook_timers` | a conditional plugin call and a wait beside an approval with a deadline; or a dry run of an http step; the pinned driver, one worker, an operator who pauses, resumes, cancels and decides | Given fair engines, an execution that is not paused or canceled comes to rest or waits for a decision; waits end unless an overdue approval stays undecided; no step is executed for ever |
| `runbook_replay` | one http step, three attempts | *Violation*, §6 |
| `pipeline` | a signed request, its sender's clock ahead, sent twice; a bearer request with the same key; two deliveries, the turn of a window, a cache of one | One event per signed request; acknowledged means handled; only the last delivery can lose a message, and every other one settles |
| `pipeline_lost` | one request, two deliveries | *Violation*, §6 |
| `notify` | two external rows and a mock, two workers, batches of two, two attempts | One holder, bounded sends, delivered stays delivered, and external rows come to rest |
| `notify_replay` | one row, five attempts | *Violation*, §6 |
| `incident_storm` | four events of two keys out of order, one of them repeated, three incidents, policies that route and suppress | Open incidents of a key are further apart than the window; summaries are exact; a version names what was read but for the duplicates, of which there may be more by now; the recorded trail leads to the state; the state machine is implemented |
| `incident_policy` | two events, one policy, the pinned driver | *Violation*, §6 |
| `access` | an account with a key, a provider with an identity, two roles and an unknown one, two requests, two versions per row | Admitted principals are covered by what was true during the request; changes have a tenant admin behind them; one verifier per provider |
| `definitions` | some seventy sets of documents: a runbook with one field at a time around its bounds, policies over ten expressions and twelve events, a plugin with three manifests; three requests | An accepted runbook can be run and rolled back; a decision of an accepted policy means what its expression says and is explained by its audit entry; a registered plugin is one manifest, and a call of it has the same outcome at both ends but in one case (§6); what a client was told stays true; the tables implement the registry; no request waits for ever |
| `gateway` | a server and a worker, one migration ahead, with two starts each; or two workers with three starts between them; in environments with different limits; or a server with two handlers, two signed requests and a bearer request of one message id, a bucket of three, a cache of one, and two arrivals in eight moments or three in two | Migrations once and in order; equal limits of worker and consumer; bounded admission; accepted requests are remembered for a window; a signed request is stored once; starts finish |

**Why the bounds are enough.**  Each hazard needs few actors: a stale goroutine
and its successor (two attempts, two workers), a publish and its repetition
across a window (two tries, two windows), a lease that ends in the middle of a
batch (a batch of two), a late event between two others (three events of one
key), a change between two statements of another request (two requests, two
versions), two writers of one name and a reader (three requests), two handlers
and an expired reservation (two arrivals, a cache of one), a stamp that arrives
behind a later one, and a request after both (three arrivals), a worker that adds
the consumer while another does (two workers, one of them started again).  In `gateway` the
durations are scaled down so that `2·window + timeout + delay` is just less than
the duplicate window (6 < 7), as the defaults are with room to spare.  Operator
retries, tries, claims of mocks, windows, versions, starts, arrivals and the
clock are bounded by constants named in the guards; the delivery bound and the
attempt bound are the code's own, scaled down (5 in the code).  A mock delivery
has no attempt bound in the code while its lease expires, hence `MaxClaims`.
`MCGateway` spends the bounds on one thing at a time: either processes start and
die, or the server also receives requests, two of them over the whole time or three
in its last two moments.  The dry run of `runbook_timers` shares nothing with the other
executions but the worker, so the run has two initial states: each has the others
started and canceled at once, before anything was claimed.  `runbook_timers` has one worker: its
questions are about time, and two workers are in `runbook_http`.  Workers,
incidents and requests are symmetric where no liveness is checked and the model
does not tell them apart.

**Deadlock** is not checked: all these instances come to a legitimate end when
their bounded inputs are used up and everything has settled.

## 4. Fairness

- `RunbookExecution.Fairness`: `Engine.Run` ticks for ever, so a step that stays
  claimable is claimed by some engine, expired leases are recovered, waits and
  deadlines pass and are handled; some goroutine goes on, and an open transaction
  commits.  Nothing is assumed of the remote side: a goroutine may be lost.  Nothing
  is assumed of operators either, who may pause, resume, cancel and decide at any time
  or never (`Supervised`); their retries and rollbacks are in `runbook_http`.
- `EventPipeline.Fairness`: the consumer delivers or times out, and some
  goroutine goes on, since every call it makes has a deadline.  Senders, restarts
  and the clock are free.
- `NotificationDelivery.Fairness`: leases end, each worker's loop ticks, and a
  batch goes on.  A worker may crash at any time, but it need not.
- `Definitions.FairSpec`: PostgreSQL grants a free lock, and a handler that has
  what it needs runs on, or fails.  Clients are free.
- `Gateway.Fairness`: a process that is starting takes its next step, when it can.
  Whether it is started, and when it dies, is free.

All are weak fairness of things the code does in an unconditional loop or
sequence, or that the passing of time does.

## 5. What is proved

For every value of the constants, under the named assumptions of the modules
(`ConstantsAssumption`, `RollbackAssumption`, `PositionAssumption`;
`AccessAssumption`; `DeliveryAssumption`; `CorrelationAssumption`;
`PipelineAssumption`; `DefinitionsAssumption`, `RollbackKeyAssumption`,
`ExpressionsAreTrees`, `ProtocolAssumption`; `StartupAssumption`,
`RateAssumption`, `GatewayAssumption`), which say what `Document.Validate`, the
schema and `config.Load` guarantee and that the null values are no values.  Those
about documents say what a decoder hands on and no more: a runbook, a manifest
and an expression have the fields and lists of their Go types, the children of an
expression come before it, `"rollback-" + id` tells ids apart, the envelope of a
request fits into one, and no text of an event is `[REDACTED]`.  Every safety
invariant and action property that a passing run checks has a theorem.

**`RunbookExecutionProofs`.**  `TypeCorrect`.  `RowInvariant`: the inductive
invariant `RowInv` adds to the types that leases, approvals, attempts and
cancels fit the status of their row.  None of the safety properties is inductive
without it; a done step stays done because no report, timer, decision or retry
finds it in a status it accepts.  From it follow `DoneStepsStay`, `OrderedSteps` and
`RollbackOfCompleted`.  A row that an open transaction has locked to finalize its
execution is leased or waiting, and no other transaction has it (`LockInv`).
`BoundedAttempts` needs `BoundInv`: a row that can be claimed has an attempt left.
`FinalStatusEarned` and `FinalStatusFinal` need `FinalizeInv`: while a transaction
that has read that nothing remains is open, the other steps of its execution are
done and the execution is at most paused, unless a cancel is recorded; so what it
writes is still true when it is written.

The second half is about what leaves the engine.  `ExclusiveAttempts`: attempts
are numbered by the claims, so no two goroutines have the same.
`AmbiguityIsKept`: an ambiguous step stays so until an operator retries it,
because it has no lease to recover, no timer and no approval.  `AuthorizedSends`,
the main theorem: a request without idempotency protection is sent at most once
plus once per forced retry, for any number of workers, crashes and expired leases.
`SendsAreAuthorized` only counts what was sent, so the invariant counts what may
still be: attempts sent or in the hands of a goroutine, plus one credit while the
step can be claimed again without a forced retry, never exceed one plus the
forced retries.

**`PipelineProofs`.**  `OneEvent`, `AckedHandled`, `LastDeliveryLoses`.  One
event per signed request needs one *message* per signed request, and that needs
`StreamInv`: as long as the request can still be sent or an attempt of it is in
the gateway, the broker remembers the id of the message it has.  A canonical row
is a function of its message, whatever window it is processed in.  That nothing
else is lost needs `LastInv`: once the last delivery is out, its goroutine is
there until the message is settled.

**`NotificationProofs`.**  `ExternalExclusive`, `SendsBounded`,
`DeliveredIsFinal`.  `RowInv` says that a row in somebody's hands is being
delivered or was parked as ambiguous, which no claim takes; and that a row in a
batch has one attempt more than sends.  A late report therefore finds
`delivering` or `ambiguous`, never `delivered`.

**`IncidentProofs`.**  `OpenApart`, `SummaryExact`, `VersionIsView`,
`TrailLeads`, and `ImplementsIncidentStates`: every step of events, operators
and links is a step of the state machine, or none.  The five properties and the
facts about links and views are inductive together.  A view with the current version
has the current events, since an event that joins raises the version, and no more
duplicates than there are, since they only grow.  An event joins the latest open
incident of its key within the window, so a new incident is apart from the others,
and the one that is extended stays so.

**`DefinitionsProofs`.**  `AppliedDocumentsArePublished` and
`TablesImplementRegistry`, the refinement.  `RequestInv` says what a request knows
of the tables: who is past the lock holds it, so the version it read is still
the active one, and an insert at the next version is an `Append`.  `AcceptedHolds`
is the invariant the next module rests on: every document in the tables, and every
one a request carries to its commit, was accepted by its validator, and the rows
of a plugin describe the one manifest that was registered last.  That is not
inductive for the tables alone, since a commit writes what a request parsed
several steps before.

**`DocumentProofs`.**  What acceptance means, for every document, and with
`AcceptedHolds` for whatever is in the tables.  `EveryStoredRunbookRuns`: rows with
distinct keys, and timeouts, attempts and backoffs that the engine can use.  The
chain of lemmas is the code's: durations of a unit, whole seconds that are rounded
up, backoffs that are raised to one another, doubled, capped and cut by the
jitter.  `EveryRegisteredPluginWorks`: a call of an action of the registered manifest
succeeds for the client exactly when the handler succeeded and the whole response is
within the bound; the server has called it a success and the client has not exactly
when the output fits by less than its envelope (§6).  `EveryDecisionIsExplained`: `eval`,
`validateExpression`, `collectFields` and the meaning of an expression are recursive
functions on its nodes.  The induction theorems of the library cannot be used, so
each argument takes the least node that violates a claim, as a member of a set of
numbers.  The first ones show that each function satisfies its equation, since a
node depends on nothing but its children; the next, that a loop that ends early
has found the child that decides, so `eval` agrees with the meaning; the last,
that `eval` depends only on the fields that `collectFields` returns, none of which
is redacted.

**`GatewayProofs`.**  `MigrationsStayOrdered`: the holder of the lock is the only
one to migrate, and what is applied is a prefix.  `AdmissionStaysBounded`:
from any admission on, the requests let in plus the tokens left are no more than
the burst plus what the rate gives up to the last use, for stamps in any order.
`SignedIsStoredOnce`: as long as a request may arrive, either none of its messages
is in the stream, or its id has been remembered since a moment close enough to the
request's stamp; an id is forgotten only after the request is over.  This is where
`2·window + publish timeout + delay < duplicate window` is used.
`LimitsStayEqual`: a running process has a configuration that `Load` accepted
(`ConfigInv`), so the limit it asks the consumer for is its own; and nobody but a
worker, which is then the last to have subscribed, changes the consumer
(`LimitsInv`).  `AcceptedStaysRemembered`:
`CacheInv` with `ReservationsHold` says that a handler past its reservation, and
every request accepted in the window, still has the reservation it made; pruning
removes expired entries only, and no other handler of the same request gets that
far, so none releases it.

**`AccessProofs`.**  `TypeCorrect`, `AdmittedCovered`, `ChangesAuthorized`,
`OneVerifier`.  That a request is admitted says nothing of its earlier
statements, so `StageInv` says for each stage what they have established: a
token in flight names an identity, and a known holder was good at some moment of
the request.  Lemma `Moves` reduces every action to what it establishes for the
one request it moves.

The type invariants of `RunbookExecution`, `EventPipeline`,
`NotificationDelivery`, `IncidentCorrelation` and `Access` are conjuncts of the
proved invariants, so no run repeats them.

**Only model-checked**: liveness (`EventuallySettles`, `WaitsEnd`,
`StepsComeToRest`, `MessagesSettle`, `DeliveriesSettle`, `RequestsFinish`, `StartsFinish`), which
needs fairness and ENABLED, out of the prover's reach.

## 6. Where code and documents disagree

Four runs state what a document says and find a behaviour of the code that
contradicts it; `PROJECT.json` quotes the lines.

- `runbook_replay`: two attempts of one engine share its worker id as the lease
  owner.  After a forced retry, the first attempt's failure puts the step to
  retrying although the second attempt's request is out, and it is claimed by
  itself again.  (The number of requests stays within what humans decided, as
  `AuthorizedSends` proves: the first attempt sent nothing.)
- `pipeline_lost`: the consumer's `MaxDeliver` equals the worker's dead-letter
  threshold.  A worker that dies during the last delivery, or cannot publish the
  dead letter, leaves a confirmed message that is never delivered again.
- `notify_replay`: `CompleteDelivery` finds its row by id only.  A late error
  takes an ambiguous row back to failed, and it is sent again.
- `incident_policy`: `evaluatePolicies` writes audit entries while its own query
  is open, which pgx refuses: with an enabled policy no event of the tenant is
  processed.

These behaviours are also reachable.  No run is kept for them; the properties
named are what still holds.

- A canceled execution leaves that status when the lease of a step that was left
  running expires (`execution_scheduler.go:119`), or when an approval left
  pending is decided.  No step runs for ever or more often than it may because of it:
  `StepsComeToRest`, `AttemptsAreBounded`.
- A stale goroutine's failure at the last attempt does not touch the step, which has
  another lease owner, but makes the execution failed (`execution_scheduler.go:253`)
  while the step still runs.
- A pause or a cancel that commits while an execution is being finalized is
  overwritten: it ends completed, or rolled back.  Unless there was a cancel all its
  steps are done: `FinalStatusIsEarned`.
- A pause that meets the last running step: its completion does not finalize a
  paused execution, and resume does not either, so it stays running.
- A wait or approval step whose engine dies before it is persisted is recovered
  as ambiguous although nothing was sent.  It then waits for an operator:
  `AmbiguityNeedsOperator`.
- With the pinned driver one overdue approval fails the timers' transaction on
  every tick, and due waits of all executions wait with it until somebody decides.
  `WaitsEnd` and `EventuallySettles` say that this is the only reason.
- A rollback of a failed or ambiguous execution stays in `rolling_back`: the
  forward step that failed is counted as remaining.  What it undoes is right:
  `RollbackUndoesCompletedSteps`.
- A rollback step that may be replayed and whose engine dies is put to retrying
  and its execution to running, but rollback steps are claimed only in
  `rolling_back` (`execution_scheduler.go:35`), so it is not retried.
  `docs/operations.md:177` says that an expired plugin or explicitly idempotent
  attempt can be retried when attempts remain.
- An operator retry of a rejected or expired approval step finds its decided
  approval row and waits for a decision that can no longer be made.  A retry does
  not reset `attempt_count`, so a step that fails again may have no automatic
  attempt left.
- A policy that names a missing or disabled channel, or a tenant without the
  local mock channel, fails the transaction of every event it applies to; the
  guard is in `IncidentCorrelation`, where such an event is never processed.
- `ReplayCache.Release` does not ask whose reservation it deletes.  With a replay
  window no longer than the publish timeout, which `config.Load` accepts, a slow
  handler can delete the reservation of an accepted request;
  `AcceptedIsRemembered` has the condition on the two durations.
- `config.Load` asks only that the replay window is positive.  `StoredOnce` holds
  for windows that fit the stream's duplicate window, as the defaults do.
- Workers with different `EVENT_MAX_DELIVERIES` beside each other: the consumer
  has the limit of the last one to start.  `LimitsAgree` speaks of that one.
  The limit of a worker that was started before differs until it is restarted.
- `StoredOnce` also takes the delay of a message as bounded (`MaxDelay`).  The client
  keeps what it could not send while it reconnects, and nothing in the code says for
  how long.
- A runbook with a step named `rollback-x` beside a step `x` is accepted, and the
  rollback of `x` cannot be inserted; `StoredRunbooksRun` excepts that name.
- The jitter can cut an initial backoff of one second, the default, to nothing;
  `StoredRunbooksRun` asks for a delay from two seconds on.
- `docs/plugin-sdk.md:17` names a 1 MiB response limit among what the server SDKs
  enforce.  `server.go:165` bounds the output, to which the envelope is added; the
  client bounds the whole response and fails a call that the server counts as a
  success.  `RegisteredPluginsWork` says that the ends differ nowhere else.
- A manifest is discovered before the lock is taken, so the older of two may be
  registered last.  The rows then describe it, and no mixture: `RegisteredPluginsWork`.
- Duplicates raise the count shown for an incident without a new version, so an
  operator may act on an older count.

## 7. What is not modelled

- Manual incidents: an event of an internal source that goes through the
  transaction `IncidentCorrelation` models.  Creating sources, channels and the
  internal source are single inserts.
- The parsing of the providers' payloads, YAML, JSON and the text of identifiers:
  data that no property here tells apart.
- Rows of the outbox written under another encryption key: the claim of a batch
  with such a row rolls back on every tick.
- The durations of notification and worker retries; the runbook engine's are in
  `RunbookDocument`.
- Audit: one insert per transaction.  Its only effect on a decision, that it can
  fail the transaction, is modelled where it happens.
- Telemetry, logging and message texts decide nothing.  Encryption, ids and the
  size limits of requests are pure.  The network guard's behaviour is the
  network's.  The command-line client, the conformance tool, the client SDK and
  the console are clients without state.
- Several tenants: every query is by tenant, and the models are of one.
- One specification of the whole: the modules meet at the transaction that
  commits an event and at the outbox.  `Gateway` composes starting, limiting and
  receiving; beyond it the composition would multiply state without a property
  that needs it.

## 8. Checking

    tlc -config RunbookHTTP.cfg MCRunbookExecution     # and the other runs
    tlapm RunbookExecutionProofs.tla                   # and the other proofs

`DocumentProofs` extends `DefinitionsProofs`, which has to be checked by itself.
Zenon proves most leaves; a leaf that needs arithmetic, sequences or functions
cites the SMT solver.  The library of facts about finite sets is brought in by an
`INSTANCE` just before the first lemma that uses it, because every obligation
carries all that precedes it.  The large proof modules take from two to six
minutes each, nearly all of it in the preparation of obligations.
