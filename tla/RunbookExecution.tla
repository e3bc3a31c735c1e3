-------------------------- MODULE RunbookExecution --------------------------
(***************************************************************************)
(* The durable runbook engine: rows of the tables executions,              *)
(* execution_steps and approvals, the worker goroutines that execute       *)
(* claimed steps, the timers, and the operator's API calls.                *)
(*                                                                         *)
(* Every action is one committed PostgreSQL transaction of                 *)
(* internal/storage, or one step of internal/runbookengine between two     *)
(* transactions.  Row locks (FOR UPDATE, SKIP LOCKED) are what makes a      *)
(* transaction one step.  The exception is the end of an execution: its    *)
(* status is read without a lock and written later in the transaction, so  *)
(* that is two steps, and others can come between them.  A transaction     *)
(* that handles several rows in a loop (claim, lease recovery, timers) is  *)
(* written per row: the rows are handled independently and a tick may find *)
(* any subset of them due, so the batch is a sequence of these steps.      *)
(*                                                                         *)
(* Clocks are left out.  A lease may expire, a backoff or a wait may end,  *)
(* at any moment after it began: the 30 s lease is never renewed and a     *)
(* step may run for up to an hour, so no order between them is lost.       *)
(***************************************************************************)
EXTENDS Naturals, FiniteSets

CONSTANTS
    Execution,          \* ids of executions
    Row,                \* ids of execution_steps rows, rollback rows included
    Worker,             \* engine ids (lease owners); a restarted engine is a new one
    NoWorker,           \* lease_owner IS NULL
    NoRow,              \* rollback_of IS NULL
    Def,                \* the immutable part of each row
    DryRun,             \* the executions requested with dry_run
    Concurrency,        \* RunbookConcurrency: goroutines per engine
    MaxOperatorRetries, \* bound: operator retries of one row
    OpenRowsBlockExec   \* external: pgx refuses Exec while the rows of a query are open

(***************************************************************************)
(* immutable_input, position, step_type, retry_policy, rollback_of.  The    *)
(* rollback row of a step carries the position of that step; expires says  *)
(* that an approval has an expiry.                                         *)
(***************************************************************************)
StepDefinition ==
    [execution : Execution, position : Nat, rollbackOf : Row \cup {NoRow},
     type : {"http", "plugin", "wait", "approval"}, idempotencyHeader : BOOLEAN,
     maxAttempts : Nat \ {0}, conditional : BOOLEAN, expires : BOOLEAN]

IsRollback(s) == Def[s].rollbackOf # NoRow

RowsOf(e) == {s \in Row : Def[s].execution = e}

ASSUME ConstantsAssumption ==
    /\ NoWorker \notin Worker
    /\ NoRow \notin Row
    /\ IsFiniteSet(Row)
    /\ Def \in [Row -> StepDefinition]
    /\ DryRun \subseteq Execution
    /\ Concurrency \in Nat \ {0}
    /\ MaxOperatorRetries \in Nat
    /\ OpenRowsBlockExec \in BOOLEAN

\* Document.Validate: only http and plugin actions roll back, and never on a condition.
ASSUME RollbackAssumption ==
    \A s \in Row : IsRollback(s) =>
        /\ ~IsRollback(Def[s].rollbackOf)
        /\ Def[s].execution = Def[Def[s].rollbackOf].execution
        /\ Def[s].position = Def[Def[s].rollbackOf].position
        /\ Def[s].type \in {"http", "plugin"}
        /\ ~Def[s].conditional

\* Steps of one execution have distinct positions, and a step one rollback row.
ASSUME PositionAssumption ==
    \A s, r \in Row :
        /\ Def[s].execution = Def[r].execution
        /\ IsRollback(s) = IsRollback(r)
        /\ Def[s].position = Def[r].position
        => s = r

VARIABLES
    execStatus,       \* executions.status, "none" before StartExecution
    cancelRequested,  \* executions.cancel_requested_at IS NOT NULL
    rowStatus,        \* execution_steps.status, "none" before the row is inserted
    leaseOwner,       \* execution_steps.lease_owner
    attempt,          \* execution_steps.attempt_count
    approval,         \* approvals.status of the row's approval, "none" without one
    overdue,          \* the rows whose pending approval has expires_at <= now()
    tasks,            \* goroutines executing a claimed step
    finalizing,       \* transactions that have read that no step remains, and not committed
    sent,             \* history: attempts whose remote request has left the engine
    retries,          \* operator retries of each row
    forced            \* history: those of them that were forced on an ambiguous step

vars == <<execStatus, cancelRequested, rowStatus, leaseOwner, attempt, approval,
          overdue, tasks, finalizing, sent, retries, forced>>

ExecutionStatus ==
    {"none", "running", "waiting_approval", "paused", "canceled", "completed",
     "failed", "ambiguous", "rolling_back", "rolled_back"}

StepStatus ==
    {"none", "pending", "running", "waiting", "waiting_approval", "retrying",
     "completed", "skipped", "failed", "ambiguous", "canceled", "rolling_back",
     "rolled_back"}

ApprovalStatus == {"none", "pending", "approved", "rejected", "expired"}

Task == [worker : Worker, row : Row, attempt : Nat]

\* The row such a transaction has locked and what it will write; by is the goroutine that
\* reports, and nobody in a transaction of the timers.
Finalizing == [row : Row, by : SUBSET Task, status : StepStatus,
               final : {"completed", "rolled_back"}]

Leased == {"running", "rolling_back"}                 \* a worker holds the step
Passed == {"completed", "skipped", "rolled_back"}     \* later steps may start
Finished == Passed \cup {"canceled"}                  \* not counted as remaining

ExecutionOf(s) == Def[s].execution

\* The rows that transactions between the read and the commit have locked.
Locked == {f.row : f \in finalizing}

\* The steps a claim of s waits for: forward steps by position, rollback rows in reverse.
Preceding(s) ==
    {p \in Row : /\ ExecutionOf(p) = ExecutionOf(s)
                 /\ IsRollback(p) = IsRollback(s)
                 /\ IF IsRollback(s) THEN Def[p].position > Def[s].position
                                     ELSE Def[p].position < Def[s].position}

\* Mutant: the idempotency header is not looked at.
SafeReplayAnyHTTP(s) == Def[s].type \in {"plugin", "http"}

\* A step that may be executed twice under one idempotency key.
SafeReplay(s) ==
    \/ Def[s].type = "plugin"
    \/ Def[s].type = "http" /\ Def[s].idempotencyHeader

TypeOK ==
    /\ execStatus \in [Execution -> ExecutionStatus]
    /\ cancelRequested \in [Execution -> BOOLEAN]
    /\ rowStatus \in [Row -> StepStatus]
    /\ leaseOwner \in [Row -> Worker \cup {NoWorker}]
    /\ attempt \in [Row -> Nat]
    /\ approval \in [Row -> ApprovalStatus]
    /\ overdue \subseteq Row
    /\ tasks \subseteq Task
    /\ finalizing \subseteq Finalizing
    /\ sent \in [Row -> SUBSET Nat]
    /\ retries \in [Row -> Nat]
    /\ forced \in [Row -> Nat]

Init ==
    /\ execStatus = [e \in Execution |-> "none"]
    /\ cancelRequested = [e \in Execution |-> FALSE]
    /\ rowStatus = [s \in Row |-> "none"]
    /\ leaseOwner = [s \in Row |-> NoWorker]
    /\ attempt = [s \in Row |-> 0]
    /\ approval = [s \in Row |-> "none"]
    /\ overdue = {}
    /\ tasks = {}
    /\ finalizing = {}
    /\ sent = [s \in Row |-> {}]
    /\ retries = [s \in Row |-> 0]
    /\ forced = [s \in Row |-> 0]

-----------------------------------------------------------------------------
(***************************************************************************)
(* Claiming and lease recovery: the engine's ticker.                       *)
(***************************************************************************)

StartExecution(e) ==
    /\ execStatus[e] = "none"
    /\ execStatus' = [execStatus EXCEPT ![e] = "running"]
    /\ rowStatus' = [s \in Row |-> IF ExecutionOf(s) = e /\ ~IsRollback(s)
                                      THEN "pending" ELSE rowStatus[s]]
    /\ UNCHANGED <<cancelRequested, leaseOwner, attempt, approval, overdue, tasks, finalizing,
                   sent, retries, forced>>

\* Mutant: the claim forgets the steps before.
ClaimableAnyOrder(s) ==
    /\ ~cancelRequested[ExecutionOf(s)]
    /\ rowStatus[s] \in {"pending", "retrying"}
    /\ execStatus[ExecutionOf(s)] = IF IsRollback(s) THEN "rolling_back" ELSE "running"

\* The WHERE clause of the candidates of a claim.
Claimable(s) ==
    /\ ~cancelRequested[ExecutionOf(s)]
    /\ rowStatus[s] \in {"pending", "retrying"}
    /\ execStatus[ExecutionOf(s)] = IF IsRollback(s) THEN "rolling_back" ELSE "running"
    /\ \A p \in Preceding(s) : rowStatus[p] \in Passed \cup {"none"}

\* Mutant: only the first claim counts.
FirstAttemptOnly(s) == IF attempt[s] = 0 THEN 1 ELSE attempt[s]

\* attempt_count + 1
NextAttempt(s) == attempt[s] + 1

\* One row of the claim; the goroutine that executes it starts with the claim.
ClaimExecutionStep(w, s) ==
    /\ Cardinality({t \in tasks : t.worker = w}) < Concurrency
    /\ Claimable(s)
    /\ rowStatus' = [rowStatus EXCEPT
                        ![s] = IF IsRollback(s) THEN "rolling_back" ELSE "running"]
    /\ leaseOwner' = [leaseOwner EXCEPT ![s] = w]
    /\ attempt' = [attempt EXCEPT ![s] = NextAttempt(s)]
    /\ tasks' = tasks \cup {[worker |-> w, row |-> s, attempt |-> NextAttempt(s)]}
    /\ UNCHANGED <<execStatus, cancelRequested, approval, overdue, finalizing, sent, retries,
                   forced>>

\* Mutant: one attempt too many.
ExhaustedAfterOneMore(s) == attempt[s] > Def[s].maxAttempts

\* No automatic attempt is left.
Exhausted(s) == attempt[s] >= Def[s].maxAttempts

\* One row of RecoverExpiredStepLeases; the status of the execution is not looked at.
RecoverExpiredStepLease(s) ==
    LET replay == SafeReplay(s) /\ ~Exhausted(s) IN
    /\ rowStatus[s] \in Leased /\ s \notin Locked
    /\ rowStatus' = [rowStatus EXCEPT ![s] = IF replay THEN "retrying" ELSE "ambiguous"]
    /\ leaseOwner' = [leaseOwner EXCEPT ![s] = NoWorker]
    /\ execStatus' = [execStatus EXCEPT
                         ![ExecutionOf(s)] = IF replay THEN "running" ELSE "ambiguous"]
    /\ UNCHANGED <<cancelRequested, attempt, approval, overdue, tasks, finalizing, sent, retries,
                   forced>>

-----------------------------------------------------------------------------
(***************************************************************************)
(* The ways a task reports to the store.  Each ends the task.              *)
(***************************************************************************)

\* Mutant: only steps that have started are counted as remaining.
NothingRunsOrFailed(es, rs, e) ==
    /\ es[e] \in {"running", "rolling_back"}
    /\ \A s \in RowsOf(e) : rs[s] \in Finished \cup {"none", "pending"}

\* Mutant: a skipped step is counted as remaining.
NothingRemainsOrSkipped(es, rs, e) ==
    /\ es[e] \in {"running", "rolling_back"}
    /\ \A s \in RowsOf(e) : rs[s] \in {"completed", "rolled_back", "canceled", "none"}

\* What finalizeExecutionIfDone reads, from the row statuses rs: the execution goes on and no
\* row remains, in either direction.
NothingRemains(es, rs, e) ==
    /\ es[e] \in {"running", "rolling_back"}
    /\ \A s \in RowsOf(e) : rs[s] \in Finished \cup {"none"}

FinalStatusOf(status) == IF status = "running" THEN "completed" ELSE "rolled_back"

\* What it writes when the transaction has the row of the execution.
Finalized(es, rs, e) ==
    IF NothingRemains(es, rs, e) THEN [es EXCEPT ![e] = FinalStatusOf(es[e])] ELSE es

\* What it does when the transaction has the row of the step only: the status is read now,
\* and written by CommitFinal over what the execution has become by then.
ReadFinal(s, by, status) ==
    /\ finalizing' = finalizing \cup {[row |-> s, by |-> by, status |-> status,
                                      final |-> FinalStatusOf(execStatus[ExecutionOf(s)])]}
    /\ UNCHANGED <<execStatus, cancelRequested, rowStatus, leaseOwner, attempt, approval,
                   overdue, tasks, sent, retries, forced>>

CommitFinal(f) ==
    /\ finalizing' = finalizing \ {f}
    /\ tasks' = tasks \ f.by
    /\ rowStatus' = [rowStatus EXCEPT ![f.row] = f.status]
    /\ leaseOwner' = [leaseOwner EXCEPT ![f.row] = NoWorker]
    /\ execStatus' = [execStatus EXCEPT ![ExecutionOf(f.row)] = f.final]
    /\ UNCHANGED <<cancelRequested, attempt, approval, overdue, sent, retries, forced>>

\* Mutant: a late report is accepted whatever the step has become.
StillLeasedAlways(t) == TRUE

\* The check of CompleteExecutionStep: the step is running, on whatever lease.
StillLeased(t) == rowStatus[t.row] \in Leased

Owns(t) == leaseOwner[t.row] = t.worker

\* The row updates are WHERE lease_owner = worker and nobody counts the rows they hit.
ReleaseIfOwned(t, status) ==
    IF Owns(t) THEN [rowStatus EXCEPT ![t.row] = status] ELSE rowStatus

LeaseReleased(t) ==
    IF Owns(t) THEN [leaseOwner EXCEPT ![t.row] = NoWorker] ELSE leaseOwner

\* CompleteExecutionStep without an error.
CompleteSuccess(t, status) ==
    LET rs == ReleaseIfOwned(t, status) IN
    /\ t.row \notin Locked
    /\ IF StillLeased(t) /\ NothingRemains(execStatus, rs, ExecutionOf(t.row))
       THEN ReadFinal(t.row, {t}, status)
       ELSE /\ tasks' = tasks \ {t}
            /\ IF StillLeased(t) THEN rowStatus' = rs /\ leaseOwner' = LeaseReleased(t)
                                 ELSE UNCHANGED <<rowStatus, leaseOwner>>
            /\ UNCHANGED <<execStatus, cancelRequested, attempt, approval, overdue, finalizing,
                           sent, retries, forced>>

\* CompleteExecutionStep with an error: the execution fails whoever holds the lease.
CompleteFailure(t) ==
    /\ t.row \notin Locked
    /\ tasks' = tasks \ {t}
    /\ IF StillLeased(t)
       THEN /\ rowStatus' = ReleaseIfOwned(t, IF Exhausted(t.row) THEN "failed" ELSE "retrying")
            /\ leaseOwner' = LeaseReleased(t)
            /\ execStatus' = IF Exhausted(t.row)
                             THEN [execStatus EXCEPT ![ExecutionOf(t.row)] = "failed"]
                             ELSE execStatus
       ELSE UNCHANGED <<rowStatus, leaseOwner, execStatus>>
    /\ UNCHANGED <<cancelRequested, attempt, approval, overdue, finalizing, sent, retries,
                   forced>>

MarkExecutionStepAmbiguous(t) ==
    /\ t.row \notin Locked
    /\ tasks' = tasks \ {t}
    /\ IF Owns(t) /\ rowStatus[t.row] \in Leased
       THEN /\ rowStatus' = [rowStatus EXCEPT ![t.row] = "ambiguous"]
            /\ leaseOwner' = [leaseOwner EXCEPT ![t.row] = NoWorker]
            /\ execStatus' = [execStatus EXCEPT ![ExecutionOf(t.row)] = "ambiguous"]
       ELSE UNCHANGED <<rowStatus, leaseOwner, execStatus>>
    /\ UNCHANGED <<cancelRequested, attempt, approval, overdue, finalizing, sent, retries,
                   forced>>

-----------------------------------------------------------------------------
(***************************************************************************)
(* Engine.execute, cut where the goroutine waits: the claim, the moment    *)
(* the remote request leaves, and the report.                              *)
(***************************************************************************)

Unsent(t) == t.attempt \notin sent[t.row]

IsDryRun(t) == ExecutionOf(t.row) \in DryRun

SuccessStatus(s) == IF IsRollback(s) THEN "rolled_back" ELSE "completed"

\* when did not match.
SkipStep(t) ==
    /\ Unsent(t)
    /\ Def[t.row].conditional
    /\ CompleteSuccess(t, "skipped")

DryRunStep(t) ==
    /\ Unsent(t)
    /\ IsDryRun(t)
    /\ CompleteSuccess(t, SuccessStatus(t.row))

ScheduleWait(t) ==
    /\ Unsent(t) /\ ~IsDryRun(t) /\ Def[t.row].type = "wait"
    /\ t.row \notin Locked
    /\ IF Owns(t) /\ rowStatus[t.row] = "running"
       THEN /\ tasks' = tasks \ {t}
            /\ rowStatus' = [rowStatus EXCEPT ![t.row] = "waiting"]
            /\ leaseOwner' = [leaseOwner EXCEPT ![t.row] = NoWorker]
            /\ UNCHANGED <<execStatus, cancelRequested, attempt, approval, overdue, finalizing,
                           sent, retries, forced>>
       ELSE CompleteFailure(t)

\* ON CONFLICT keeps the approval the step already has, decided or not.
OpenApproval(t) ==
    /\ Unsent(t) /\ ~IsDryRun(t) /\ Def[t.row].type = "approval"
    /\ t.row \notin Locked
    /\ IF Owns(t)
       THEN /\ tasks' = tasks \ {t}
            /\ rowStatus' = [rowStatus EXCEPT ![t.row] = "waiting_approval"]
            /\ leaseOwner' = [leaseOwner EXCEPT ![t.row] = NoWorker]
            /\ approval' = [approval EXCEPT ![t.row] = IF @ = "none" THEN "pending" ELSE @]
            /\ execStatus' = [execStatus EXCEPT ![ExecutionOf(t.row)] = "waiting_approval"]
            /\ UNCHANGED <<cancelRequested, attempt, overdue, finalizing, sent, retries, forced>>
       ELSE CompleteFailure(t)

\* The request of an http or a plugin step leaves the engine; from here its effect may exist.
SendRequest(t) ==
    /\ Unsent(t) /\ ~IsDryRun(t) /\ Def[t.row].type \in {"http", "plugin"}
    /\ \A f \in finalizing : t \notin f.by
    /\ sent' = [sent EXCEPT ![t.row] = @ \cup {t.attempt}]
    /\ UNCHANGED <<execStatus, cancelRequested, rowStatus, leaseOwner, attempt, approval,
                   overdue, tasks, finalizing, retries, forced>>

\* A failure before anything was sent: condition inputs, URL guard, credentials, encoding,
\* or a store call of a wait or an approval that returned an error.
FailBeforeSend(t) ==
    /\ Unsent(t)
    /\ ~IsDryRun(t) \/ Def[t.row].conditional
    /\ CompleteFailure(t)

RemoteSucceeded(t) ==
    /\ ~Unsent(t)
    /\ CompleteSuccess(t, SuccessStatus(t.row))

\* A transport error, a timeout, an oversized body or a status outside 2xx.
RemoteFailed(t) ==
    /\ ~Unsent(t)
    /\ IF SafeReplay(t.row) THEN CompleteFailure(t) ELSE MarkExecutionStepAmbiguous(t)

\* The process dies, or the report itself fails and is only logged; its transaction is
\* rolled back.
AbandonTask(t) ==
    /\ tasks' = tasks \ {t}
    /\ finalizing' = {f \in finalizing : t \notin f.by}
    /\ UNCHANGED <<execStatus, cancelRequested, rowStatus, leaseOwner, attempt, approval,
                   overdue, sent, retries, forced>>

-----------------------------------------------------------------------------
(***************************************************************************)
(* AdvanceRunbookTimers.  Its two loops share one transaction: the loop    *)
(* over expired approvals executes updates while its own rows are open, so *)
(* when the driver refuses that, one overdue approval aborts the           *)
(* transaction and with it every wait of every execution.                  *)
(***************************************************************************)

Overdue == {s \in overdue : approval[s] = "pending"}

\* Mutant: the query takes every approval past its expiry, the decided ones too.
TimersCommitUnlessExpired == OpenRowsBlockExec => overdue = {}

TimersCommit == OpenRowsBlockExec => Overdue = {}

CompleteWait(s) ==
    LET rs == [rowStatus EXCEPT ![s] = "completed"] IN
    /\ TimersCommit
    /\ rowStatus[s] = "waiting" /\ s \notin Locked
    /\ IF NothingRemains(execStatus, rs, ExecutionOf(s))
       THEN ReadFinal(s, {}, "completed")
       ELSE /\ rowStatus' = rs
            /\ UNCHANGED <<execStatus, cancelRequested, leaseOwner, attempt, approval, overdue,
                           tasks, finalizing, sent, retries, forced>>

\* expires_at passes.
ApprovalDeadline(s) ==
    /\ approval[s] = "pending" /\ Def[s].expires /\ s \notin overdue
    /\ overdue' = overdue \cup {s}
    /\ UNCHANGED <<execStatus, cancelRequested, rowStatus, leaseOwner, attempt, approval, tasks,
                   finalizing, sent, retries, forced>>

ExpireApproval(s) ==
    /\ TimersCommit
    /\ s \in Overdue
    /\ approval' = [approval EXCEPT ![s] = "expired"]
    /\ rowStatus' = [rowStatus EXCEPT ![s] = "failed"]
    /\ execStatus' = [execStatus EXCEPT ![ExecutionOf(s)] = "failed"]
    /\ UNCHANGED <<cancelRequested, leaseOwner, attempt, overdue, tasks, finalizing, sent,
                   retries, forced>>

-----------------------------------------------------------------------------
(***************************************************************************)
(* The operator's calls.                                                   *)
(***************************************************************************)

Decidable(s) == approval[s] = "pending"

\* An approved step completes and the execution runs, whatever they were before.
DecideApproval(s, decision) ==
    LET e == ExecutionOf(s)
        rs == [rowStatus EXCEPT ![s] = IF decision = "approved" THEN "completed"
                                                                ELSE "failed"]
    IN
    /\ Decidable(s)
    /\ approval' = [approval EXCEPT ![s] = decision]
    /\ rowStatus' = rs
    /\ execStatus' = IF decision = "approved"
                     THEN Finalized([execStatus EXCEPT ![e] = "running"], rs, e)
                     ELSE [execStatus EXCEPT ![e] = "failed"]
    /\ UNCHANGED <<cancelRequested, leaseOwner, attempt, overdue, tasks, finalizing, sent,
                   retries, forced>>

PauseExecution(e) ==
    /\ execStatus[e] = "running"
    /\ execStatus' = [execStatus EXCEPT ![e] = "paused"]
    /\ UNCHANGED <<cancelRequested, rowStatus, leaseOwner, attempt, approval, overdue, tasks,
                   finalizing, sent, retries, forced>>

ResumeExecution(e) ==
    /\ execStatus[e] = "paused"
    /\ execStatus' = [execStatus EXCEPT ![e] = "running"]
    /\ UNCHANGED <<cancelRequested, rowStatus, leaseOwner, attempt, approval, overdue, tasks,
                   finalizing, sent, retries, forced>>

\* Mutant: everything that no worker holds is canceled.
CancelableUnlessLeased(e) == {s \in RowsOf(e) : rowStatus[s] \notin Leased \cup {"none"}}

\* Mutant: everything unfinished that no worker holds is canceled.
CancelableUnfinished(e) ==
    {s \in RowsOf(e) : rowStatus[s] \notin Passed \cup Leased \cup {"none"}}

Cancelable(e) ==
    {s \in RowsOf(e) : rowStatus[s] \in {"pending", "retrying", "waiting", "waiting_approval"}}

\* Leased steps and open approvals are left as they are; for the row of a wait that the
\* timers have locked the cancel waits.
CancelExecution(e) ==
    /\ execStatus[e] \notin {"none", "completed", "canceled", "rolled_back"}
    /\ Cancelable(e) \cap Locked = {}
    /\ execStatus' = [execStatus EXCEPT ![e] = "canceled"]
    /\ cancelRequested' = [cancelRequested EXCEPT ![e] = TRUE]
    /\ rowStatus' = [s \in Row |-> IF s \in Cancelable(e) THEN "canceled" ELSE rowStatus[s]]
    /\ leaseOwner' = [s \in Row |-> IF s \in Cancelable(e) THEN NoWorker ELSE leaseOwner[s]]
    /\ UNCHANGED <<attempt, approval, overdue, tasks, finalizing, sent, retries, forced>>

\* attempt_count is kept, and the execution runs in whatever direction the step belongs to.
RetryExecutionStep(s, force) ==
    /\ retries[s] < MaxOperatorRetries
    /\ rowStatus[s] \in {"failed", "ambiguous"}
    /\ rowStatus[s] = "ambiguous" /\ ~SafeReplay(s) => force
    /\ rowStatus' = [rowStatus EXCEPT ![s] = "retrying"]
    /\ leaseOwner' = [leaseOwner EXCEPT ![s] = NoWorker]
    /\ execStatus' = [execStatus EXCEPT ![ExecutionOf(s)] = "running"]
    /\ retries' = [retries EXCEPT ![s] = @ + 1]
    /\ forced' = [forced EXCEPT ![s] = IF rowStatus[s] = "ambiguous" THEN @ + 1 ELSE @]
    /\ UNCHANGED <<cancelRequested, attempt, approval, overdue, tasks, finalizing, sent>>

\* Mutant: every step that was attempted is rolled back.
RollbackRowsAttempted(e) ==
    {s \in RowsOf(e) : IsRollback(s) /\ rowStatus[Def[s].rollbackOf] # "pending"}

\* The rollback rows of the steps that completed.
RollbackRows(e) ==
    {s \in RowsOf(e) : IsRollback(s) /\ rowStatus[Def[s].rollbackOf] = "completed"}

StartExecutionRollback(e) ==
    /\ execStatus[e] \in {"completed", "failed", "ambiguous"}
    /\ \A s \in RowsOf(e) : IsRollback(s) => rowStatus[s] = "none"
    /\ RollbackRows(e) # {}
    /\ rowStatus' = [s \in Row |-> IF s \in RollbackRows(e) THEN "pending" ELSE rowStatus[s]]
    /\ execStatus' = [execStatus EXCEPT ![e] = "rolling_back"]
    /\ UNCHANGED <<cancelRequested, leaseOwner, attempt, approval, overdue, tasks, finalizing,
                   sent, retries, forced>>

-----------------------------------------------------------------------------
ExecuteStep(t) ==
    \/ SkipStep(t)
    \/ DryRunStep(t)
    \/ ScheduleWait(t)
    \/ OpenApproval(t)
    \/ SendRequest(t)
    \/ FailBeforeSend(t)
    \/ RemoteSucceeded(t)
    \/ RemoteFailed(t)
    \/ AbandonTask(t)

Timers ==
    \E s \in Row : CompleteWait(s) \/ ApprovalDeadline(s) \/ ExpireApproval(s)

Engine ==
    \/ \E w \in Worker, s \in Row : ClaimExecutionStep(w, s)
    \/ \E s \in Row : RecoverExpiredStepLease(s)
    \/ \E t \in tasks : ExecuteStep(t)
    \/ \E f \in finalizing : CommitFinal(f)
    \/ Timers

Operator ==
    \/ \E e \in Execution : \/ PauseExecution(e)
                            \/ ResumeExecution(e)
                            \/ CancelExecution(e)
                            \/ StartExecutionRollback(e)
    \/ \E s \in Row, force \in BOOLEAN : RetryExecutionStep(s, force)
    \/ \E s \in Row, decision \in {"approved", "rejected"} : DecideApproval(s, decision)

Next ==
    \/ \E e \in Execution : StartExecution(e)
    \/ Engine
    \/ Operator

Spec == Init /\ [][Next]_vars

(***************************************************************************)
(* Fairness: every engine ticks twice a second for ever, leases and waits   *)
(* and approval deadlines end, and every goroutine has a timeout.  Nothing *)
(* is assumed of the operator, who need not even decide an approval.       *)
(***************************************************************************)
Fairness ==
    /\ \A s \in Row :
        /\ WF_vars(\E w \in Worker : ClaimExecutionStep(w, s))
        /\ WF_vars(RecoverExpiredStepLease(s))
        /\ WF_vars(CompleteWait(s))
        /\ WF_vars(ApprovalDeadline(s))
        /\ WF_vars(ExpireApproval(s))
    /\ WF_vars(\E t \in tasks : ExecuteStep(t))
    /\ WF_vars(\E f \in finalizing : CommitFinal(f))

\* No step is retried by an operator and no execution rolled back.  Executions may be paused,
\* resumed and canceled, and approvals decided, at any time or never.
Supervised ==
    \/ \E e \in Execution : \/ StartExecution(e)
                            \/ PauseExecution(e)
                            \/ ResumeExecution(e)
                            \/ CancelExecution(e)
    \/ Engine
    \/ \E s \in Row, decision \in {"approved", "rejected"} : DecideApproval(s, decision)

-----------------------------------------------------------------------------
(***************************************************************************)
(* Safety.                                                                 *)
(***************************************************************************)

NonIdempotentHTTP(s) == Def[s].type = "http" /\ ~Def[s].idempotencyHeader

\* A request without idempotency protection leaves the engine at most once per decision of a
\* human: once for the execution itself and once for every forced retry of an ambiguous step,
\* however often leases expire, workers crash, and stale goroutines report late.
SendsAreAuthorized ==
    \A s \in Row : NonIdempotentHTTP(s) => Cardinality(sent[s]) <= 1 + forced[s]

\* Once a step has been attempted, every step before it (after it, when rolling back) is done
\* for good: no retry, recovery, cancel or late report reopens what a later step relied on.
StepsRunInOrder ==
    \A s \in Row : attempt[s] > 0 =>
        \A p \in Preceding(s) : rowStatus[p] \in Passed \cup {"none"}

\* Two goroutines never execute the same attempt of a step, though two may well be executing
\* two attempts of it once a lease has expired.
AttemptsAreExclusive ==
    \A t, u \in tasks : t.row = u.row /\ t.attempt = u.attempt => t = u

\* An execution that nobody canceled is reported completed or rolled back only when every one
\* of its steps is, though finalizeExecutionIfDone decides on a status it has read without a
\* lock and its update overwrites a pause that came in between.
FinalStatusIsEarned ==
    \A e \in Execution : execStatus[e] \in {"completed", "rolled_back"} /\ ~cancelRequested[e] =>
        \A s \in RowsOf(e) : rowStatus[s] \in Passed \cup {"none"}

\* Rollback rows exist only for steps that completed, and their source stays completed while
\* they run.
RollbackUndoesCompletedSteps ==
    \A s \in Row : IsRollback(s) /\ rowStatus[s] # "none" =>
        rowStatus[Def[s].rollbackOf] = "completed"

\* A completed, skipped or rolled back step never changes again: the late failure of a stale
\* goroutine cannot undo it.
DoneStepsStayDone ==
    [][\A s \in Row : rowStatus[s] \in Passed => rowStatus'[s] = rowStatus[s]]_vars

\* An execution that completed and was never canceled leaves that status only for a rollback,
\* and a rolled back one keeps it.
FinalStatusIsFinal ==
    [][\A e \in Execution : ~cancelRequested[e] =>
          /\ execStatus[e] = "completed" => execStatus'[e] \in {"completed", "rolling_back"}
          /\ execStatus[e] = "rolled_back" => execStatus'[e] = "rolled_back"]_vars

\* A step is attempted maxAttempts times, and once more for every retry by an operator: leases
\* that expire, reports that come late, and goroutines that share a worker's name hand out no
\* attempt on top of those.
AttemptsAreBounded ==
    \A s \in Row : attempt[s] <= Def[s].maxAttempts + retries[s]

\* An ambiguous step stays ambiguous until an operator retries it.
AmbiguityNeedsOperator ==
    [][\A s \in Row : rowStatus[s] = "ambiguous" =>
          rowStatus'[s] = "ambiguous" \/ retries'[s] = retries[s] + 1]_vars

-----------------------------------------------------------------------------
(***************************************************************************)
(* Liveness.                                                               *)
(***************************************************************************)

\* An execution that waits for a human: for the decision of its own approval, or with a wait
\* that has to end in the transaction another execution's overdue approval aborts.
WaitsForDecision(e) ==
    \E s \in RowsOf(e) :
        \/ rowStatus[s] = "waiting_approval" /\ approval[s] = "pending"
        \/ rowStatus[s] = "waiting" /\ Overdue # {}

\* An execution that is never paused or canceled comes to rest in a status an operator
\* understands, or is left waiting for a decision nobody makes: through crashes, lost reports
\* and expired leases, none is left running with nobody to run it.
EventuallySettles ==
    \A e \in Execution :
        [](execStatus[e] # "paused" /\ ~cancelRequested[e]) =>
            <>[](\/ execStatus[e] \in {"none", "completed", "failed", "ambiguous"}
                \/ WaitsForDecision(e))

\* Waits end, in whatever execution they are and whatever is done to it, unless an overdue
\* approval is left undecided for ever.
WaitsEnd ==
    <>[](Overdue = {}) => \A s \in Row : rowStatus[s] = "waiting" ~> rowStatus[s] # "waiting"

\* No step is executed for ever: pauses, cancels, approvals of canceled steps and recoveries
\* that set the execution running again notwithstanding, each is at some time leased for the
\* last time and released.
StepsComeToRest ==
    \A s \in Row : <>[](rowStatus[s] \notin Leased)

-----------------------------------------------------------------------------
(***************************************************************************)
(* What the documentation says and the code does not do.                   *)
(***************************************************************************)

\* docs/failure-testing.md: the engine never replays a non-idempotent request by itself.  An
\* attempt that was sent does not go from running back to retrying.
NoAutomaticReplay ==
    [][\A s \in Row :
          NonIdempotentHTTP(s) /\ rowStatus[s] \in Leased /\ attempt[s] \in sent[s] =>
              rowStatus'[s] # "retrying"]_vars
=============================================================================
