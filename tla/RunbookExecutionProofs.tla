----------------------- MODULE RunbookExecutionProofs -----------------------
(***************************************************************************)
(* Proofs about RunbookExecution, for any set of executions, rows and      *)
(* workers, any runbook, any concurrency and any number of retries.        *)
(***************************************************************************)
EXTENDS RunbookExecution, TLAPS

\* Zenon is tried first, and a step it is not made for cites the SMT solver.  Both get more time
\* than by default: preparing the next step counts against it.
USE ZenonT(30), SMTT(30)

-----------------------------------------------------------------------------
(***************************************************************************)
(* Type correctness.                                                       *)
(***************************************************************************)

\* What the constants of a row are.
LEMMA RowConstants ==
    ASSUME NEW s \in Row
    PROVE  /\ Def[s] \in StepDefinition
           /\ ExecutionOf(s) \in Execution
           /\ Def[s].maxAttempts \in Nat
           /\ Def[s].position \in Nat
           /\ IsRollback(s) => Def[s].rollbackOf \in Row
BY ConstantsAssumption DEF StepDefinition, ExecutionOf, IsRollback

\* A transaction that has read that nothing remains keeps the types, and so does its commit.
LEMMA FinalKeepsTypes ==
    ASSUME TypeOK
    PROVE  /\ \A s \in Row, by \in SUBSET Task, status \in StepStatus :
                ReadFinal(s, by, status) => TypeOK'
           /\ \A f \in finalizing : CommitFinal(f) => TypeOK'
<1>1. ASSUME NEW s \in Row, NEW by \in SUBSET Task, NEW status \in StepStatus,
             ReadFinal(s, by, status)
      PROVE  TypeOK'
  <2> DEFINE f == [row |-> s, by |-> by, status |-> status,
                   final |-> FinalStatusOf(execStatus[ExecutionOf(s)])]
  <2>1. f \in Finalizing
    BY DEF Finalizing, FinalStatusOf
  <2> QED BY <1>1, <2>1 DEF ReadFinal, TypeOK
<1>2. ASSUME NEW f \in finalizing, CommitFinal(f) PROVE TypeOK'
  <2>1. /\ f.row \in Row /\ f.status \in StepStatus /\ f.final \in {"completed", "rolled_back"}
        /\ ExecutionOf(f.row) \in Execution
    BY RowConstants DEF TypeOK, Finalizing
  <2>2. finalizing' \subseteq Finalizing /\ tasks' \subseteq Task
    BY <1>2 DEF CommitFinal, TypeOK
  <2>3. execStatus' \in [Execution -> ExecutionStatus]
    BY <1>2, <2>1 DEF CommitFinal, TypeOK, ExecutionStatus
  <2>4. rowStatus' \in [Row -> StepStatus] /\ leaseOwner' \in [Row -> Worker \cup {NoWorker}]
    BY <1>2, <2>1 DEF CommitFinal, TypeOK
  <2> QED BY <1>2, <2>2, <2>3, <2>4 DEF CommitFinal, TypeOK
<1> QED BY <1>1, <1>2

\* The ways a task reports keep the types.
LEMMA ReportsKeepTypes ==
    ASSUME TypeOK, NEW t \in tasks
    PROVE  /\ \A status \in StepStatus : CompleteSuccess(t, status) => TypeOK'
           /\ CompleteFailure(t) => TypeOK'
           /\ MarkExecutionStepAmbiguous(t) => TypeOK'
<1>1. t \in Task /\ t.row \in Row /\ t.worker \in Worker /\ t.attempt \in Nat
  BY DEF TypeOK, Task
<1>2. ExecutionOf(t.row) \in Execution
  BY <1>1, RowConstants
<1>3. ASSUME NEW status \in StepStatus, CompleteSuccess(t, status)
      PROVE  TypeOK'
  <2>1. CASE ReadFinal(t.row, {t}, status)
    BY <1>1, <2>1, FinalKeepsTypes
  <2>2. CASE ~ReadFinal(t.row, {t}, status)
    BY <1>1, <1>2, <1>3, <2>2, ConstantsAssumption
    DEF CompleteSuccess, ReleaseIfOwned, LeaseReleased, TypeOK, StepStatus
  <2> QED BY <2>1, <2>2
<1>4. ASSUME CompleteFailure(t) PROVE TypeOK'
  BY <1>1, <1>2, <1>4, ConstantsAssumption
  DEF CompleteFailure, ReleaseIfOwned, LeaseReleased, TypeOK, StepStatus, ExecutionStatus
<1>5. ASSUME MarkExecutionStepAmbiguous(t) PROVE TypeOK'
  BY <1>1, <1>2, <1>5, ConstantsAssumption
  DEF MarkExecutionStepAmbiguous, TypeOK, StepStatus, ExecutionStatus
<1> QED BY <1>3, <1>4, <1>5

\* Every step of a goroutine keeps the types.
LEMMA TasksKeepTypes ==
    ASSUME TypeOK, NEW t \in tasks, ExecuteStep(t)
    PROVE  TypeOK'
<1>1. t \in Task /\ t.row \in Row /\ t.worker \in Worker /\ t.attempt \in Nat
  BY DEF TypeOK, Task
<1>2. ExecutionOf(t.row) \in Execution
  BY <1>1, RowConstants
<1>3. "skipped" \in StepStatus /\ SuccessStatus(t.row) \in StepStatus
  BY DEF StepStatus, SuccessStatus
<1>4. CASE SkipStep(t)
  BY <1>3, <1>4, ReportsKeepTypes DEF SkipStep
<1>5. CASE DryRunStep(t)
  BY <1>3, <1>5, ReportsKeepTypes DEF DryRunStep
<1>6. CASE ScheduleWait(t)
  <2>1. CASE CompleteFailure(t) BY <2>1, ReportsKeepTypes
  <2>2. CASE ~CompleteFailure(t)
    BY <1>1, <1>2, <1>6, <2>2, ConstantsAssumption
    DEF ScheduleWait, TypeOK, StepStatus, ExecutionStatus
  <2> QED BY <2>1, <2>2
<1>7. CASE OpenApproval(t)
  <2>1. CASE CompleteFailure(t) BY <2>1, ReportsKeepTypes
  <2>2. CASE ~CompleteFailure(t)
    BY <1>1, <1>2, <1>7, <2>2, ConstantsAssumption, SMTT(30)
    DEF OpenApproval, TypeOK, StepStatus, ExecutionStatus, ApprovalStatus
  <2> QED BY <2>1, <2>2
<1>8. CASE SendRequest(t)
  BY <1>1, <1>8 DEF SendRequest, TypeOK
<1>9. CASE FailBeforeSend(t)
  BY <1>9, ReportsKeepTypes DEF FailBeforeSend
<1>10. CASE RemoteSucceeded(t)
  BY <1>3, <1>10, ReportsKeepTypes DEF RemoteSucceeded
<1>11. CASE RemoteFailed(t)
  BY <1>11, ReportsKeepTypes DEF RemoteFailed
<1>12. CASE AbandonTask(t)
  BY <1>12 DEF AbandonTask, TypeOK
<1> QED
  BY <1>4, <1>5, <1>6, <1>7, <1>8, <1>9, <1>10, <1>11, <1>12 DEF ExecuteStep

\* Every step of the system keeps the types.
LEMMA NextKeepsTypes == TypeOK /\ [Next]_vars => TypeOK'
<1> SUFFICES ASSUME TypeOK, [Next]_vars PROVE TypeOK'
  OBVIOUS
<1> USE ConstantsAssumption, RowConstants
<1>1. ASSUME NEW e \in Execution, StartExecution(e) PROVE TypeOK'
  BY <1>1 DEF StartExecution, TypeOK, StepStatus, ExecutionStatus
<1>2. ASSUME NEW w \in Worker, NEW s \in Row, ClaimExecutionStep(w, s) PROVE TypeOK'
  BY <1>2, SMTT(30) DEF ClaimExecutionStep, NextAttempt, TypeOK, StepStatus, Task
<1>3. ASSUME NEW s \in Row, RecoverExpiredStepLease(s) PROVE TypeOK'
  BY <1>3 DEF RecoverExpiredStepLease, TypeOK, StepStatus, ExecutionStatus
<1>4. ASSUME NEW s \in Row, CompleteWait(s) PROVE TypeOK'
  <2>1. CASE ReadFinal(s, {}, "completed")
    BY <2>1, FinalKeepsTypes DEF StepStatus
  <2>2. CASE ~ReadFinal(s, {}, "completed")
    BY <1>4, <2>2 DEF CompleteWait, TypeOK, StepStatus
  <2> QED BY <2>1, <2>2
<1>5. ASSUME NEW s \in Row, ApprovalDeadline(s) PROVE TypeOK'
  BY <1>5 DEF ApprovalDeadline, TypeOK
<1>6. ASSUME NEW s \in Row, ExpireApproval(s) PROVE TypeOK'
  BY <1>6 DEF ExpireApproval, TypeOK, StepStatus, ExecutionStatus, ApprovalStatus
<1>7. ASSUME NEW e \in Execution, PauseExecution(e) PROVE TypeOK'
  BY <1>7 DEF PauseExecution, TypeOK, ExecutionStatus
<1>8. ASSUME NEW e \in Execution, ResumeExecution(e) PROVE TypeOK'
  BY <1>8 DEF ResumeExecution, TypeOK, ExecutionStatus
<1>9. ASSUME NEW e \in Execution, CancelExecution(e) PROVE TypeOK'
  BY <1>9 DEF CancelExecution, TypeOK, StepStatus, ExecutionStatus
<1>10. ASSUME NEW e \in Execution, StartExecutionRollback(e) PROVE TypeOK'
  BY <1>10 DEF StartExecutionRollback, TypeOK, StepStatus, ExecutionStatus
<1>11. ASSUME NEW s \in Row, NEW force \in BOOLEAN, RetryExecutionStep(s, force) PROVE TypeOK'
  BY <1>11, SMTT(30) DEF RetryExecutionStep, TypeOK, StepStatus, ExecutionStatus
<1>12. ASSUME NEW s \in Row, NEW decision \in {"approved", "rejected"},
              DecideApproval(s, decision)
       PROVE  TypeOK'
  BY <1>12
  DEF DecideApproval, Finalized, FinalStatusOf, TypeOK, StepStatus, ExecutionStatus,
      ApprovalStatus
<1>13. CASE UNCHANGED vars
  BY <1>13 DEF vars, TypeOK
<1> QED
  BY <1>1, <1>2, <1>3, <1>4, <1>5, <1>6, <1>7, <1>8, <1>9, <1>10, <1>11, <1>12, <1>13,
     FinalKeepsTypes, TasksKeepTypes
  DEF Next, Engine, Timers, Operator

\* The rows of the three tables and the goroutines only ever hold values of their types: in
\* particular every status written is one the schema knows.
THEOREM TypeCorrect == Spec => []TypeOK
<1>1. Init => TypeOK
  BY ConstantsAssumption, SMTT(30)
  DEF Init, TypeOK, ExecutionStatus, StepStatus, ApprovalStatus
<1> QED
  BY <1>1, NextKeepsTypes, PTL DEF Spec

-----------------------------------------------------------------------------
(***************************************************************************)
(* The row invariant: what holds of every row whatever else is going on.   *)
(* A lease is held only on a running step; an open approval belongs to a   *)
(* step that waits for it or was canceled; a row exists only once its      *)
(* execution does, and is attempted only once it exists; a row is canceled *)
(* only by a recorded cancel; the row that a transaction ending its        *)
(* execution has locked is still leased or waiting, and locked once.       *)
(***************************************************************************)

LeaseInv == \A s \in Row : leaseOwner[s] # NoWorker => rowStatus[s] \in Leased

ApprovalInv ==
    \A s \in Row :
        /\ approval[s] # "none" => Def[s].type = "approval"
        /\ approval[s] = "pending" => rowStatus[s] \in {"waiting_approval", "canceled"}

StartInv ==
    \A s \in Row :
        /\ rowStatus[s] = "none" => attempt[s] = 0
        /\ execStatus[ExecutionOf(s)] = "none" => rowStatus[s] = "none"

CancelInv == \A s \in Row : rowStatus[s] = "canceled" => cancelRequested[ExecutionOf(s)]

LockInv ==
    /\ \A f \in finalizing : f.status \in Passed /\ rowStatus[f.row] \in Leased \cup {"waiting"}
    /\ \A f, g \in finalizing : f.row = g.row => f = g

RowInv == TypeOK /\ LeaseInv /\ ApprovalInv /\ StartInv /\ CancelInv /\ LockInv

\* What a step may do to a row: nothing; move it on from a status that is not final; or insert
\* it, together with every other row of its direction.
RowStep(s) ==
    \/ rowStatus'[s] = rowStatus[s]
    \/ /\ rowStatus[s] \notin Passed \cup {"none"}
       /\ rowStatus'[s] # "none"
    \/ /\ rowStatus[s] = "none"
       /\ rowStatus'[s] = "pending"
       /\ attempt' = attempt
       /\ IsRollback(s) => rowStatus[Def[s].rollbackOf] = "completed"
       /\ \A r \in Row : ExecutionOf(r) = ExecutionOf(s) /\ IsRollback(r) = IsRollback(s)
                            => rowStatus[r] = "none"

RowsStep == RowInv' /\ \A s \in Row : RowStep(s)

\* A step that locks no row and moves no locked one keeps LockInv.
LEMMA LocksAreKept ==
    ASSUME LockInv, finalizing' \subseteq finalizing,
           \A f \in finalizing' : rowStatus'[f.row] = rowStatus[f.row]
    PROVE  LockInv'
BY DEF LockInv

\* A row is locked once, while it is leased or waiting.
LEMMA ReadFinalLocks ==
    ASSUME LockInv, NEW s \in Row \ Locked, rowStatus[s] \in Leased \cup {"waiting"},
           NEW by, NEW status \in Passed, ReadFinal(s, by, status)
    PROVE  LockInv'
<1> DEFINE f == [row |-> s, by |-> by, status |-> status,
                 final |-> FinalStatusOf(execStatus[ExecutionOf(s)])]
<1>1. f.row = s /\ f.status = status
  OBVIOUS
<1>2. finalizing' = finalizing \cup {f} /\ rowStatus' = rowStatus
  BY DEF ReadFinal
<1>3. \A g \in finalizing : g.row # s
  BY DEF Locked
<1> HIDE DEF f
<1> QED BY <1>1, <1>2, <1>3 DEF LockInv

\* The reports of a goroutine do not touch a row that another has locked.
LEMMA ReportsKeepLocks ==
    ASSUME RowInv, NEW t \in tasks
    PROVE  /\ \A status \in Passed : CompleteSuccess(t, status) => LockInv'
           /\ CompleteFailure(t) => LockInv'
           /\ MarkExecutionStepAmbiguous(t) => LockInv'
<1>1. /\ t.row \in Row /\ LockInv /\ rowStatus \in [Row -> StepStatus]
      /\ \A f \in finalizing : f.row \in Row
  BY DEF RowInv, TypeOK, Task, Finalizing
<1>2. ASSUME t.row \notin Locked, finalizing' = finalizing,
             \/ rowStatus' = rowStatus
             \/ \E status : rowStatus' = [rowStatus EXCEPT ![t.row] = status]
      PROVE  LockInv'
  <2>1. \A f \in finalizing : f.row # t.row
    BY <1>2 DEF Locked
  <2> QED BY <1>1, <1>2, <2>1, LocksAreKept
<1>3. ASSUME NEW status \in Passed, CompleteSuccess(t, status) PROVE LockInv'
  <2>1. CASE ReadFinal(t.row, {t}, status) /\ StillLeased(t)
    BY <1>1, <1>3, <2>1, ReadFinalLocks DEF CompleteSuccess, StillLeased
  <2>2. CASE ~(ReadFinal(t.row, {t}, status) /\ StillLeased(t))
    BY <1>2, <1>3, <2>2 DEF CompleteSuccess, ReleaseIfOwned
  <2> QED BY <2>1, <2>2
<1>4. ASSUME CompleteFailure(t) PROVE LockInv'
  BY <1>2, <1>4 DEF CompleteFailure, ReleaseIfOwned
<1>5. ASSUME MarkExecutionStepAmbiguous(t) PROVE LockInv'
  BY <1>2, <1>5 DEF MarkExecutionStepAmbiguous
<1> QED BY <1>3, <1>4, <1>5

\* No step of a goroutine touches a row that another has locked.
LEMMA TasksKeepLocks ==
    ASSUME RowInv, NEW t \in tasks, ExecuteStep(t)
    PROVE  LockInv'
<1>1. /\ t.row \in Row /\ LockInv /\ rowStatus \in [Row -> StepStatus]
      /\ \A f \in finalizing : f.row \in Row
  BY DEF RowInv, TypeOK, Task, Finalizing
<1>2. "skipped" \in Passed /\ SuccessStatus(t.row) \in Passed
  BY DEF Passed, SuccessStatus
<1>3. CASE SkipStep(t) \/ DryRunStep(t) \/ RemoteSucceeded(t)
  BY <1>2, <1>3, ReportsKeepLocks DEF SkipStep, DryRunStep, RemoteSucceeded
<1>4. CASE FailBeforeSend(t) \/ RemoteFailed(t)
  BY <1>4, ReportsKeepLocks DEF FailBeforeSend, RemoteFailed
<1>5. CASE ScheduleWait(t) \/ OpenApproval(t)
  <2>1. CASE CompleteFailure(t) BY <2>1, ReportsKeepLocks
  <2>2. CASE ~CompleteFailure(t)
    <3>1. /\ t.row \notin Locked /\ finalizing' = finalizing
          /\ \E status : rowStatus' = [rowStatus EXCEPT ![t.row] = status]
      BY <1>5, <2>2 DEF ScheduleWait, OpenApproval
    <3>2. \A f \in finalizing : rowStatus'[f.row] = rowStatus[f.row]
      BY <1>1, <3>1 DEF Locked
    <3> QED BY <1>1, <3>1, <3>2, LocksAreKept
  <2> QED BY <2>1, <2>2
<1>6. CASE SendRequest(t) \/ AbandonTask(t)
  <2>1. finalizing' \subseteq finalizing /\ rowStatus' = rowStatus
    BY <1>6 DEF SendRequest, AbandonTask
  <2> QED BY <1>1, <2>1, LocksAreKept
<1> QED
  BY <1>3, <1>4, <1>5, <1>6 DEF ExecuteStep

\* No step of the system touches a row that a transaction has locked, but its own commit.
LEMMA NextKeepsLocks ==
    ASSUME RowInv, [Next]_vars
    PROVE  LockInv'
<1>1. /\ LockInv /\ rowStatus \in [Row -> StepStatus]
      /\ \A f \in finalizing : /\ f.row \in Row
                               /\ rowStatus[f.row] \in {"running", "rolling_back", "waiting"}
                               /\ approval[f.row] # "pending"
                               /\ execStatus[ExecutionOf(f.row)] # "none"
  BY DEF RowInv, TypeOK, Finalizing, LockInv, Leased, ApprovalInv, StartInv
<1>2. SUFFICES \/ LockInv'
               \/ /\ finalizing' = finalizing
                  /\ \A f \in finalizing : rowStatus'[f.row] = rowStatus[f.row]
  BY <1>1, LocksAreKept
<1>3. ASSUME NEW e \in Execution, StartExecution(e)
      PROVE  finalizing' = finalizing /\ \A f \in finalizing : rowStatus'[f.row] = rowStatus[f.row]
  BY <1>1, <1>3 DEF StartExecution
<1>4. ASSUME NEW w \in Worker, NEW s \in Row, ClaimExecutionStep(w, s)
      PROVE  finalizing' = finalizing /\ \A f \in finalizing : rowStatus'[f.row] = rowStatus[f.row]
  BY <1>1, <1>4 DEF ClaimExecutionStep, Claimable
<1>5. ASSUME NEW s \in Row, RecoverExpiredStepLease(s)
      PROVE  finalizing' = finalizing /\ \A f \in finalizing : rowStatus'[f.row] = rowStatus[f.row]
  BY <1>1, <1>5 DEF RecoverExpiredStepLease, Locked
<1>6. ASSUME NEW s \in Row, CompleteWait(s) PROVE LockInv'
  <2>1. CASE ReadFinal(s, {}, "completed")
    BY <1>1, <1>6, <2>1, ReadFinalLocks DEF CompleteWait, Passed
  <2>2. CASE ~ReadFinal(s, {}, "completed")
    <3>1. finalizing' = finalizing /\ \A f \in finalizing : rowStatus'[f.row] = rowStatus[f.row]
      BY <1>1, <1>6, <2>2 DEF CompleteWait, Locked
    <3> QED BY <1>1, <3>1, LocksAreKept
  <2> QED BY <2>1, <2>2
<1>7. ASSUME NEW s \in Row, ApprovalDeadline(s) \/ ExpireApproval(s)
      PROVE  finalizing' = finalizing /\ \A f \in finalizing : rowStatus'[f.row] = rowStatus[f.row]
  BY <1>1, <1>7 DEF ApprovalDeadline, ExpireApproval, Overdue
<1>8. ASSUME NEW e \in Execution, PauseExecution(e) \/ ResumeExecution(e)
      PROVE  finalizing' = finalizing /\ \A f \in finalizing : rowStatus'[f.row] = rowStatus[f.row]
  BY <1>8 DEF PauseExecution, ResumeExecution
<1>9. ASSUME NEW e \in Execution, CancelExecution(e)
      PROVE  finalizing' = finalizing /\ \A f \in finalizing : rowStatus'[f.row] = rowStatus[f.row]
  BY <1>1, <1>9 DEF CancelExecution, Locked
<1>10. ASSUME NEW e \in Execution, StartExecutionRollback(e)
       PROVE  finalizing' = finalizing /\ \A f \in finalizing : rowStatus'[f.row] = rowStatus[f.row]
  BY <1>1, <1>10 DEF StartExecutionRollback, RollbackRows
<1>11. ASSUME NEW s \in Row, NEW force \in BOOLEAN, RetryExecutionStep(s, force)
       PROVE  finalizing' = finalizing /\ \A f \in finalizing : rowStatus'[f.row] = rowStatus[f.row]
  BY <1>1, <1>11 DEF RetryExecutionStep
<1>12. ASSUME NEW s \in Row, NEW decision \in {"approved", "rejected"},
              DecideApproval(s, decision)
       PROVE  finalizing' = finalizing /\ \A f \in finalizing : rowStatus'[f.row] = rowStatus[f.row]
  BY <1>1, <1>12 DEF DecideApproval, Decidable
<1>13. ASSUME NEW f \in finalizing, CommitFinal(f) PROVE LockInv'
  <2>1. finalizing' \subseteq finalizing /\ \A g \in finalizing' : g.row # f.row
    BY <1>1, <1>13 DEF CommitFinal, LockInv
  <2>2. \A g \in finalizing' : rowStatus'[g.row] = rowStatus[g.row]
    BY <1>1, <1>13, <2>1 DEF CommitFinal
  <2> QED BY <1>1, <2>1, <2>2, LocksAreKept
<1>14. CASE UNCHANGED vars
  BY <1>14 DEF vars
<1> QED
  BY <1>3, <1>4, <1>5, <1>6, <1>7, <1>8, <1>9, <1>10, <1>11, <1>12, <1>13, <1>14,
     TasksKeepLocks
  DEF Next, Engine, Timers, Operator

\* The reports of a goroutine keep the row invariant and move only a leased row.
LEMMA ReportsKeepRows ==
    ASSUME RowInv, TypeOK', LockInv', NEW t \in tasks
    PROVE  /\ \A status \in Passed : CompleteSuccess(t, status) => RowsStep
           /\ CompleteFailure(t) => RowsStep
           /\ MarkExecutionStepAmbiguous(t) => RowsStep
<1> USE ConstantsAssumption, RowConstants
<1>1. t.row \in Row /\ t.worker \in Worker /\ t.worker # NoWorker
  BY DEF RowInv, TypeOK, Task
<1>2. ExecutionOf(t.row) \in Execution
  BY <1>1
<1>3. ASSUME NEW status \in Passed, CompleteSuccess(t, status) PROVE RowsStep
  BY <1>1, <1>2, <1>3, SMTT(30)
  DEF CompleteSuccess, ReadFinal, StillLeased, Owns, ReleaseIfOwned, LeaseReleased, RowsStep,
      RowStep, RowInv, LeaseInv, ApprovalInv, StartInv, CancelInv, TypeOK, Leased, Passed
<1>4. ASSUME CompleteFailure(t) PROVE RowsStep
  BY <1>1, <1>2, <1>4, SMTT(30)
  DEF CompleteFailure, StillLeased, Owns, ReleaseIfOwned, LeaseReleased, RowsStep,
      RowStep, RowInv, LeaseInv, ApprovalInv, StartInv, CancelInv, TypeOK, Leased, Passed
<1>5. ASSUME MarkExecutionStepAmbiguous(t) PROVE RowsStep
  <2>1. UNCHANGED <<cancelRequested, attempt, approval>>
    BY <1>5 DEF MarkExecutionStepAmbiguous
  <2>2. CASE UNCHANGED <<rowStatus, leaseOwner, execStatus>>
    BY <2>1, <2>2
    DEF RowsStep, RowStep, RowInv, LeaseInv, ApprovalInv, StartInv, CancelInv
  <2>3. CASE ~UNCHANGED <<rowStatus, leaseOwner, execStatus>>
    <3>1. /\ rowStatus[t.row] \in Leased
          /\ rowStatus' = [rowStatus EXCEPT ![t.row] = "ambiguous"]
          /\ leaseOwner' = [leaseOwner EXCEPT ![t.row] = NoWorker]
          /\ execStatus' = [execStatus EXCEPT ![ExecutionOf(t.row)] = "ambiguous"]
      BY <1>5, <2>3 DEF MarkExecutionStepAmbiguous
    <3>2. LeaseInv'
      BY <1>1, <3>1 DEF RowInv, LeaseInv, TypeOK
    <3>3. ApprovalInv'
      BY <1>1, <2>1, <3>1 DEF RowInv, ApprovalInv, TypeOK, Leased
    <3>4. StartInv'
      BY <1>1, <1>2, <2>1, <3>1 DEF RowInv, StartInv, TypeOK, Leased
    <3>5. CancelInv'
      BY <1>1, <2>1, <3>1 DEF RowInv, CancelInv, TypeOK
    <3>6. \A s \in Row : RowStep(s)
      BY <1>1, <3>1 DEF RowInv, RowStep, TypeOK, Leased, Passed
    <3> QED
      BY <3>2, <3>3, <3>4, <3>5, <3>6 DEF RowsStep, RowInv
  <2> QED
    BY <2>2, <2>3
<1> QED BY <1>3, <1>4, <1>5

\* Every step of a goroutine keeps the row invariant.
LEMMA TasksKeepRows ==
    ASSUME RowInv, TypeOK', LockInv', NEW t \in tasks, ExecuteStep(t)
    PROVE  RowsStep
<1> USE ConstantsAssumption, RowConstants
<1>1. t.row \in Row /\ t.worker \in Worker /\ t.worker # NoWorker
  BY DEF RowInv, TypeOK, Task
<1>2. ExecutionOf(t.row) \in Execution
  BY <1>1
<1>3. "skipped" \in Passed /\ SuccessStatus(t.row) \in Passed
  BY DEF Passed, SuccessStatus
<1>4. CASE SkipStep(t)
  BY <1>3, <1>4, ReportsKeepRows DEF SkipStep
<1>5. CASE DryRunStep(t)
  BY <1>3, <1>5, ReportsKeepRows DEF DryRunStep
<1>6. CASE ScheduleWait(t)
  <2>1. CASE CompleteFailure(t) BY <2>1, ReportsKeepRows
  <2>2. CASE ~CompleteFailure(t)
    <3>1. /\ rowStatus[t.row] = "running"
          /\ rowStatus' = [rowStatus EXCEPT ![t.row] = "waiting"]
          /\ leaseOwner' = [leaseOwner EXCEPT ![t.row] = NoWorker]
          /\ UNCHANGED <<execStatus, cancelRequested, attempt, approval>>
      BY <1>6, <2>2 DEF ScheduleWait
    <3>2. LeaseInv'
      BY <1>1, <3>1 DEF RowInv, LeaseInv, TypeOK
    <3>3. ApprovalInv'
      BY <1>1, <3>1 DEF RowInv, ApprovalInv, TypeOK
    <3>4. StartInv'
      BY <1>1, <1>2, <3>1 DEF RowInv, StartInv, TypeOK
    <3>5. CancelInv'
      BY <1>1, <3>1 DEF RowInv, CancelInv, TypeOK
    <3>6. \A s \in Row : RowStep(s)
      BY <1>1, <3>1 DEF RowInv, RowStep, TypeOK, Passed
    <3> QED
      BY <3>2, <3>3, <3>4, <3>5, <3>6 DEF RowsStep, RowInv
  <2> QED BY <2>1, <2>2
<1>7. CASE OpenApproval(t)
  <2>1. CASE CompleteFailure(t) BY <2>1, ReportsKeepRows
  <2>2. CASE ~CompleteFailure(t)
    <3>1. /\ leaseOwner[t.row] = t.worker /\ Def[t.row].type = "approval"
          /\ rowStatus' = [rowStatus EXCEPT ![t.row] = "waiting_approval"]
          /\ leaseOwner' = [leaseOwner EXCEPT ![t.row] = NoWorker]
          /\ approval' = [approval EXCEPT ![t.row] = IF @ = "none" THEN "pending" ELSE @]
          /\ execStatus' = [execStatus EXCEPT ![ExecutionOf(t.row)] = "waiting_approval"]
          /\ UNCHANGED <<cancelRequested, attempt>>
      BY <1>7, <2>2 DEF OpenApproval, Owns
    <3>2. rowStatus[t.row] \in Leased
      BY <1>1, <3>1 DEF RowInv, LeaseInv
    <3>3. LeaseInv'
      BY <1>1, <3>1 DEF RowInv, LeaseInv, TypeOK
    <3>4. ApprovalInv'
      BY <1>1, <3>1, <3>2 DEF RowInv, ApprovalInv, TypeOK, Leased
    <3>5. StartInv'
      BY <1>1, <1>2, <3>1, <3>2 DEF RowInv, StartInv, TypeOK, Leased
    <3>6. CancelInv'
      BY <1>1, <3>1 DEF RowInv, CancelInv, TypeOK
    <3>7. \A s \in Row : RowStep(s)
      BY <1>1, <3>1, <3>2 DEF RowInv, RowStep, TypeOK, Leased, Passed
    <3> QED
      BY <3>3, <3>4, <3>5, <3>6, <3>7 DEF RowsStep, RowInv
  <2> QED BY <2>1, <2>2
<1>8. CASE SendRequest(t)
  BY <1>8 DEF SendRequest, RowsStep, RowStep, RowInv, LeaseInv, ApprovalInv, StartInv, CancelInv
<1>9. CASE FailBeforeSend(t)
  BY <1>9, ReportsKeepRows DEF FailBeforeSend
<1>10. CASE RemoteSucceeded(t)
  BY <1>3, <1>10, ReportsKeepRows DEF RemoteSucceeded
<1>11. CASE RemoteFailed(t)
  BY <1>11, ReportsKeepRows DEF RemoteFailed
<1>12. CASE AbandonTask(t)
  BY <1>12 DEF AbandonTask, RowsStep, RowStep, RowInv, LeaseInv, ApprovalInv, StartInv, CancelInv
<1> QED
  BY <1>4, <1>5, <1>6, <1>7, <1>8, <1>9, <1>10, <1>11, <1>12 DEF ExecuteStep

\* Every step of the system keeps the row invariant and moves rows only as RowStep says.
LEMMA NextKeepsRows == RowInv /\ [Next]_vars => RowsStep
<1> SUFFICES ASSUME RowInv, [Next]_vars PROVE RowsStep
  OBVIOUS
<1>0. TypeOK' /\ LockInv' /\ \A s \in Row : ExecutionOf(s) \in Execution
  BY NextKeepsTypes, NextKeepsLocks, RowConstants DEF RowInv
<1>1. ASSUME NEW e \in Execution, StartExecution(e)
       PROVE  RowsStep
  <2>1. LeaseInv'
    BY <1>0, <1>1 DEF StartExecution, RowInv, LeaseInv, StartInv, TypeOK, Leased
  <2>2. ApprovalInv'
    BY <1>0, <1>1 DEF StartExecution, RowInv, ApprovalInv, StartInv, TypeOK
  <2>3. StartInv'
    BY <1>0, <1>1 DEF StartExecution, RowInv, ApprovalInv, StartInv, TypeOK, Leased
  <2>4. CancelInv'
    BY <1>0, <1>1 DEF StartExecution, RowInv, CancelInv, TypeOK, Leased
  <2>5. \A r \in Row : RowStep(r)
    BY <1>0, <1>1 DEF StartExecution, RowStep, RowInv, StartInv, TypeOK
  <2> QED
    BY <1>0, <2>1, <2>2, <2>3, <2>4, <2>5 DEF RowsStep, RowInv
<1>2. ASSUME NEW w \in Worker, NEW s \in Row, ClaimExecutionStep(w, s)
       PROVE  RowsStep
  <2>1. LeaseInv'
    BY <1>0, <1>2 DEF ClaimExecutionStep, Claimable, RowInv, LeaseInv, TypeOK, Leased
  <2>2. ApprovalInv'
    BY <1>0, <1>2 DEF ClaimExecutionStep, Claimable, RowInv, ApprovalInv, TypeOK, Leased
  <2>3. StartInv'
    BY <1>0, <1>2 DEF ClaimExecutionStep, Claimable, RowInv, ApprovalInv, StartInv, TypeOK, Leased
  <2>4. CancelInv'
    BY <1>0, <1>2 DEF ClaimExecutionStep, Claimable, RowInv, CancelInv, TypeOK, Leased
  <2>5. \A r \in Row : RowStep(r)
    BY <1>0, <1>2
    DEF ClaimExecutionStep, Claimable, RowStep, RowInv, ApprovalInv, TypeOK, Leased, Passed
  <2> QED
    BY <1>0, <2>1, <2>2, <2>3, <2>4, <2>5 DEF RowsStep, RowInv
<1>3. ASSUME NEW s \in Row, RecoverExpiredStepLease(s)
       PROVE  RowsStep
  <2>1. LeaseInv'
    BY <1>0, <1>3 DEF RecoverExpiredStepLease, RowInv, LeaseInv, TypeOK, Leased
  <2>2. ApprovalInv'
    BY <1>0, <1>3 DEF RecoverExpiredStepLease, RowInv, ApprovalInv, TypeOK, Leased
  <2>3. StartInv'
    BY <1>0, <1>3 DEF RecoverExpiredStepLease, RowInv, ApprovalInv, StartInv, TypeOK, Leased
  <2>4. CancelInv'
    BY <1>0, <1>3 DEF RecoverExpiredStepLease, RowInv, CancelInv, TypeOK, Leased
  <2>5. \A r \in Row : RowStep(r)
    BY <1>0, <1>3 DEF RecoverExpiredStepLease, RowStep, RowInv, ApprovalInv, TypeOK, Leased, Passed
  <2> QED
    BY <1>0, <2>1, <2>2, <2>3, <2>4, <2>5 DEF RowsStep, RowInv
<1>4. ASSUME NEW s \in Row, CompleteWait(s)
       PROVE  RowsStep
  <2>1. LeaseInv'
    BY <1>0, <1>4 DEF CompleteWait, ReadFinal, RowInv, LeaseInv, TypeOK, Leased
  <2>2. ApprovalInv'
    BY <1>0, <1>4 DEF CompleteWait, ReadFinal, RowInv, ApprovalInv, TypeOK, Leased
  <2>3. StartInv'
    BY <1>0, <1>4 DEF CompleteWait, ReadFinal, RowInv, ApprovalInv, StartInv, TypeOK, Leased
  <2>4. CancelInv'
    BY <1>0, <1>4 DEF CompleteWait, ReadFinal, RowInv, CancelInv, TypeOK, Leased
  <2>5. \A r \in Row : RowStep(r)
    BY <1>0, <1>4 DEF CompleteWait, ReadFinal, RowStep, RowInv, ApprovalInv, TypeOK, Leased, Passed
  <2> QED
    BY <1>0, <2>1, <2>2, <2>3, <2>4, <2>5 DEF RowsStep, RowInv
<1>5. ASSUME NEW s \in Row, ApprovalDeadline(s)
       PROVE  RowsStep
  <2>1. LeaseInv'
    BY <1>0, <1>5 DEF ApprovalDeadline, RowInv, LeaseInv, TypeOK, Leased
  <2>2. ApprovalInv'
    BY <1>0, <1>5 DEF ApprovalDeadline, RowInv, ApprovalInv, TypeOK, Leased
  <2>3. StartInv'
    BY <1>0, <1>5 DEF ApprovalDeadline, RowInv, ApprovalInv, StartInv, TypeOK, Leased
  <2>4. CancelInv'
    BY <1>0, <1>5 DEF ApprovalDeadline, RowInv, CancelInv, TypeOK, Leased
  <2>5. \A r \in Row : RowStep(r)
    BY <1>0, <1>5 DEF ApprovalDeadline, RowStep, RowInv, ApprovalInv, TypeOK, Leased, Passed
  <2> QED
    BY <1>0, <2>1, <2>2, <2>3, <2>4, <2>5 DEF RowsStep, RowInv
<1>6. ASSUME NEW s \in Row, ExpireApproval(s)
       PROVE  RowsStep
  <2>1. LeaseInv'
    BY <1>0, <1>6 DEF ExpireApproval, Overdue, RowInv, LeaseInv, ApprovalInv, TypeOK, Leased
  <2>2. ApprovalInv'
    BY <1>0, <1>6 DEF ExpireApproval, Overdue, RowInv, ApprovalInv, TypeOK, Leased
  <2>3. StartInv'
    BY <1>0, <1>6 DEF ExpireApproval, Overdue, RowInv, ApprovalInv, StartInv, TypeOK, Leased
  <2>4. CancelInv'
    BY <1>0, <1>6 DEF ExpireApproval, Overdue, RowInv, CancelInv, TypeOK, Leased
  <2>5. \A r \in Row : RowStep(r)
    BY <1>0, <1>6 DEF ExpireApproval, Overdue, RowStep, RowInv, ApprovalInv, TypeOK, Leased, Passed
  <2> QED
    BY <1>0, <2>1, <2>2, <2>3, <2>4, <2>5 DEF RowsStep, RowInv
<1>7. ASSUME NEW e \in Execution, PauseExecution(e)
       PROVE  RowsStep
  <2>1. LeaseInv'
    BY <1>0, <1>7 DEF PauseExecution, RowInv, LeaseInv, TypeOK, Leased
  <2>2. ApprovalInv'
    BY <1>0, <1>7 DEF PauseExecution, RowInv, ApprovalInv, TypeOK, Leased
  <2>3. StartInv'
    BY <1>0, <1>7 DEF PauseExecution, RowInv, ApprovalInv, StartInv, TypeOK, Leased
  <2>4. CancelInv'
    BY <1>0, <1>7 DEF PauseExecution, RowInv, CancelInv, TypeOK, Leased
  <2>5. \A r \in Row : RowStep(r)
    BY <1>0, <1>7 DEF PauseExecution, RowStep, RowInv, ApprovalInv, TypeOK, Leased, Passed
  <2> QED
    BY <1>0, <2>1, <2>2, <2>3, <2>4, <2>5 DEF RowsStep, RowInv
<1>8. ASSUME NEW e \in Execution, ResumeExecution(e)
       PROVE  RowsStep
  <2>1. LeaseInv'
    BY <1>0, <1>8 DEF ResumeExecution, RowInv, LeaseInv, TypeOK, Leased
  <2>2. ApprovalInv'
    BY <1>0, <1>8 DEF ResumeExecution, RowInv, ApprovalInv, TypeOK, Leased
  <2>3. StartInv'
    BY <1>0, <1>8 DEF ResumeExecution, RowInv, ApprovalInv, StartInv, TypeOK, Leased
  <2>4. CancelInv'
    BY <1>0, <1>8 DEF ResumeExecution, RowInv, CancelInv, TypeOK, Leased
  <2>5. \A r \in Row : RowStep(r)
    BY <1>0, <1>8 DEF ResumeExecution, RowStep, RowInv, ApprovalInv, TypeOK, Leased, Passed
  <2> QED
    BY <1>0, <2>1, <2>2, <2>3, <2>4, <2>5 DEF RowsStep, RowInv
<1>9. ASSUME NEW e \in Execution, CancelExecution(e)
       PROVE  RowsStep
  <2>1. LeaseInv'
    BY <1>0, <1>9 DEF CancelExecution, Cancelable, RowsOf, RowInv, LeaseInv, TypeOK, Leased
  <2>2. ApprovalInv'
    BY <1>0, <1>9 DEF CancelExecution, Cancelable, RowsOf, RowInv, ApprovalInv, TypeOK, Leased
  <2>3. StartInv'
    BY <1>0, <1>9
    DEF CancelExecution, Cancelable, RowsOf, RowInv, ApprovalInv, StartInv, TypeOK, Leased
  <2>4. CancelInv'
    BY <1>0, <1>9 DEF CancelExecution, Cancelable, RowsOf, ExecutionOf, RowInv, CancelInv, TypeOK
  <2>5. \A r \in Row : RowStep(r)
    BY <1>0, <1>9
    DEF CancelExecution, Cancelable, RowsOf, RowStep, RowInv, ApprovalInv, TypeOK, Leased,
        Passed
  <2> QED
    BY <1>0, <2>1, <2>2, <2>3, <2>4, <2>5 DEF RowsStep, RowInv
<1>10. ASSUME NEW e \in Execution, StartExecutionRollback(e)
       PROVE  RowsStep
  <2>1. LeaseInv'
    BY <1>0, <1>10
    DEF StartExecutionRollback, RollbackRows, RowsOf, RowInv, LeaseInv, TypeOK, Leased
  <2>2. ApprovalInv'
    BY <1>0, <1>10
    DEF StartExecutionRollback, RollbackRows, RowsOf, RowInv, ApprovalInv, TypeOK, Leased
  <2>3. StartInv'
    BY <1>0, <1>10
    DEF StartExecutionRollback, RollbackRows, RowsOf, ExecutionOf, RowInv, StartInv, TypeOK
  <2>4. CancelInv'
    BY <1>0, <1>10
    DEF StartExecutionRollback, RollbackRows, RowsOf, RowInv, CancelInv, TypeOK, Leased
  <2>5. \A r \in Row : RowStep(r)
    BY <1>0, <1>10
    DEF StartExecutionRollback, RollbackRows, RowsOf, ExecutionOf, RowStep, RowInv, TypeOK
  <2> QED
    BY <1>0, <2>1, <2>2, <2>3, <2>4, <2>5 DEF RowsStep, RowInv
<1>11. ASSUME NEW s \in Row, NEW force \in BOOLEAN, RetryExecutionStep(s, force)
       PROVE  RowsStep
  <2>1. LeaseInv'
    BY <1>0, <1>11 DEF RetryExecutionStep, RowInv, LeaseInv, TypeOK, Leased
  <2>2. ApprovalInv'
    BY <1>0, <1>11 DEF RetryExecutionStep, RowInv, ApprovalInv, TypeOK, Leased
  <2>3. StartInv'
    BY <1>0, <1>11 DEF RetryExecutionStep, RowInv, ApprovalInv, StartInv, TypeOK, Leased
  <2>4. CancelInv'
    BY <1>0, <1>11 DEF RetryExecutionStep, RowInv, CancelInv, TypeOK, Leased
  <2>5. \A r \in Row : RowStep(r)
    BY <1>0, <1>11 DEF RetryExecutionStep, RowStep, RowInv, ApprovalInv, TypeOK, Leased, Passed
  <2> QED
    BY <1>0, <2>1, <2>2, <2>3, <2>4, <2>5 DEF RowsStep, RowInv
<1>12. ASSUME NEW s \in Row, NEW decision \in {"approved", "rejected"},
              DecideApproval(s, decision)
       PROVE  RowsStep
  <2>1. LeaseInv'
    BY <1>0, <1>12 DEF DecideApproval, Decidable, RowInv, LeaseInv, ApprovalInv, TypeOK, Leased
  <2>2. ApprovalInv'
    BY <1>0, <1>12 DEF DecideApproval, Decidable, Finalized, RowInv, ApprovalInv, TypeOK, Leased
  <2>3. StartInv'
    BY <1>0, <1>12
    DEF DecideApproval, Decidable, Finalized, RowInv, ApprovalInv, StartInv, TypeOK, Leased
  <2>4. CancelInv'
    BY <1>0, <1>12 DEF DecideApproval, Decidable, Finalized, RowInv, CancelInv, TypeOK, Leased
  <2>5. \A r \in Row : RowStep(r)
    BY <1>0, <1>12
    DEF DecideApproval, Decidable, Finalized, RowStep, RowInv, ApprovalInv, TypeOK, Leased,
        Passed
  <2> QED
    BY <1>0, <2>1, <2>2, <2>3, <2>4, <2>5 DEF RowsStep, RowInv
<1>13. ASSUME NEW f \in finalizing, CommitFinal(f)
       PROVE  RowsStep
  <2>0. /\ f.row \in Row /\ f.status \in Passed
        /\ rowStatus[f.row] \in {"running", "rolling_back", "waiting"}
        /\ f.final # "none"
    BY DEF RowInv, TypeOK, Finalizing, LockInv, Leased
  <2>1. LeaseInv'
    BY <1>13, <2>0 DEF CommitFinal, RowInv, LeaseInv, TypeOK
  <2>2. ApprovalInv'
    BY <1>13, <2>0 DEF CommitFinal, RowInv, ApprovalInv, TypeOK
  <2>3. StartInv'
    BY <1>0, <1>13, <2>0 DEF CommitFinal, RowInv, StartInv, TypeOK, Passed
  <2>4. CancelInv'
    BY <1>13, <2>0 DEF CommitFinal, RowInv, CancelInv, TypeOK, Passed
  <2>5. \A r \in Row : RowStep(r)
    BY <1>13, <2>0 DEF CommitFinal, RowStep, RowInv, TypeOK, Passed
  <2> QED
    BY <1>0, <2>1, <2>2, <2>3, <2>4, <2>5 DEF RowsStep, RowInv
<1>14. CASE UNCHANGED vars
  BY <1>0, <1>14
  DEF vars, RowsStep, RowStep, RowInv, LeaseInv, ApprovalInv, StartInv, CancelInv
<1> QED
  BY <1>0, <1>1, <1>2, <1>3, <1>4, <1>5, <1>6, <1>7, <1>8, <1>9, <1>10, <1>11, <1>12, <1>13,
     <1>14, TasksKeepRows
  DEF Next, Engine, Timers, Operator

\* The row invariant holds in every reachable state.
THEOREM RowInvariant == Spec => []RowInv
<1>1. Init => RowInv
  BY ConstantsAssumption, RowConstants, SMTT(30)
  DEF Init, RowInv, LeaseInv, ApprovalInv, StartInv, CancelInv, LockInv, TypeOK,
      ExecutionStatus, StepStatus, ApprovalStatus
<1>2. RowInv /\ [Next]_vars => RowInv'
  BY NextKeepsRows DEF RowsStep
<1> QED
  BY <1>1, <1>2, PTL DEF Spec

\* A completed, skipped or rolled back step never changes again, whatever reports late.
THEOREM DoneStepsStay == Spec => DoneStepsStayDone
<1>1. RowInv /\ [Next]_vars =>
        [\A s \in Row : rowStatus[s] \in Passed => rowStatus'[s] = rowStatus[s]]_vars
  BY NextKeepsRows DEF RowsStep, RowStep, Passed
<1> QED
  BY <1>1, RowInvariant, PTL DEF Spec, DoneStepsStayDone

-----------------------------------------------------------------------------
(***************************************************************************)
(* Attempts: they are counted by claims alone.                             *)
(***************************************************************************)

\* Only a claim changes attempt_count.
LEMMA AttemptStep ==
    ASSUME [Next]_vars
    PROVE  \/ attempt' = attempt
           \/ \E w \in Worker, s \in Row : ClaimExecutionStep(w, s)
<1>1. ASSUME NEW t \in tasks, ExecuteStep(t) PROVE attempt' = attempt
  BY <1>1
  DEF ExecuteStep, SkipStep, DryRunStep, ScheduleWait, OpenApproval, SendRequest,
      FailBeforeSend, RemoteSucceeded, RemoteFailed, AbandonTask, CompleteSuccess, ReadFinal,
      CompleteFailure, MarkExecutionStepAmbiguous
<1>2. ASSUME NEW e \in Execution,
             \/ StartExecution(e) \/ PauseExecution(e) \/ ResumeExecution(e)
             \/ CancelExecution(e) \/ StartExecutionRollback(e)
      PROVE  attempt' = attempt
  BY <1>2
  DEF StartExecution, PauseExecution, ResumeExecution, CancelExecution, StartExecutionRollback
<1>3. ASSUME NEW s \in Row,
             \/ RecoverExpiredStepLease(s) \/ CompleteWait(s) \/ ApprovalDeadline(s)
             \/ ExpireApproval(s)
             \/ \E force \in BOOLEAN : RetryExecutionStep(s, force)
             \/ \E decision \in {"approved", "rejected"} : DecideApproval(s, decision)
      PROVE  attempt' = attempt
  BY <1>3
  DEF RecoverExpiredStepLease, CompleteWait, ReadFinal, ApprovalDeadline, ExpireApproval,
      RetryExecutionStep, DecideApproval
<1>4. ASSUME NEW f \in finalizing, CommitFinal(f) PROVE attempt' = attempt
  BY <1>4 DEF CommitFinal
<1>5. CASE UNCHANGED vars
  BY <1>5 DEF vars
<1> QED
  BY <1>1, <1>2, <1>3, <1>4, <1>5 DEF Next, Engine, Timers, Operator

\* Steps run in the order of the runbook, and rollbacks in reverse: an attempted step relies
\* on predecessors that are done and stay done.
THEOREM OrderedSteps == Spec => []StepsRunInOrder
<1>1. Init => StepsRunInOrder
  BY SMTT(30) DEF Init, StepsRunInOrder
<1>2. RowInv /\ StepsRunInOrder /\ [Next]_vars => StepsRunInOrder'
  <2> SUFFICES ASSUME RowInv, StepsRunInOrder, [Next]_vars,
                      NEW s \in Row, attempt'[s] > 0, NEW p \in Preceding(s)
               PROVE  rowStatus'[p] \in Passed \cup {"none"}
    BY DEF StepsRunInOrder, Preceding, ExecutionOf, IsRollback
  <2>1. /\ p \in Row
        /\ ExecutionOf(p) = ExecutionOf(s)
        /\ IsRollback(p) = IsRollback(s)
    BY DEF Preceding
  <2>2. rowStatus[p] \in Passed \cup {"none"}
    <3>1. CASE attempt[s] > 0
      BY <3>1 DEF StepsRunInOrder
    <3>2. CASE ~(attempt[s] > 0)
      <4>1. PICK w \in Worker, r \in Row : ClaimExecutionStep(w, r)
        BY <3>2, AttemptStep
      <4>2. r = s
        BY <3>2, <4>1 DEF ClaimExecutionStep, RowInv, TypeOK
      <4> QED
        BY <4>1, <4>2 DEF ClaimExecutionStep, Claimable
    <3> QED BY <3>1, <3>2
  <2>3. RowStep(p)
    BY <2>1, NextKeepsRows DEF RowsStep
  <2>4. CASE rowStatus[p] = "none" /\ rowStatus'[p] = "pending"
    <3>1. rowStatus[s] = "none" /\ attempt' = attempt
      BY <2>1, <2>3, <2>4 DEF RowStep, Passed
    <3> QED
      BY <3>1, SMTT(30) DEF RowInv, StartInv
  <2> QED
    BY <2>2, <2>3, <2>4 DEF RowStep
<1> QED
  BY <1>1, <1>2, RowInvariant, PTL DEF Spec

\* A rollback row exists only for a step that completed.
THEOREM RollbackOfCompleted == Spec => []RollbackUndoesCompletedSteps
<1>1. Init => RollbackUndoesCompletedSteps
  BY DEF Init, RollbackUndoesCompletedSteps
<1>2. RowInv /\ RollbackUndoesCompletedSteps /\ [Next]_vars => RollbackUndoesCompletedSteps'
  <2> SUFFICES ASSUME RowInv, RollbackUndoesCompletedSteps, [Next]_vars,
                      NEW s \in Row, IsRollback(s), rowStatus'[s] # "none"
               PROVE  rowStatus'[Def[s].rollbackOf] = "completed"
    BY DEF RollbackUndoesCompletedSteps, IsRollback
  <2>1. Def[s].rollbackOf \in Row
    BY RowConstants
  <2>2. RowStep(s) /\ RowStep(Def[s].rollbackOf)
    BY <2>1, NextKeepsRows DEF RowsStep
  <2>3. rowStatus[Def[s].rollbackOf] = "completed"
    BY <2>2 DEF RowStep, RollbackUndoesCompletedSteps
  <2> QED
    BY <2>2, <2>3 DEF RowStep, Passed
<1> QED
  BY <1>1, <1>2, RowInvariant, PTL DEF Spec

-----------------------------------------------------------------------------
(***************************************************************************)
(* How often a step is attempted.  A row that may still be claimed has an  *)
(* attempt left: the one its last failure or recovery found, or the one an *)
(* operator granted.                                                       *)
(***************************************************************************)

MayBeClaimed == {"none", "pending", "retrying"}

BoundInv ==
    \A s \in Row :
        /\ attempt[s] <= Def[s].maxAttempts + retries[s]
        /\ rowStatus[s] \in MayBeClaimed => attempt[s] < Def[s].maxAttempts + retries[s]

\* What a step may do to the attempts of a row: make it claimable only while an automatic
\* attempt is left, grant one, or use one.
BoundStep(s) ==
    \/ /\ attempt'[s] = attempt[s] /\ retries'[s] = retries[s]
       /\ rowStatus'[s] \in MayBeClaimed => rowStatus[s] \in MayBeClaimed \/ ~Exhausted(s)
    \/ attempt'[s] = attempt[s] /\ retries'[s] = retries[s] + 1
    \/ /\ attempt'[s] = attempt[s] + 1 /\ retries'[s] = retries[s]
       /\ rowStatus[s] \in MayBeClaimed /\ rowStatus'[s] \notin MayBeClaimed

\* The steps of a goroutine.
LEMMA TasksBoundStep ==
    ASSUME RowInv, NEW t \in tasks, ExecuteStep(t), NEW s \in Row
    PROVE  BoundStep(s)
<1>1. t.row \in Row /\ rowStatus \in [Row -> StepStatus]
  BY DEF RowInv, TypeOK, Task
<1>2. "skipped" \in Passed /\ SuccessStatus(t.row) \in Passed
  BY DEF Passed, SuccessStatus
<1>3. UNCHANGED <<attempt, retries>>
  BY DEF ExecuteStep, SkipStep, DryRunStep, ScheduleWait, OpenApproval, SendRequest,
      FailBeforeSend, RemoteSucceeded, RemoteFailed, AbandonTask, CompleteSuccess, ReadFinal,
      CompleteFailure, MarkExecutionStepAmbiguous
<1>4. SUFFICES \/ rowStatus'[s] = rowStatus[s]
               \/ rowStatus'[s] \notin MayBeClaimed
               \/ ~Exhausted(s)
  BY <1>3 DEF BoundStep
<1>5. ASSUME NEW status \in Passed, CompleteSuccess(t, status)
      PROVE  rowStatus'[s] = rowStatus[s] \/ rowStatus'[s] \notin MayBeClaimed
  BY <1>1, <1>5 DEF CompleteSuccess, ReadFinal, ReleaseIfOwned, MayBeClaimed, Passed
<1>6. ASSUME CompleteFailure(t)
      PROVE  \/ rowStatus'[s] = rowStatus[s]
             \/ rowStatus'[s] \notin MayBeClaimed
             \/ ~Exhausted(s)
  BY <1>1, <1>6 DEF CompleteFailure, ReleaseIfOwned, MayBeClaimed
<1>7. ASSUME MarkExecutionStepAmbiguous(t)
      PROVE  rowStatus'[s] = rowStatus[s] \/ rowStatus'[s] \notin MayBeClaimed
  BY <1>1, <1>7 DEF MarkExecutionStepAmbiguous, MayBeClaimed
<1>8. CASE SkipStep(t) \/ DryRunStep(t) \/ RemoteSucceeded(t)
  BY <1>2, <1>5, <1>8 DEF SkipStep, DryRunStep, RemoteSucceeded
<1>9. CASE FailBeforeSend(t) \/ RemoteFailed(t)
  BY <1>6, <1>7, <1>9 DEF FailBeforeSend, RemoteFailed
<1>10. CASE ScheduleWait(t) \/ OpenApproval(t)
  <2>1. CASE CompleteFailure(t) BY <1>6, <2>1
  <2>2. CASE ~CompleteFailure(t)
    BY <1>1, <1>10, <2>2 DEF ScheduleWait, OpenApproval, MayBeClaimed
  <2> QED BY <2>1, <2>2
<1>11. CASE SendRequest(t) \/ AbandonTask(t)
  BY <1>11 DEF SendRequest, AbandonTask
<1> QED
  BY <1>8, <1>9, <1>10, <1>11 DEF ExecuteStep

\* Every step of the system.
LEMMA NextBoundStep ==
    ASSUME RowInv, [Next]_vars, NEW s \in Row
    PROVE  BoundStep(s)
<1>1. /\ rowStatus \in [Row -> StepStatus] /\ attempt \in [Row -> Nat]
      /\ retries \in [Row -> Nat]
  BY DEF RowInv, TypeOK
<1>2. ASSUME NEW e \in Execution, StartExecution(e) PROVE BoundStep(s)
  BY <1>2 DEF StartExecution, BoundStep, MayBeClaimed, RowInv, StartInv
<1>3. ASSUME NEW w \in Worker, NEW r \in Row, ClaimExecutionStep(w, r) PROVE BoundStep(s)
  BY <1>1, <1>3 DEF ClaimExecutionStep, Claimable, NextAttempt, BoundStep, MayBeClaimed
<1>4. ASSUME NEW r \in Row, RecoverExpiredStepLease(r) PROVE BoundStep(s)
  BY <1>1, <1>4 DEF RecoverExpiredStepLease, BoundStep, MayBeClaimed
<1>5. ASSUME NEW r \in Row, CompleteWait(r) PROVE BoundStep(s)
  BY <1>1, <1>5 DEF CompleteWait, ReadFinal, BoundStep, MayBeClaimed
<1>6. ASSUME NEW r \in Row, ApprovalDeadline(r) \/ ExpireApproval(r) PROVE BoundStep(s)
  BY <1>1, <1>6 DEF ApprovalDeadline, ExpireApproval, BoundStep, MayBeClaimed
<1>7. ASSUME NEW e \in Execution, PauseExecution(e) \/ ResumeExecution(e) PROVE BoundStep(s)
  BY <1>7 DEF PauseExecution, ResumeExecution, BoundStep
<1>8. ASSUME NEW e \in Execution, CancelExecution(e) PROVE BoundStep(s)
  BY <1>8 DEF CancelExecution, BoundStep, MayBeClaimed
<1>9. ASSUME NEW e \in Execution, StartExecutionRollback(e) PROVE BoundStep(s)
  BY <1>9 DEF StartExecutionRollback, RollbackRows, BoundStep, MayBeClaimed
<1>10. ASSUME NEW r \in Row, NEW force \in BOOLEAN, RetryExecutionStep(r, force)
       PROVE  BoundStep(s)
  BY <1>1, <1>10 DEF RetryExecutionStep, BoundStep
<1>11. ASSUME NEW r \in Row, NEW decision \in {"approved", "rejected"}, DecideApproval(r, decision)
       PROVE  BoundStep(s)
  BY <1>1, <1>11 DEF DecideApproval, BoundStep, MayBeClaimed
<1>12. ASSUME NEW f \in finalizing, CommitFinal(f) PROVE BoundStep(s)
  <2>1. f.row \in Row /\ f.status \in Passed
    BY DEF RowInv, TypeOK, Finalizing, LockInv
  <2> QED BY <1>1, <1>12, <2>1 DEF CommitFinal, BoundStep, MayBeClaimed, Passed
<1>13. CASE UNCHANGED vars
  BY <1>13 DEF vars, BoundStep
<1> QED
  BY <1>2, <1>3, <1>4, <1>5, <1>6, <1>7, <1>8, <1>9, <1>10, <1>11, <1>12, <1>13,
     TasksBoundStep
  DEF Next, Engine, Timers, Operator

\* A step is attempted at most maxAttempts times and once more per retry of an operator, for
\* any number of workers, expired leases and late reports.
THEOREM BoundedAttempts == Spec => []AttemptsAreBounded
<1>1. Init => BoundInv
  BY RowConstants, ConstantsAssumption, SMTT(30) DEF Init, BoundInv, StepDefinition
<1>2. RowInv /\ BoundInv /\ [Next]_vars => BoundInv'
  <2> SUFFICES ASSUME RowInv, BoundInv, [Next]_vars, NEW s \in Row
               PROVE  /\ attempt'[s] <= Def[s].maxAttempts + retries'[s]
                      /\ rowStatus'[s] \in MayBeClaimed =>
                            attempt'[s] < Def[s].maxAttempts + retries'[s]
    BY DEF BoundInv
  <2>1. attempt[s] \in Nat /\ retries[s] \in Nat /\ Def[s].maxAttempts \in Nat
    BY RowConstants DEF RowInv, TypeOK
  <2>2. /\ attempt[s] <= Def[s].maxAttempts + retries[s]
        /\ rowStatus[s] \in MayBeClaimed => attempt[s] < Def[s].maxAttempts + retries[s]
    BY DEF BoundInv
  <2>3. BoundStep(s)
    BY NextBoundStep
  <2> QED BY <2>1, <2>2, <2>3, SMTT(30) DEF BoundStep, Exhausted
<1>3. BoundInv => AttemptsAreBounded
  BY DEF BoundInv, AttemptsAreBounded
<1> QED
  BY <1>1, <1>2, <1>3, RowInvariant, PTL DEF Spec

-----------------------------------------------------------------------------
(***************************************************************************)
(* The final status of an execution.                                       *)
(***************************************************************************)

FinalStatus == {"completed", "rolled_back"}

\* A recorded cancel is never forgotten.
LEMMA CancelIsRecorded ==
    ASSUME RowInv, [Next]_vars, NEW e \in Execution, cancelRequested[e]
    PROVE  cancelRequested'[e]
<1>1. ASSUME NEW t \in tasks, ExecuteStep(t) PROVE cancelRequested' = cancelRequested
  BY <1>1
  DEF ExecuteStep, SkipStep, DryRunStep, ScheduleWait, OpenApproval, SendRequest,
      FailBeforeSend, RemoteSucceeded, RemoteFailed, AbandonTask, CompleteSuccess, ReadFinal,
      CompleteFailure, MarkExecutionStepAmbiguous
<1>2. ASSUME NEW x \in Execution,
             \/ StartExecution(x) \/ PauseExecution(x) \/ ResumeExecution(x)
             \/ StartExecutionRollback(x)
      PROVE  cancelRequested' = cancelRequested
  BY <1>2
  DEF StartExecution, PauseExecution, ResumeExecution, StartExecutionRollback
<1>3. ASSUME NEW s \in Row,
             \/ \E w \in Worker : ClaimExecutionStep(w, s)
             \/ RecoverExpiredStepLease(s) \/ CompleteWait(s) \/ ApprovalDeadline(s)
             \/ ExpireApproval(s)
             \/ \E force \in BOOLEAN : RetryExecutionStep(s, force)
             \/ \E decision \in {"approved", "rejected"} : DecideApproval(s, decision)
      PROVE  cancelRequested' = cancelRequested
  BY <1>3
  DEF ClaimExecutionStep, RecoverExpiredStepLease, CompleteWait, ReadFinal, ApprovalDeadline,
      ExpireApproval, RetryExecutionStep, DecideApproval
<1>4. ASSUME NEW x \in Execution, CancelExecution(x) PROVE cancelRequested'[e]
  BY <1>4 DEF CancelExecution, RowInv, TypeOK
<1>5. ASSUME NEW f \in finalizing, CommitFinal(f) PROVE cancelRequested' = cancelRequested
  BY <1>5 DEF CommitFinal
<1>6. CASE UNCHANGED vars
  BY <1>6 DEF vars
<1> QED
  BY <1>1, <1>2, <1>3, <1>4, <1>5, <1>6 DEF Next, Engine, Timers, Operator

\* While a transaction that has read that nothing remains is open, nothing does: unless a cancel
\* is recorded the other rows of the execution are done, and it is at most paused.
FinalizeInv ==
    \A f \in finalizing : ~cancelRequested[ExecutionOf(f.row)] =>
        /\ execStatus[ExecutionOf(f.row)] \in {"running", "paused", "rolling_back"}
        /\ \A s \in RowsOf(ExecutionOf(f.row)) \ {f.row} : rowStatus[s] \in Passed \cup {"none"}

\* What such a transaction has read of the execution of the row s.
NothingElseRemains(s) ==
    /\ execStatus[ExecutionOf(s)] \in {"running", "rolling_back"}
    /\ \A r \in RowsOf(ExecutionOf(s)) \ {s} : rowStatus[r] \in Finished \cup {"none"}

\* A transaction enters finalizing only after that read.
LEMMA FinalizingStep ==
    ASSUME RowInv, [Next]_vars
    PROVE  \/ finalizing' \subseteq finalizing
           \/ \E s \in Row : \E by, status : ReadFinal(s, by, status) /\ NothingElseRemains(s)
<1>1. ASSUME NEW t \in tasks, NEW status, CompleteSuccess(t, status)
      PROVE  \/ finalizing' = finalizing
             \/ \E s \in Row : \E b, x : ReadFinal(s, b, x) /\ NothingElseRemains(s)
  <2>1. t.row \in Row /\ rowStatus \in [Row -> StepStatus]
    BY DEF RowInv, TypeOK, Task
  <2>2. ASSUME NothingRemains(execStatus, ReleaseIfOwned(t, status), ExecutionOf(t.row))
        PROVE  NothingElseRemains(t.row)
    BY <2>1, <2>2 DEF NothingRemains, ReleaseIfOwned, NothingElseRemains, RowsOf
  <2> QED BY <1>1, <2>1, <2>2 DEF CompleteSuccess
<1>2. ASSUME NEW t \in tasks, ExecuteStep(t)
      PROVE  \/ finalizing' \subseteq finalizing
             \/ \E s \in Row : \E b, x : ReadFinal(s, b, x) /\ NothingElseRemains(s)
  <2>1. CASE \E status : CompleteSuccess(t, status)
    BY <1>1, <2>1
  <2>2. CASE ~\E status : CompleteSuccess(t, status)
    BY <1>2, <2>2
    DEF ExecuteStep, SkipStep, DryRunStep, ScheduleWait, OpenApproval, SendRequest,
        FailBeforeSend, RemoteSucceeded, RemoteFailed, AbandonTask, CompleteFailure,
        MarkExecutionStepAmbiguous
  <2> QED BY <2>1, <2>2
<1>3. ASSUME NEW s \in Row, CompleteWait(s)
      PROVE  \/ finalizing' = finalizing
             \/ ReadFinal(s, {}, "completed") /\ NothingElseRemains(s)
  <2>1. rowStatus \in [Row -> StepStatus]
    BY DEF RowInv, TypeOK
  <2>2. ASSUME NothingRemains(execStatus, [rowStatus EXCEPT ![s] = "completed"], ExecutionOf(s))
        PROVE  NothingElseRemains(s)
    BY <2>1, <2>2 DEF NothingRemains, NothingElseRemains, RowsOf
  <2> QED BY <1>3, <2>2 DEF CompleteWait
<1>4. ASSUME NEW e \in Execution,
             \/ StartExecution(e) \/ PauseExecution(e) \/ ResumeExecution(e)
             \/ CancelExecution(e) \/ StartExecutionRollback(e)
      PROVE  finalizing' = finalizing
  BY <1>4
  DEF StartExecution, PauseExecution, ResumeExecution, CancelExecution, StartExecutionRollback
<1>5. ASSUME NEW s \in Row,
             \/ \E w \in Worker : ClaimExecutionStep(w, s)
             \/ RecoverExpiredStepLease(s) \/ ApprovalDeadline(s) \/ ExpireApproval(s)
             \/ \E force \in BOOLEAN : RetryExecutionStep(s, force)
             \/ \E decision \in {"approved", "rejected"} : DecideApproval(s, decision)
      PROVE  finalizing' = finalizing
  BY <1>5
  DEF ClaimExecutionStep, RecoverExpiredStepLease, ApprovalDeadline, ExpireApproval,
      RetryExecutionStep, DecideApproval
<1>6. ASSUME NEW f \in finalizing, CommitFinal(f) PROVE finalizing' \subseteq finalizing
  BY <1>6 DEF CommitFinal
<1>7. CASE UNCHANGED vars
  BY <1>7 DEF vars
<1> QED
  BY <1>2, <1>3, <1>4, <1>5, <1>6, <1>7 DEF Next, Engine, Timers, Operator

\* What an execution is like while such a transaction f is open and no cancel is recorded: the
\* locked row can move only by its commit, and no other row can be moved at all.
LEMMA OpenTransaction ==
    ASSUME RowInv, FinalizeInv, NEW f \in finalizing, ~cancelRequested[ExecutionOf(f.row)]
    PROVE  /\ f.row \in Row /\ ExecutionOf(f.row) \in Execution
           /\ execStatus[ExecutionOf(f.row)] \in {"running", "paused", "rolling_back"}
           /\ rowStatus[f.row] \in {"running", "rolling_back", "waiting"}
           /\ \A g \in finalizing : ExecutionOf(g.row) = ExecutionOf(f.row) => g = f
           /\ \A s \in Row : ExecutionOf(s) = ExecutionOf(f.row) =>
                 /\ approval[s] # "pending"
                 /\ s \in Locked \/ rowStatus[s] \in {"completed", "skipped", "rolled_back", "none"}
                 /\ rowStatus[s] \notin {"pending", "retrying", "failed", "ambiguous"}
<1>1. /\ f.row \in Row /\ ExecutionOf(f.row) \in Execution
      /\ execStatus[ExecutionOf(f.row)] \in {"running", "paused", "rolling_back"}
      /\ \A g \in finalizing : /\ g.row \in Row
                               /\ rowStatus[g.row] \in {"running", "rolling_back", "waiting"}
                               /\ f.row = g.row => f = g
  BY RowConstants DEF RowInv, TypeOK, Finalizing, LockInv, Leased, FinalizeInv
<1>2. ASSUME NEW s \in Row, ExecutionOf(s) = ExecutionOf(f.row), s # f.row
      PROVE  rowStatus[s] \in {"completed", "skipped", "rolled_back", "none"}
  BY <1>2 DEF FinalizeInv, RowsOf, ExecutionOf, Passed
<1>3. f.row \in Locked
  BY DEF Locked
<1>4. ASSUME NEW g \in finalizing, ExecutionOf(g.row) = ExecutionOf(f.row) PROVE g = f
  <2>1. g.row \in Row /\ rowStatus[g.row] \in {"running", "rolling_back", "waiting"}
    BY <1>1
  <2>2. g.row = f.row
    <3>1. SUFFICES ASSUME g.row # f.row PROVE FALSE
      OBVIOUS
    <3>2. rowStatus[g.row] \in {"completed", "skipped", "rolled_back", "none"}
      BY <1>2, <1>4, <2>1, <3>1
    <3> QED BY <2>1, <3>2
  <2> QED BY <1>1, <2>2
<1>5. ASSUME NEW s \in Row, ExecutionOf(s) = ExecutionOf(f.row)
      PROVE  /\ approval[s] # "pending"
             /\ s \in Locked \/ rowStatus[s] \in {"completed", "skipped", "rolled_back", "none"}
             /\ rowStatus[s] \notin {"pending", "retrying", "failed", "ambiguous"}
  <2>1. approval[s] = "pending" => rowStatus[s] \in {"waiting_approval", "canceled"}
    BY DEF RowInv, ApprovalInv
  <2>2. CASE s = f.row
    BY <1>1, <1>3, <2>1, <2>2
  <2>3. CASE s # f.row
    <3>1. rowStatus[s] \in {"completed", "skipped", "rolled_back", "none"}
      BY <1>2, <1>5, <2>3
    <3> QED BY <2>1, <3>1
  <2> QED BY <2>2, <2>3
<1> QED BY <1>1, <1>4, <1>5

\* What a step may do to an execution in which nothing else remains.
Quiet(e) ==
    /\ \A s \in Row : ExecutionOf(s) = e => rowStatus'[s] = rowStatus[s]
    /\ execStatus[e] = execStatus'[e] \/ execStatus'[e] \in {"running", "paused"}

\* A goroutine of the execution can neither move a row nor end it: its row is locked or done.
LEMMA TasksAreQuiet ==
    ASSUME RowInv, FinalizeInv, NEW f \in finalizing, ~cancelRequested[ExecutionOf(f.row)],
           NEW t \in tasks, ExecuteStep(t)
    PROVE  Quiet(ExecutionOf(f.row))
<1> DEFINE e == ExecutionOf(f.row)
<1>1. /\ t.row \in Row /\ t.worker \in Worker /\ ExecutionOf(t.row) \in Execution
      /\ rowStatus \in [Row -> StepStatus]
      /\ execStatus \in [Execution -> ExecutionStatus] /\ e \in Execution
  BY RowConstants DEF RowInv, TypeOK, Task, Finalizing
<1>2. ASSUME t.row \notin Locked, ExecutionOf(t.row) = e PROVE ~StillLeased(t) /\ ~Owns(t)
  <2>1. rowStatus[t.row] \in {"completed", "skipped", "rolled_back", "none"}
    BY <1>1, <1>2, OpenTransaction
  <2> QED BY <1>1, <2>1, ConstantsAssumption DEF StillLeased, Owns, Leased, RowInv, LeaseInv
<1> HIDE DEF e
<1>3. ASSUME NEW status, CompleteSuccess(t, status) PROVE Quiet(e)
  <2>1. CASE ExecutionOf(t.row) = e
    BY <1>2, <1>3, <2>1 DEF CompleteSuccess, ReadFinal, Quiet
  <2>2. CASE ExecutionOf(t.row) # e
    BY <1>1, <1>3, <2>2 DEF CompleteSuccess, ReadFinal, ReleaseIfOwned, Quiet
  <2> QED BY <2>1, <2>2
<1>4. ASSUME CompleteFailure(t) PROVE Quiet(e)
  <2>1. CASE ExecutionOf(t.row) = e
    BY <1>2, <1>4, <2>1 DEF CompleteFailure, Quiet
  <2>2. CASE ExecutionOf(t.row) # e
    BY <1>1, <1>4, <2>2 DEF CompleteFailure, ReleaseIfOwned, Quiet
  <2> QED BY <2>1, <2>2
<1>5. ASSUME MarkExecutionStepAmbiguous(t) PROVE Quiet(e)
  <2>1. CASE ExecutionOf(t.row) = e
    BY <1>2, <1>5, <2>1 DEF MarkExecutionStepAmbiguous, Quiet
  <2>2. CASE ExecutionOf(t.row) # e
    BY <1>1, <1>5, <2>2 DEF MarkExecutionStepAmbiguous, Quiet
  <2> QED BY <2>1, <2>2
<1>6. ASSUME ScheduleWait(t) \/ OpenApproval(t) PROVE Quiet(e)
  <2>1. CASE CompleteFailure(t) BY <1>4, <2>1
  <2>2. CASE ~CompleteFailure(t)
    <3>1. ExecutionOf(t.row) # e
      BY <1>2, <1>6, <2>2 DEF ScheduleWait, OpenApproval
    <3> QED BY <1>1, <1>6, <2>2, <3>1 DEF ScheduleWait, OpenApproval, Quiet
  <2> QED BY <2>1, <2>2
<1>7. ASSUME SendRequest(t) \/ AbandonTask(t) PROVE Quiet(e)
  BY <1>7 DEF SendRequest, AbandonTask, Quiet
<1> QED
  BY <1>3, <1>4, <1>5, <1>6, <1>7
  DEF ExecuteStep, SkipStep, DryRunStep, FailBeforeSend, RemoteSucceeded, RemoteFailed, e

\* Nor can anything else, except that the execution may be paused and resumed.
LEMMA NextIsQuiet ==
    ASSUME RowInv, FinalizeInv, [Next]_vars,
           NEW f \in finalizing, f \in finalizing', ~cancelRequested'[ExecutionOf(f.row)]
    PROVE  Quiet(ExecutionOf(f.row)) /\ ~cancelRequested[ExecutionOf(f.row)]
<1> DEFINE e == ExecutionOf(f.row)
<1>1. /\ rowStatus \in [Row -> StepStatus]
      /\ execStatus \in [Execution -> ExecutionStatus]
      /\ cancelRequested \in [Execution -> BOOLEAN]
      /\ e \in Execution
      /\ \A s \in Row : ExecutionOf(s) \in Execution
  BY RowConstants DEF RowInv, TypeOK, Finalizing
<1>2. ~cancelRequested[e]
  BY <1>1, CancelIsRecorded
<1>3. /\ execStatus[e] \in {"running", "paused", "rolling_back"}
      /\ \A g \in finalizing : ExecutionOf(g.row) = e => g = f
      /\ \A s \in Row : ExecutionOf(s) = e =>
            /\ approval[s] # "pending"
            /\ s \in Locked \/ rowStatus[s] \in {"completed", "skipped", "rolled_back", "none"}
            /\ rowStatus[s] \notin {"pending", "retrying", "failed", "ambiguous"}
  BY <1>2, OpenTransaction
<1> HIDE DEF e
<1>4. ASSUME NEW x \in Execution, StartExecution(x) PROVE Quiet(e)
  BY <1>1, <1>3, <1>4 DEF StartExecution, Quiet
<1>5. ASSUME NEW w \in Worker, NEW s \in Row, ClaimExecutionStep(w, s) PROVE Quiet(e)
  BY <1>1, <1>3, <1>5 DEF ClaimExecutionStep, Claimable, Quiet
<1>6. ASSUME NEW s \in Row, RecoverExpiredStepLease(s) PROVE Quiet(e)
  <2>1. ExecutionOf(s) # e
    BY <1>3, <1>6 DEF RecoverExpiredStepLease, Leased
  <2> QED BY <1>1, <1>6, <2>1 DEF RecoverExpiredStepLease, Quiet
<1>7. ASSUME NEW s \in Row, CompleteWait(s) PROVE Quiet(e)
  <2>1. ExecutionOf(s) # e
    BY <1>3, <1>7 DEF CompleteWait
  <2> QED BY <1>1, <1>7, <2>1 DEF CompleteWait, ReadFinal, Quiet
<1>8. ASSUME NEW s \in Row, ApprovalDeadline(s) \/ ExpireApproval(s) PROVE Quiet(e)
  BY <1>1, <1>3, <1>8 DEF ApprovalDeadline, ExpireApproval, Overdue, Quiet
<1>9. ASSUME NEW x \in Execution, PauseExecution(x) \/ ResumeExecution(x) PROVE Quiet(e)
  BY <1>1, <1>9 DEF PauseExecution, ResumeExecution, Quiet
<1>10. ASSUME NEW x \in Execution, CancelExecution(x) PROVE Quiet(e)
  <2>1. x # e
    BY <1>1, <1>10 DEF CancelExecution, e
  <2> QED BY <1>1, <1>10, <2>1 DEF CancelExecution, Cancelable, RowsOf, ExecutionOf, Quiet
<1>11. ASSUME NEW x \in Execution, StartExecutionRollback(x) PROVE Quiet(e)
  <2>1. x # e
    BY <1>3, <1>11 DEF StartExecutionRollback
  <2> QED
    BY <1>1, <1>11, <2>1 DEF StartExecutionRollback, RollbackRows, RowsOf, ExecutionOf, Quiet
<1>12. ASSUME NEW s \in Row, NEW force \in BOOLEAN, RetryExecutionStep(s, force) PROVE Quiet(e)
  BY <1>1, <1>3, <1>12 DEF RetryExecutionStep, Quiet
<1>13. ASSUME NEW s \in Row, NEW decision \in {"approved", "rejected"}, DecideApproval(s, decision)
       PROVE  Quiet(e)
  BY <1>1, <1>3, <1>13 DEF DecideApproval, Decidable, Finalized, Quiet
<1>14. ASSUME NEW g \in finalizing, CommitFinal(g) PROVE Quiet(e)
  <2>1. g.row \in Row /\ ExecutionOf(g.row) # e
    BY <1>3, <1>14 DEF CommitFinal, RowInv, TypeOK, Finalizing
  <2> QED BY <1>1, <1>14, <2>1 DEF CommitFinal, Quiet
<1>15. ASSUME NEW t \in tasks, ExecuteStep(t) PROVE Quiet(e)
  BY <1>2, <1>15, TasksAreQuiet DEF e
<1>16. CASE UNCHANGED vars
  BY <1>16 DEF vars, Quiet
<1>17. CASE Engine
  BY <1>2, <1>5, <1>6, <1>7, <1>8, <1>14, <1>15, <1>17 DEF Engine, Timers, e
<1>18. CASE Operator
  BY <1>2, <1>9, <1>10, <1>11, <1>12, <1>13, <1>18 DEF Operator, e
<1> QED BY <1>2, <1>4, <1>16, <1>17, <1>18 DEF Next, e

\* Nothing comes between the read and the commit but a pause, a resume or a cancel.
LEMMA NextKeepsFinalizing ==
    ASSUME RowInv, FinalizeInv, [Next]_vars
    PROVE  FinalizeInv'
<1> SUFFICES ASSUME NEW f \in finalizing', ~cancelRequested'[ExecutionOf(f.row)]
             PROVE  /\ execStatus'[ExecutionOf(f.row)] \in {"running", "paused", "rolling_back"}
                    /\ \A s \in RowsOf(ExecutionOf(f.row)) \ {f.row} :
                          rowStatus'[s] \in Passed \cup {"none"}
  BY DEF FinalizeInv, ExecutionOf, RowsOf
<1>1. CASE f \in finalizing
  <2>1. Quiet(ExecutionOf(f.row)) /\ ~cancelRequested[ExecutionOf(f.row)]
    BY <1>1, NextIsQuiet
  <2>2. /\ execStatus[ExecutionOf(f.row)] \in {"running", "paused", "rolling_back"}
        /\ \A s \in RowsOf(ExecutionOf(f.row)) \ {f.row} : rowStatus[s] \in Passed \cup {"none"}
    BY <1>1, <2>1 DEF FinalizeInv
  <2> QED BY <2>1, <2>2 DEF Quiet, RowsOf, ExecutionOf
<1>2. CASE f \notin finalizing
  <2>1. PICK s \in Row : \E by, status : ReadFinal(s, by, status) /\ NothingElseRemains(s)
    BY <1>2, FinalizingStep
  <2>2. f.row = s /\ UNCHANGED <<execStatus, rowStatus, cancelRequested>>
    BY <1>2, <2>1 DEF ReadFinal
  <2>3. ASSUME NEW r \in RowsOf(ExecutionOf(s)) \ {s} PROVE rowStatus[r] \in Passed \cup {"none"}
    <3>1. rowStatus[r] \in Finished \cup {"none"} /\ r \in Row /\ ExecutionOf(r) = ExecutionOf(s)
      BY <2>1, <2>3 DEF NothingElseRemains, RowsOf, ExecutionOf
    <3>2. rowStatus[r] # "canceled"
      BY <2>2, <3>1 DEF RowInv, CancelInv
    <3> QED BY <3>1, <3>2 DEF Finished
  <2> QED BY <2>1, <2>2, <2>3 DEF NothingElseRemains
<1> QED BY <1>1, <1>2

\* What a step may do to the status of an execution: it ends up not final, or final as before
\* with no row inserted, or final with no row remaining; and when every row was done before,
\* only a rollback moves it.
ExecStep(e) ==
    /\ \/ execStatus'[e] \notin FinalStatus
       \/ /\ execStatus'[e] = execStatus[e]
          /\ \A s \in RowsOf(e) : rowStatus[s] = "none" => rowStatus'[s] = "none"
       \/ \A s \in RowsOf(e) : rowStatus'[s] \in Finished \cup {"none"}
    /\ /\ execStatus[e] \in FinalStatus
       /\ \A s \in RowsOf(e) : rowStatus[s] \in Passed \cup {"none"}
       => \/ execStatus'[e] = execStatus[e]
          \/ execStatus[e] = "completed" /\ execStatus'[e] = "rolling_back"

\* The reports of a goroutine.
LEMMA ReportsExecStep ==
    ASSUME RowInv, NEW t \in tasks, NEW e \in Execution
    PROVE  /\ \A status \in Passed : CompleteSuccess(t, status) => ExecStep(e)
           /\ CompleteFailure(t) => ExecStep(e)
           /\ MarkExecutionStepAmbiguous(t) => ExecStep(e)
<1> USE ConstantsAssumption, RowConstants
<1>1. t.row \in Row /\ ExecutionOf(t.row) \in Execution
  BY DEF RowInv, TypeOK, Task
<1>2. t.row \in RowsOf(e) <=> ExecutionOf(t.row) = e
  BY <1>1 DEF RowsOf, ExecutionOf
<1>3. \A s \in RowsOf(e) : s \in Row
  BY DEF RowsOf
<1>4. ASSUME NEW status \in Passed, CompleteSuccess(t, status) PROVE ExecStep(e)
  BY <1>1, <1>2, <1>3, <1>4
  DEF CompleteSuccess, ReadFinal, StillLeased, ReleaseIfOwned, ExecStep, FinalStatus,
      RowInv, TypeOK, Leased, Passed, Finished
<1>5. ASSUME CompleteFailure(t) PROVE ExecStep(e)
  BY <1>1, <1>2, <1>3, <1>5
  DEF CompleteFailure, StillLeased, ReleaseIfOwned, ExecStep, FinalStatus,
      RowInv, TypeOK, Leased, Passed, Finished
<1>6. ASSUME MarkExecutionStepAmbiguous(t) PROVE ExecStep(e)
  BY <1>1, <1>2, <1>3, <1>6
  DEF MarkExecutionStepAmbiguous, ExecStep, FinalStatus, RowInv, TypeOK, Leased, Passed,
      Finished
<1> QED BY <1>4, <1>5, <1>6

\* Every step of a goroutine.
LEMMA TasksExecStep ==
    ASSUME RowInv, NEW t \in tasks, ExecuteStep(t), NEW e \in Execution
    PROVE  ExecStep(e)
<1> USE ConstantsAssumption, RowConstants
<1>1. t.row \in Row /\ t.worker # NoWorker /\ ExecutionOf(t.row) \in Execution
  BY DEF RowInv, TypeOK, Task
<1>2. t.row \in RowsOf(e) <=> ExecutionOf(t.row) = e
  BY <1>1 DEF RowsOf, ExecutionOf
<1>3. "skipped" \in Passed /\ SuccessStatus(t.row) \in Passed
  BY DEF Passed, SuccessStatus
<1>4. CASE SkipStep(t) \/ DryRunStep(t) \/ RemoteSucceeded(t)
  BY <1>3, <1>4, ReportsExecStep DEF SkipStep, DryRunStep, RemoteSucceeded
<1>5. CASE FailBeforeSend(t) \/ RemoteFailed(t)
  BY <1>5, ReportsExecStep DEF FailBeforeSend, RemoteFailed
<1>6. CASE SendRequest(t) \/ AbandonTask(t)
  BY <1>6 DEF SendRequest, AbandonTask, ExecStep
<1>7. CASE ScheduleWait(t)
  <2>1. CASE CompleteFailure(t) BY <2>1, ReportsExecStep
  <2>2. CASE ~CompleteFailure(t)
    BY <1>1, <1>7, <2>2 DEF ScheduleWait, ExecStep, RowInv, TypeOK, RowsOf
  <2> QED BY <2>1, <2>2
<1>8. CASE OpenApproval(t)
  <2>1. CASE CompleteFailure(t) BY <2>1, ReportsExecStep
  <2>2. CASE ~CompleteFailure(t)
    BY <1>1, <1>2, <1>8, <2>2, SMTT(30)
    DEF OpenApproval, Owns, ExecStep, FinalStatus, RowInv, LeaseInv, TypeOK, Leased, Passed, RowsOf
  <2> QED BY <2>1, <2>2
<1> QED
  BY <1>4, <1>5, <1>6, <1>7, <1>8 DEF ExecuteStep

\* Every step of the system moves executions nobody canceled as ExecStep says.
LEMMA NextExecStep ==
    ASSUME RowInv, FinalizeInv, [Next]_vars, NEW e \in Execution, ~cancelRequested[e]
    PROVE  ExecStep(e)
<1> USE ConstantsAssumption, RowConstants
<1>1. ASSUME NEW x \in Execution, StartExecution(x)
       PROVE  ExecStep(e)
  BY <1>1
  DEF StartExecution, ExecStep, FinalStatus, RowsOf, ExecutionOf, RowInv, TypeOK, Passed, Finished
<1>2. ASSUME NEW w \in Worker, NEW s \in Row, ClaimExecutionStep(w, s)
       PROVE  ExecStep(e)
  BY <1>2
  DEF ClaimExecutionStep, Claimable, ExecStep, FinalStatus, RowsOf, ExecutionOf, RowInv,
      TypeOK, Passed, Finished
<1>3. ASSUME NEW s \in Row, RecoverExpiredStepLease(s)
       PROVE  ExecStep(e)
  BY <1>3
  DEF RecoverExpiredStepLease, Leased, ExecStep, FinalStatus, RowsOf, ExecutionOf, RowInv,
      TypeOK, Passed, Finished
<1>4. ASSUME NEW s \in Row, CompleteWait(s)
       PROVE  ExecStep(e)
  BY <1>4
  DEF CompleteWait, ReadFinal, ExecStep, FinalStatus, RowsOf, ExecutionOf, RowInv, TypeOK,
      Passed, Finished
<1>5. ASSUME NEW s \in Row, ApprovalDeadline(s)
       PROVE  ExecStep(e)
  BY <1>5
  DEF ApprovalDeadline, ExecStep, FinalStatus, RowsOf, ExecutionOf, RowInv, TypeOK, Passed, Finished
<1>6. ASSUME NEW s \in Row, ExpireApproval(s)
       PROVE  ExecStep(e)
  BY <1>6
  DEF ExpireApproval, Overdue, ApprovalInv, ExecStep, FinalStatus, RowsOf, ExecutionOf, RowInv,
      TypeOK, Passed, Finished
<1>7. ASSUME NEW x \in Execution, PauseExecution(x)
       PROVE  ExecStep(e)
  BY <1>7
  DEF PauseExecution, ExecStep, FinalStatus, RowsOf, ExecutionOf, RowInv, TypeOK, Passed, Finished
<1>8. ASSUME NEW x \in Execution, ResumeExecution(x)
       PROVE  ExecStep(e)
  BY <1>8
  DEF ResumeExecution, ExecStep, FinalStatus, RowsOf, ExecutionOf, RowInv, TypeOK, Passed, Finished
<1>9. ASSUME NEW x \in Execution, CancelExecution(x)
       PROVE  ExecStep(e)
  BY <1>9
  DEF CancelExecution, Cancelable, ExecStep, FinalStatus, RowsOf, ExecutionOf, RowInv, TypeOK,
      Passed, Finished
<1>10. ASSUME NEW x \in Execution, StartExecutionRollback(x)
       PROVE  ExecStep(e)
  BY <1>10
  DEF StartExecutionRollback, RollbackRows, ExecStep, FinalStatus, RowsOf, ExecutionOf, RowInv,
      TypeOK, Passed, Finished
<1>11. ASSUME NEW s \in Row, NEW force \in BOOLEAN, RetryExecutionStep(s, force)
       PROVE  ExecStep(e)
  BY <1>11
  DEF RetryExecutionStep, ExecStep, FinalStatus, RowsOf, ExecutionOf, RowInv, TypeOK, Passed,
      Finished
<1>12. ASSUME NEW s \in Row, NEW decision \in {"approved", "rejected"},
              DecideApproval(s, decision)
       PROVE  ExecStep(e)
  BY <1>12
  DEF DecideApproval, Decidable, Finalized, ApprovalInv, ExecStep, FinalStatus, RowsOf,
      ExecutionOf, RowInv, TypeOK, Passed, Finished
<1>13. ASSUME NEW f \in finalizing, CommitFinal(f)
       PROVE  ExecStep(e)
  <2>1. f.row \in Row /\ f.status \in Passed /\ ExecutionOf(f.row) \in Execution
    BY DEF RowInv, TypeOK, Finalizing, LockInv
  <2>2. CASE ExecutionOf(f.row) # e
    BY <1>13, <2>1, <2>2 DEF CommitFinal, ExecStep, RowsOf, ExecutionOf, RowInv, TypeOK
  <2>3. CASE ExecutionOf(f.row) = e
    <3>1. /\ execStatus[e] \notin FinalStatus
          /\ \A s \in RowsOf(e) \ {f.row} : rowStatus[s] \in Passed \cup {"none"}
      BY <2>3 DEF FinalizeInv, FinalStatus
    <3>2. \A s \in RowsOf(e) : rowStatus'[s] \in Finished \cup {"none"}
      BY <1>13, <2>1, <3>1 DEF CommitFinal, RowsOf, RowInv, TypeOK, Finished
    <3> QED BY <3>1, <3>2 DEF ExecStep
  <2> QED BY <2>2, <2>3
<1>14. CASE UNCHANGED vars
  BY <1>14 DEF vars, ExecStep
<1> QED
  BY <1>1, <1>2, <1>3, <1>4, <1>5, <1>6, <1>7, <1>8, <1>9, <1>10, <1>11, <1>12, <1>13, <1>14,
     TasksExecStep
  DEF Next, Engine, Timers, Operator

\* The final statuses are earned in every step.
LEMMA NextKeepsFinal ==
    RowInv /\ FinalizeInv /\ FinalStatusIsEarned /\ [Next]_vars => FinalStatusIsEarned'
<1> SUFFICES ASSUME RowInv, FinalizeInv, FinalStatusIsEarned, [Next]_vars,
                    NEW e \in Execution, execStatus'[e] \in FinalStatus, ~cancelRequested'[e],
                    NEW s \in RowsOf(e)
             PROVE  rowStatus'[s] \in Passed \cup {"none"}
  BY DEF FinalStatusIsEarned, FinalStatus, RowsOf
<1>1. s \in Row /\ ExecutionOf(s) = e
  BY DEF RowsOf, ExecutionOf
<1>2. ~cancelRequested[e]
  BY CancelIsRecorded
<1>3. RowInv' /\ RowStep(s)
  BY <1>1, NextKeepsRows DEF RowsStep
<1>4. CASE rowStatus'[s] \in Finished \cup {"none"}
  BY <1>1, <1>3, <1>4 DEF RowInv, CancelInv, Finished, ExecutionOf
<1>5. CASE rowStatus'[s] \notin Finished \cup {"none"}
  <2>1. /\ execStatus'[e] = execStatus[e]
        /\ rowStatus[s] = "none" => rowStatus'[s] = "none"
    BY <1>2, <1>5, NextExecStep DEF ExecStep
  <2>2. rowStatus[s] \in Passed \cup {"none"}
    BY <1>2, <2>1 DEF FinalStatusIsEarned, FinalStatus
  <2> QED
    BY <1>3, <2>1, <2>2 DEF RowStep
<1> QED BY <1>4, <1>5

\* The invariant of the transactions that end an execution holds in every reachable state.
LEMMA FinalizeInvariant == Spec => []FinalizeInv
<1>1. Init => FinalizeInv
  BY DEF Init, FinalizeInv
<1>2. RowInv /\ FinalizeInv /\ [Next]_vars => FinalizeInv'
  BY NextKeepsFinalizing
<1> QED
  BY <1>1, <1>2, RowInvariant, PTL DEF Spec

\* An execution nobody canceled is completed or rolled back only when each of its steps is.
THEOREM FinalStatusEarned == Spec => []FinalStatusIsEarned
<1>1. Init => FinalStatusIsEarned
  BY DEF Init, FinalStatusIsEarned
<1> QED
  BY <1>1, NextKeepsFinal, RowInvariant, FinalizeInvariant, PTL DEF Spec

\* And it keeps that status, except that a completed one may be rolled back.
THEOREM FinalStatusFinal == Spec => FinalStatusIsFinal
<1>1. RowInv /\ FinalizeInv /\ FinalStatusIsEarned /\ [Next]_vars =>
        [\A e \in Execution : ~cancelRequested[e] =>
            /\ execStatus[e] = "completed" => execStatus'[e] \in {"completed", "rolling_back"}
            /\ execStatus[e] = "rolled_back" => execStatus'[e] = "rolled_back"]_vars
  BY NextExecStep DEF ExecStep, FinalStatus, FinalStatusIsEarned
<1> QED
  BY <1>1, RowInvariant, FinalizeInvariant, FinalStatusEarned, PTL
  DEF Spec, FinalStatusIsFinal

-----------------------------------------------------------------------------
(***************************************************************************)
(* A request without idempotency protection is sent once per decision of a *)
(* human.  The argument is one of accounting.  Every attempt that was sent *)
(* or that a goroutine may still send is live.  A step that may be claimed *)
(* again without a forced retry (Credit) counts for one more.  Nothing but *)
(* a forced retry raises the sum:                                          *)
(*   - a claim turns the credit into a live attempt;                       *)
(*   - a failure before the request is sent gives the credit back, and the *)
(*     attempt is dead, because no other goroutine executes it;            *)
(*   - once the request is sent the step can only succeed or become        *)
(*     ambiguous, whoever reports.                                         *)
(***************************************************************************)

InFlight(s) == {t.attempt : t \in {u \in tasks : u.row = s}}

Live(s) == sent[s] \cup InFlight(s)

Credit(s) == IF rowStatus[s] \in {"none", "pending", "retrying", "failed"} THEN 1 ELSE 0

\* Attempts are numbered by the claims so far.
AttemptInv ==
    /\ \A t \in tasks : t.attempt \in 1..attempt[t.row]
    /\ \A s \in Row : sent[s] \subseteq 1..attempt[s]

Budget(s) == Cardinality(Live(s)) + Credit(s) <= 1 + forced[s]

SendInv ==
    /\ RowInv
    /\ AttemptInv
    /\ AttemptsAreExclusive
    /\ \A s \in Row : NonIdempotentHTTP(s) => Budget(s)

-----------------------------------------------------------------------------
(***************************************************************************)
(* Attempts are numbered and exclusive.                                    *)
(***************************************************************************)

\* A goroutine's step ends its task, sends its attempt, or leaves both to the commit of its
\* transaction, and claims nothing.
LEMMA TaskBookkeeping ==
    ASSUME NEW t \in tasks, ExecuteStep(t)
    PROVE  /\ attempt' = attempt
           /\ forced' = forced
           /\ \/ tasks' = tasks \ {t} /\ sent' = sent
              \/ tasks' = tasks /\ sent' = sent
              \/ SendRequest(t)
BY DEF ExecuteStep, SkipStep, DryRunStep, ScheduleWait, OpenApproval, SendRequest,
      FailBeforeSend, RemoteSucceeded, RemoteFailed, AbandonTask, CompleteSuccess, ReadFinal,
      CompleteFailure, MarkExecutionStepAmbiguous

\* Everything else but a claim leaves attempts and requests alone, and starts no task.
LEMMA OtherBookkeeping ==
    ASSUME [Next]_vars,
           ~\E w \in Worker, s \in Row : ClaimExecutionStep(w, s),
           ~\E t \in tasks : ExecuteStep(t)
    PROVE  attempt' = attempt /\ tasks' \subseteq tasks /\ sent' = sent
<1>1. ASSUME NEW e \in Execution,
             \/ StartExecution(e) \/ PauseExecution(e) \/ ResumeExecution(e)
             \/ CancelExecution(e) \/ StartExecutionRollback(e)
      PROVE  attempt' = attempt /\ tasks' \subseteq tasks /\ sent' = sent
  BY <1>1
  DEF StartExecution, PauseExecution, ResumeExecution, CancelExecution, StartExecutionRollback
<1>2. ASSUME NEW s \in Row,
             \/ RecoverExpiredStepLease(s) \/ CompleteWait(s) \/ ApprovalDeadline(s)
             \/ ExpireApproval(s)
             \/ \E force \in BOOLEAN : RetryExecutionStep(s, force)
             \/ \E decision \in {"approved", "rejected"} : DecideApproval(s, decision)
      PROVE  attempt' = attempt /\ tasks' \subseteq tasks /\ sent' = sent
  BY <1>2
  DEF RecoverExpiredStepLease, CompleteWait, ReadFinal, ApprovalDeadline, ExpireApproval,
      RetryExecutionStep, DecideApproval
<1>3. ASSUME NEW f \in finalizing, CommitFinal(f)
      PROVE  attempt' = attempt /\ tasks' \subseteq tasks /\ sent' = sent
  BY <1>3 DEF CommitFinal
<1>4. CASE UNCHANGED vars
  BY <1>4 DEF vars
<1> QED
  BY <1>1, <1>2, <1>3, <1>4 DEF Next, Engine, Timers, Operator

\* Attempts stay numbered and exclusive.
LEMMA NextKeepsAttempts ==
    ASSUME TypeOK, AttemptInv, AttemptsAreExclusive, [Next]_vars
    PROVE  AttemptInv' /\ AttemptsAreExclusive'
<1>1. ASSUME NEW w \in Worker, NEW s \in Row, ClaimExecutionStep(w, s)
      PROVE  AttemptInv' /\ AttemptsAreExclusive'
  <2>1. /\ attempt' = [attempt EXCEPT ![s] = attempt[s] + 1]
        /\ tasks' = tasks \cup {[worker |-> w, row |-> s, attempt |-> attempt[s] + 1]}
        /\ sent' = sent
    BY <1>1 DEF ClaimExecutionStep, NextAttempt
  <2>2. \A r \in Row : attempt[r] \in Nat /\ attempt'[r] \in Nat /\ attempt[r] <= attempt'[r]
    BY <2>1, SMTT(30) DEF TypeOK
  <2>3. \A t \in tasks : t.row \in Row /\ t.attempt \in Nat
    BY DEF TypeOK, Task
  <2>4. AttemptInv'
    <3>1. \A t \in tasks' : t.attempt \in 1..attempt'[t.row]
      BY <2>1, <2>2, <2>3, SMTT(30) DEF AttemptInv, TypeOK
    <3>2. \A r \in Row : sent'[r] \subseteq 1..attempt'[r]
      BY <2>1, <2>2, SMTT(30) DEF AttemptInv, TypeOK
    <3> QED BY <3>1, <3>2 DEF AttemptInv
  <2>5. \A t \in tasks : t.row = s => t.attempt # attempt[s] + 1
    BY <2>2, <2>3, SMTT(30) DEF AttemptInv
  <2>6. AttemptsAreExclusive'
    BY <2>1, <2>5, SMTT(30) DEF AttemptsAreExclusive
  <2> QED BY <2>4, <2>6
<1>2. ASSUME NEW t \in tasks, ExecuteStep(t)
      PROVE  AttemptInv' /\ AttemptsAreExclusive'
  <2>1. CASE tasks' \subseteq tasks /\ sent' = sent /\ attempt' = attempt
    BY <2>1 DEF AttemptInv, AttemptsAreExclusive
  <2>2. CASE SendRequest(t)
    <3>1. t.row \in Row
      BY DEF TypeOK, Task
    <3> QED
      BY <2>2, <3>1, SMTT(30) DEF SendRequest, AttemptInv, AttemptsAreExclusive, TypeOK
  <2> QED BY <1>2, <2>1, <2>2, TaskBookkeeping
<1>3. CASE attempt' = attempt /\ tasks' \subseteq tasks /\ sent' = sent
  BY <1>3 DEF AttemptInv, AttemptsAreExclusive
<1> QED BY <1>1, <1>2, <1>3, OtherBookkeeping

\* Two goroutines never execute the same attempt of a step.
THEOREM ExclusiveAttempts == Spec => []AttemptsAreExclusive
<1>1. Init => AttemptInv /\ AttemptsAreExclusive
  BY DEF Init, AttemptInv, AttemptsAreExclusive
<1> QED
  BY <1>1, NextKeepsAttempts, TypeCorrect, PTL DEF Spec

-----------------------------------------------------------------------------
(***************************************************************************)
(* What an ambiguous step waits for.                                       *)
(***************************************************************************)

\* A goroutine that reports on an ambiguous step, its own or another, leaves it ambiguous: the
\* step is not leased, so nobody owns it.
LEMMA TasksLeaveAmbiguity ==
    ASSUME RowInv, NEW s \in Row, rowStatus[s] = "ambiguous", NEW t \in tasks, ExecuteStep(t)
    PROVE  rowStatus'[s] = "ambiguous"
<1>1. /\ t.row \in Row /\ t.worker \in Worker
      /\ rowStatus \in [Row -> StepStatus]
      /\ leaseOwner \in [Row -> Worker \cup {NoWorker}]
  BY DEF RowInv, TypeOK, Task
<1>2. ASSUME t.row = s PROVE ~Owns(t) /\ ~StillLeased(t)
  BY <1>1, <1>2, ConstantsAssumption DEF RowInv, LeaseInv, Leased, Owns, StillLeased
<1>3. ASSUME NEW status, CompleteSuccess(t, status) PROVE rowStatus'[s] = "ambiguous"
  BY <1>1, <1>2, <1>3 DEF CompleteSuccess, ReadFinal, ReleaseIfOwned
<1>4. ASSUME CompleteFailure(t) PROVE rowStatus'[s] = "ambiguous"
  BY <1>1, <1>2, <1>4 DEF CompleteFailure, ReleaseIfOwned
<1>5. ASSUME MarkExecutionStepAmbiguous(t) PROVE rowStatus'[s] = "ambiguous"
  BY <1>1, <1>5 DEF MarkExecutionStepAmbiguous
<1>6. ASSUME ScheduleWait(t) \/ OpenApproval(t) PROVE rowStatus'[s] = "ambiguous"
  BY <1>1, <1>2, <1>4, <1>6 DEF ScheduleWait, OpenApproval
<1>7. ASSUME SendRequest(t) \/ AbandonTask(t) PROVE rowStatus'[s] = "ambiguous"
  BY <1>7 DEF SendRequest, AbandonTask
<1> QED
  BY <1>3, <1>4, <1>5, <1>6, <1>7
  DEF ExecuteStep, SkipStep, DryRunStep, FailBeforeSend, RemoteSucceeded, RemoteFailed

\* Everything but the retry of the row itself leaves an ambiguous row ambiguous.
LEMMA NextLeavesAmbiguity ==
    ASSUME RowInv, [Next]_vars, NEW s \in Row, rowStatus[s] = "ambiguous"
    PROVE  rowStatus'[s] = "ambiguous" \/ retries'[s] = retries[s] + 1
<1>1. /\ rowStatus \in [Row -> StepStatus] /\ retries \in [Row -> Nat]
      /\ approval[s] # "pending"
      /\ execStatus[ExecutionOf(s)] # "none"
  BY DEF RowInv, TypeOK, ApprovalInv, StartInv
<1>2. ASSUME NEW e \in Execution, StartExecution(e) PROVE rowStatus'[s] = "ambiguous"
  BY <1>1, <1>2 DEF StartExecution
<1>3. ASSUME NEW w \in Worker, NEW r \in Row, ClaimExecutionStep(w, r)
      PROVE  rowStatus'[s] = "ambiguous"
  BY <1>1, <1>3 DEF ClaimExecutionStep, Claimable
<1>4. ASSUME NEW r \in Row, RecoverExpiredStepLease(r) PROVE rowStatus'[s] = "ambiguous"
  BY <1>1, <1>4 DEF RecoverExpiredStepLease, Leased
<1>5. ASSUME NEW r \in Row, CompleteWait(r) \/ ApprovalDeadline(r) PROVE rowStatus'[s] = "ambiguous"
  BY <1>1, <1>5 DEF CompleteWait, ReadFinal, ApprovalDeadline
<1>6. ASSUME NEW r \in Row, ExpireApproval(r) PROVE rowStatus'[s] = "ambiguous"
  BY <1>1, <1>6 DEF ExpireApproval, Overdue
<1>7. ASSUME NEW e \in Execution, PauseExecution(e) \/ ResumeExecution(e)
      PROVE  rowStatus'[s] = "ambiguous"
  BY <1>7 DEF PauseExecution, ResumeExecution
<1>8. ASSUME NEW e \in Execution, CancelExecution(e) PROVE rowStatus'[s] = "ambiguous"
  BY <1>8 DEF CancelExecution, Cancelable
<1>9. ASSUME NEW e \in Execution, StartExecutionRollback(e) PROVE rowStatus'[s] = "ambiguous"
  BY <1>9 DEF StartExecutionRollback, RollbackRows
<1>10. ASSUME NEW r \in Row, NEW force \in BOOLEAN, RetryExecutionStep(r, force)
       PROVE  rowStatus'[s] = "ambiguous" \/ retries'[s] = retries[s] + 1
  BY <1>1, <1>10 DEF RetryExecutionStep
<1>11. ASSUME NEW r \in Row, NEW decision \in {"approved", "rejected"}, DecideApproval(r, decision)
       PROVE  rowStatus'[s] = "ambiguous"
  BY <1>1, <1>11 DEF DecideApproval, Decidable
<1>12. ASSUME NEW f \in finalizing, CommitFinal(f) PROVE rowStatus'[s] = "ambiguous"
  <2>1. f.row \in Row /\ rowStatus[f.row] # "ambiguous"
    BY DEF RowInv, TypeOK, Finalizing, LockInv, Leased
  <2> QED BY <1>1, <1>12, <2>1 DEF CommitFinal
<1>13. CASE UNCHANGED vars
  BY <1>13 DEF vars
<1> QED
  BY <1>2, <1>3, <1>4, <1>5, <1>6, <1>7, <1>8, <1>9, <1>10, <1>11, <1>12, <1>13,
     TasksLeaveAmbiguity
  DEF Next, Engine, Timers, Operator

\* An ambiguous step stays ambiguous until an operator retries it: neither lease recovery nor
\* a late report nor a cancel takes it out of that status.
THEOREM AmbiguityIsKept == Spec => AmbiguityNeedsOperator
<1>1. RowInv /\ [Next]_vars =>
        [\A s \in Row : rowStatus[s] = "ambiguous" =>
            rowStatus'[s] = "ambiguous" \/ retries'[s] = retries[s] + 1]_vars
  BY NextLeavesAmbiguity
<1> QED
  BY <1>1, RowInvariant, PTL DEF Spec, AmbiguityNeedsOperator

-----------------------------------------------------------------------------
(***************************************************************************)
(* The accounting.                                                         *)
(***************************************************************************)

\* What a step does to the account of a row: nothing that raises it; a claim; a failure of an
\* attempt that was not sent; or a forced retry.
AccountStep(s) ==
    \/ Live(s)' \subseteq Live(s) /\ Credit(s)' <= Credit(s) /\ forced'[s] = forced[s]
    \/ /\ \E a \in Nat : Live(s)' \subseteq Live(s) \cup {a}
       /\ Credit(s) = 1 /\ Credit(s)' = 0 /\ forced'[s] = forced[s]
    \/ /\ \E a \in Live(s) : Live(s)' \subseteq Live(s) \ {a}
       /\ forced'[s] = forced[s]
    \/ Live(s)' \subseteq Live(s) /\ forced'[s] = forced[s] + 1

\* The credit of a row depends on its status alone.
LEMMA CreditIsKept ==
    ASSUME NEW s, rowStatus'[s] = rowStatus[s]
    PROVE  Credit(s)' = Credit(s) /\ Credit(s) \in 0..1
<1>1. CASE rowStatus[s] \in {"none", "pending", "retrying", "failed"}
  BY <1>1, SMTT(30) DEF Credit
<1>2. CASE rowStatus[s] \notin {"none", "pending", "retrying", "failed"}
  BY <1>2, SMTT(30) DEF Credit
<1> QED BY <1>1, <1>2

\* A task that ends takes its attempt from the live ones, or leaves it among the sent ones.
LEMMA EndOfTask ==
    ASSUME TypeOK, AttemptsAreExclusive, NEW s \in Row, NEW t \in tasks,
           tasks' = tasks \ {t}, sent' = sent
    PROVE  /\ Live(s)' \subseteq Live(s)
           /\ t.row # s => Live(s)' = Live(s)
           /\ t.row = s /\ Unsent(t) => /\ t.attempt \in Live(s)
                                        /\ Live(s)' \subseteq Live(s) \ {t.attempt}
<1>1. InFlight(s)' \subseteq InFlight(s)
  BY DEF InFlight
<1>2. ASSUME t.row # s PROVE InFlight(s)' = InFlight(s)
  BY <1>2, SMTT(30) DEF InFlight
<1>3. ASSUME t.row = s
      PROVE  t.attempt \in InFlight(s) /\ t.attempt \notin InFlight(s)'
  BY <1>3 DEF InFlight, AttemptsAreExclusive
<1> QED
  BY <1>1, <1>2, <1>3 DEF Live, Unsent

\* Tasks that end make no attempt live.
LEMMA FewerTasks ==
    ASSUME NEW s, tasks' \subseteq tasks, sent' = sent
    PROVE  Live(s)' \subseteq Live(s)
BY DEF Live, InFlight

\* A goroutine's step on the account of an unprotected http row.
LEMMA TaskAccount ==
    ASSUME SendInv, NEW s \in Row, NonIdempotentHTTP(s), NEW t \in tasks, ExecuteStep(t)
    PROVE  AccountStep(s)
<1>1. /\ TypeOK /\ AttemptsAreExclusive
      /\ t.row \in Row /\ t.attempt \in Nat
      /\ forced'[s] = forced[s]
  BY TaskBookkeeping DEF SendInv, RowInv, TypeOK, Task
<1>2. ~SafeReplay(s) /\ Def[s].type = "http"
  BY DEF NonIdempotentHTTP, SafeReplay
<1>3. ASSUME rowStatus'[s] = rowStatus[s] \/ rowStatus'[s] \in Passed \cup {"ambiguous"},
             tasks' \subseteq tasks, sent' = sent
      PROVE  AccountStep(s)
  <2>1. Credit(s)' <= Credit(s)
    BY <1>3, SMTT(30) DEF Credit, Passed
  <2> QED BY <1>1, <1>3, <2>1, FewerTasks DEF AccountStep
<1>4. ASSUME NEW status \in Passed, CompleteSuccess(t, status) PROVE AccountStep(s)
  <2>1. rowStatus'[s] = rowStatus[s] \/ rowStatus'[s] = status
    BY <1>1, <1>4 DEF CompleteSuccess, ReadFinal, ReleaseIfOwned, TypeOK
  <2> QED BY <1>3, <1>4, <2>1 DEF CompleteSuccess, ReadFinal
<1>5. ASSUME MarkExecutionStepAmbiguous(t) PROVE AccountStep(s)
  <2>1. rowStatus'[s] = rowStatus[s] \/ rowStatus'[s] = "ambiguous"
    BY <1>1, <1>5 DEF MarkExecutionStepAmbiguous, TypeOK
  <2> QED BY <1>3, <1>5, <2>1 DEF MarkExecutionStepAmbiguous
<1>6. ASSUME CompleteFailure(t), t.row # s PROVE AccountStep(s)
  <2>1. rowStatus'[s] = rowStatus[s]
    BY <1>1, <1>6 DEF CompleteFailure, ReleaseIfOwned, TypeOK
  <2> QED BY <1>3, <1>6, <2>1 DEF CompleteFailure
<1>7. ASSUME CompleteFailure(t), t.row = s, Unsent(t) PROVE AccountStep(s)
  BY <1>1, <1>7, EndOfTask DEF CompleteFailure, AccountStep
<1>8. "skipped" \in Passed /\ SuccessStatus(t.row) \in Passed
  BY DEF Passed, SuccessStatus
<1>9. CASE SkipStep(t) \/ DryRunStep(t) \/ RemoteSucceeded(t)
  BY <1>4, <1>8, <1>9 DEF SkipStep, DryRunStep, RemoteSucceeded
<1>10. CASE FailBeforeSend(t)
  BY <1>6, <1>7, <1>10 DEF FailBeforeSend
<1>11. CASE RemoteFailed(t)
  BY <1>2, <1>5, <1>6, <1>11 DEF RemoteFailed
<1>12. CASE AbandonTask(t)
  BY <1>3, <1>12 DEF AbandonTask
<1>13. CASE SendRequest(t)
  <2>1. Live(s)' \subseteq Live(s)
    BY <1>1, <1>13 DEF SendRequest, Live, InFlight, TypeOK
  <2>2. Credit(s)' = Credit(s) /\ Credit(s) \in 0..1
    <3>1. rowStatus'[s] = rowStatus[s]
      BY <1>13 DEF SendRequest
    <3> QED BY <3>1, CreditIsKept
  <2> QED BY <1>1, <2>1, <2>2, SMTT(30) DEF AccountStep
<1>14. CASE ScheduleWait(t) \/ OpenApproval(t)
  <2>1. t.row # s
    BY <1>2, <1>14 DEF ScheduleWait, OpenApproval
  <2>2. CASE CompleteFailure(t) BY <1>6, <2>1, <2>2
  <2>3. CASE ~CompleteFailure(t)
    <3>1. rowStatus'[s] = rowStatus[s] /\ tasks' = tasks \ {t} /\ sent' = sent
      BY <1>1, <1>14, <2>1, <2>3 DEF ScheduleWait, OpenApproval, TypeOK
    <3> QED BY <1>3, <3>1
  <2> QED BY <2>2, <2>3
<1> QED
  BY <1>9, <1>10, <1>11, <1>12, <1>13, <1>14, <1>2 DEF ExecuteStep

\* A claim on the account of a row.
LEMMA ClaimAccount ==
    ASSUME TypeOK, NEW s \in Row, NEW w \in Worker, NEW r \in Row, ClaimExecutionStep(w, r)
    PROVE  AccountStep(s)
<1>1. /\ tasks' = tasks \cup {[worker |-> w, row |-> r, attempt |-> attempt[r] + 1]}
      /\ sent' = sent /\ forced' = forced /\ attempt[r] + 1 \in Nat
  BY SMTT(30) DEF ClaimExecutionStep, NextAttempt, TypeOK
<1>2. CASE r = s
  <2>1. Live(s)' \subseteq Live(s) \cup {attempt[r] + 1}
    BY <1>1, <1>2, SMTT(30) DEF Live, InFlight
  <2>2. Credit(s) = 1 /\ Credit(s)' = 0
    BY <1>2 DEF ClaimExecutionStep, Claimable, Credit, TypeOK
  <2> QED BY <1>1, <2>1, <2>2 DEF AccountStep
<1>3. CASE r # s
  <2>1. Live(s)' \subseteq Live(s)
    BY <1>1, <1>3, SMTT(30) DEF Live, InFlight
  <2>2. Credit(s)' = Credit(s) /\ Credit(s) \in 0..1
    <3>1. rowStatus'[s] = rowStatus[s]
      BY <1>3 DEF ClaimExecutionStep, TypeOK
    <3> QED BY <3>1, CreditIsKept
  <2> QED BY <1>1, <2>1, <2>2, SMTT(30) DEF AccountStep
<1> QED BY <1>2, <1>3

\* Recovery, timers and the operator on the account of an unprotected http row.
LEMMA OtherAccount ==
    ASSUME SendInv, NEW s \in Row, NonIdempotentHTTP(s), [Next]_vars,
           ~\E w \in Worker, r \in Row : ClaimExecutionStep(w, r),
           ~\E t \in tasks : ExecuteStep(t)
    PROVE  AccountStep(s)
<1> USE ConstantsAssumption, RowConstants
<1>1. TypeOK /\ StartInv /\ ApprovalInv
  BY DEF SendInv, RowInv
<1>2. Live(s)' \subseteq Live(s)
  BY OtherBookkeeping, FewerTasks
<1>3. ~SafeReplay(s) /\ Def[s].type = "http"
  BY DEF NonIdempotentHTTP, SafeReplay
<1>4. SUFFICES \/ Credit(s)' <= Credit(s) /\ forced'[s] = forced[s]
               \/ forced'[s] = forced[s] + 1
  BY <1>2 DEF AccountStep
<1>5. ASSUME NEW e \in Execution, StartExecution(e)
      PROVE  Credit(s)' <= Credit(s) /\ forced'[s] = forced[s]
  BY <1>1, <1>5, SMTT(30) DEF StartExecution, StartInv, Credit, TypeOK
<1>6. ASSUME NEW r \in Row, RecoverExpiredStepLease(r)
      PROVE  Credit(s)' <= Credit(s) /\ forced'[s] = forced[s]
  BY <1>1, <1>3, <1>6, SMTT(30) DEF RecoverExpiredStepLease, Credit, TypeOK
<1>7. ASSUME NEW r \in Row, CompleteWait(r)
      PROVE  Credit(s)' <= Credit(s) /\ forced'[s] = forced[s]
  BY <1>1, <1>7, SMTT(30) DEF CompleteWait, ReadFinal, Credit, TypeOK
<1>8. ASSUME NEW r \in Row, ApprovalDeadline(r)
      PROVE  Credit(s)' <= Credit(s) /\ forced'[s] = forced[s]
  BY <1>8, SMTT(30) DEF ApprovalDeadline, Credit
<1>9. ASSUME NEW r \in Row, ExpireApproval(r)
      PROVE  Credit(s)' <= Credit(s) /\ forced'[s] = forced[s]
  BY <1>1, <1>3, <1>9, SMTT(30) DEF ExpireApproval, Overdue, ApprovalInv, Credit, TypeOK
<1>10. ASSUME NEW e \in Execution, PauseExecution(e) \/ ResumeExecution(e)
       PROVE  Credit(s)' <= Credit(s) /\ forced'[s] = forced[s]
  <2>1. UNCHANGED <<rowStatus, forced>>
    BY <1>10 DEF PauseExecution, ResumeExecution
  <2>2. Credit(s)' = Credit(s) /\ Credit(s) \in 0..1
    BY <2>1, CreditIsKept
  <2>3. \A c \in 0..1 : c <= c
    BY SMTT(30)
  <2> QED
    BY <2>1, <2>2, <2>3
<1>11. ASSUME NEW e \in Execution, CancelExecution(e)
       PROVE  Credit(s)' <= Credit(s) /\ forced'[s] = forced[s]
  BY <1>1, <1>11, SMTT(30) DEF CancelExecution, Credit, TypeOK
<1>12. ASSUME NEW e \in Execution, StartExecutionRollback(e)
       PROVE  Credit(s)' <= Credit(s) /\ forced'[s] = forced[s]
  BY <1>1, <1>12, SMTT(30) DEF StartExecutionRollback, RollbackRows, RowsOf, Credit, TypeOK
<1>13. ASSUME NEW r \in Row, NEW force \in BOOLEAN, RetryExecutionStep(r, force)
       PROVE  \/ Credit(s)' <= Credit(s) /\ forced'[s] = forced[s]
              \/ forced'[s] = forced[s] + 1
  BY <1>1, <1>13, SMTT(30) DEF RetryExecutionStep, Credit, TypeOK
<1>14. ASSUME NEW r \in Row, NEW decision \in {"approved", "rejected"},
              DecideApproval(r, decision)
       PROVE  Credit(s)' <= Credit(s) /\ forced'[s] = forced[s]
  BY <1>1, <1>3, <1>14, SMTT(30) DEF DecideApproval, Decidable, ApprovalInv, Credit, TypeOK
<1>15. ASSUME NEW f \in finalizing, CommitFinal(f)
       PROVE  Credit(s)' <= Credit(s) /\ forced'[s] = forced[s]
  <2>1. f.row \in Row /\ f.status \in Passed
    BY DEF SendInv, RowInv, TypeOK, Finalizing, LockInv
  <2> QED BY <1>1, <1>15, <2>1, SMTT(30) DEF CommitFinal, Credit, TypeOK, Passed
<1>16. CASE UNCHANGED vars
  <2>1. UNCHANGED <<rowStatus, forced>>
    BY <1>16 DEF vars
  <2>2. Credit(s)' = Credit(s) /\ Credit(s) \in 0..1
    BY <2>1, CreditIsKept
  <2>3. \A c \in 0..1 : c <= c
    BY SMTT(30)
  <2> QED
    BY <2>1, <2>2, <2>3
<1> QED
  BY <1>5, <1>6, <1>7, <1>8, <1>9, <1>10, <1>11, <1>12, <1>13, <1>14, <1>15,
     <1>16
  DEF Next, Engine, Timers, Operator

-----------------------------------------------------------------------------
(***************************************************************************)
(* The budget: how many attempts are live.                                 *)
(***************************************************************************)

INSTANCE FiniteSetTheorems

\* The live attempts of a row are finitely many.
LEMMA LiveIsFinite ==
    ASSUME TypeOK, AttemptInv, NEW s \in Row
    PROVE  IsFiniteSet(Live(s)) /\ sent[s] \subseteq Live(s)
<1>1. Live(s) \subseteq 1..attempt[s]
  BY DEF Live, InFlight, AttemptInv
<1>2. IsFiniteSet(1..attempt[s])
  BY FS_Interval, SMTT(30) DEF TypeOK
<1> QED
  BY <1>1, <1>2, FS_Subset DEF Live

\* The account never exceeds the budget.
LEMMA AccountKeepsBudget ==
    ASSUME TypeOK, TypeOK', AttemptInv, NEW s \in Row, Budget(s), AccountStep(s)
    PROVE  Budget(s)'
<1> DEFINE L == Live(s)
           M == Live(s)'
<1>1. IsFiniteSet(L) /\ Cardinality(L) \in Nat
  BY LiveIsFinite, FS_CardinalityType
<1>2. Credit(s) \in 0..1 /\ Credit(s)' \in 0..1 /\ forced[s] \in Nat /\ forced'[s] \in Nat
  BY SMTT(30) DEF Credit, TypeOK
<1>3. Cardinality(L) + Credit(s) <= 1 + forced[s]
  BY DEF Budget
<1>4. CASE /\ M \subseteq L
           /\ \/ Credit(s)' <= Credit(s) /\ forced'[s] = forced[s]
              \/ forced'[s] = forced[s] + 1
  <2>1. Cardinality(M) \in Nat /\ Cardinality(M) <= Cardinality(L)
    BY <1>1, <1>4, FS_Subset, FS_CardinalityType
  <2> QED
    BY <1>1, <1>2, <1>3, <1>4, <2>1, SMTT(30) DEF Budget
<1>5. ASSUME NEW a \in Nat, M \subseteq L \cup {a},
             Credit(s) = 1, Credit(s)' = 0, forced'[s] = forced[s]
      PROVE  Budget(s)'
  <2>1. /\ IsFiniteSet(L \cup {a})
        /\ Cardinality(L \cup {a}) \in Nat
        /\ Cardinality(L \cup {a}) <= Cardinality(L) + 1
    <3> HIDE DEF L
    <3>1. /\ IsFiniteSet(L \cup {a})
          /\ Cardinality(L \cup {a}) = Cardinality(L) \/ Cardinality(L \cup {a}) = Cardinality(L) + 1
      BY <1>1, FS_AddElement
    <3> QED BY <1>1, <3>1, SMTT(30)
  <2>2. Cardinality(M) \in Nat /\ Cardinality(M) <= Cardinality(L \cup {a})
    BY <1>5, <2>1, FS_Subset, FS_CardinalityType
  <2> QED
    BY <1>1, <1>2, <1>3, <1>5, <2>1, <2>2, SMTT(30) DEF Budget
<1>6. ASSUME NEW a \in L, M \subseteq L \ {a}, forced'[s] = forced[s]
      PROVE  Budget(s)'
  <2>1. /\ IsFiniteSet(L \ {a})
        /\ Cardinality(L \ {a}) \in Nat
        /\ Cardinality(L \ {a}) = Cardinality(L) - 1
    BY <1>1, FS_RemoveElement, FS_CardinalityType
  <2>2. Cardinality(M) \in Nat /\ Cardinality(M) <= Cardinality(L \ {a})
    BY <1>6, <2>1, FS_Subset, FS_CardinalityType
  <2> QED
    BY <1>1, <1>2, <1>3, <1>6, <2>1, <2>2, SMTT(30) DEF Budget
<1> QED
  BY <1>4, <1>5, <1>6 DEF AccountStep

\* The accounts hold in every step.
LEMMA NextKeepsAccounts == SendInv /\ [Next]_vars => SendInv'
<1> SUFFICES ASSUME SendInv, [Next]_vars PROVE SendInv'
  OBVIOUS
<1>1. RowInv'
  BY NextKeepsRows DEF SendInv, RowsStep
<1>2. AttemptInv' /\ AttemptsAreExclusive'
  BY NextKeepsAttempts DEF SendInv, RowInv
<1>3. ASSUME NEW s \in Row, NonIdempotentHTTP(s) PROVE Budget(s)'
  <2>1. AccountStep(s)
    BY <1>3, ClaimAccount, TaskAccount, OtherAccount DEF SendInv, RowInv
  <2> QED
    BY <1>1, <1>3, <2>1, AccountKeepsBudget DEF SendInv, RowInv
<1> QED
  BY <1>1, <1>2, <1>3 DEF SendInv, NonIdempotentHTTP

\* A request without idempotency protection leaves the engine at most once per execution and
\* forced retry: for any number of workers, crashes, expired leases and late reports.
THEOREM AuthorizedSends == Spec => []SendsAreAuthorized
<1>1. Init => SendInv
  <2> SUFFICES ASSUME Init PROVE SendInv
    OBVIOUS
  <2>1. RowInv
    BY ConstantsAssumption, RowConstants
    DEF Init, RowInv, LeaseInv, ApprovalInv, StartInv, CancelInv, LockInv, TypeOK,
        ExecutionStatus, StepStatus, ApprovalStatus
  <2>2. AttemptInv /\ AttemptsAreExclusive
    BY DEF Init, AttemptInv, AttemptsAreExclusive
  <2>3. ASSUME NEW s \in Row PROVE Budget(s)
    <3>1. Live(s) = {} /\ Credit(s) = 1 /\ forced[s] = 0
      BY DEF Init, Live, InFlight, Credit
    <3> QED BY <3>1, FS_EmptySet, SMTT(30) DEF Budget
  <2> QED BY <2>1, <2>2, <2>3 DEF SendInv
<1>2. SendInv => SendsAreAuthorized
  <2> SUFFICES ASSUME SendInv, NEW s \in Row, NonIdempotentHTTP(s)
               PROVE  Cardinality(sent[s]) <= 1 + forced[s]
    BY DEF SendsAreAuthorized
  <2>1. TypeOK /\ AttemptInv /\ Budget(s)
    BY DEF SendInv, RowInv
  <2>2. IsFiniteSet(Live(s)) /\ sent[s] \subseteq Live(s)
    BY <2>1, LiveIsFinite
  <2>3. /\ Cardinality(sent[s]) \in Nat /\ Cardinality(Live(s)) \in Nat
        /\ Cardinality(sent[s]) <= Cardinality(Live(s))
    BY <2>2, FS_Subset, FS_CardinalityType
  <2>4. Credit(s) \in 0..1 /\ forced[s] \in Nat
    BY <2>1, SMTT(30) DEF Credit, TypeOK
  <2> QED BY <2>1, <2>3, <2>4, SMTT(30) DEF Budget
<1> QED
  BY <1>1, <1>2, NextKeepsAccounts, PTL DEF Spec
=============================================================================
