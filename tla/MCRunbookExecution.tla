------------------------- MODULE MCRunbookExecution -------------------------
(***************************************************************************)
(* Instances of RunbookExecution for TLC.                                  *)
(***************************************************************************)
EXTENDS RunbookExecution, TLC

CONSTANTS e1, e2, e3, s1, s2, s3, s4, r1, w1, w2

Step(e, position, type, header, max) ==
    [execution |-> e, position |-> position, rollbackOf |-> NoRow, type |-> type,
     idempotencyHeader |-> header, maxAttempts |-> max, conditional |-> FALSE,
     expires |-> FALSE]

RollbackStep(step, row, header, max) ==
    [step EXCEPT !.rollbackOf = row, !.type = "http", !.idempotencyHeader = header,
                 !.maxAttempts = max, !.conditional = FALSE]

\* An unprotected request with a rollback that may be replayed, then an approval with a
\* deadline.
HTTPDef ==
    LET a == Step(e1, 0, "http", FALSE, 2) IN
    s1 :> a @@
    s2 :> [Step(e1, 1, "approval", FALSE, 1) EXCEPT !.expires = TRUE] @@
    r1 :> RollbackStep(a, s1, TRUE, 2)

\* A conditional plugin call and a wait in one execution, an approval with a deadline in
\* another, and a dry run.
TimersDef ==
    s1 :> [Step(e1, 0, "plugin", FALSE, 2) EXCEPT !.conditional = TRUE] @@
    s2 :> Step(e1, 1, "wait", FALSE, 2) @@
    s3 :> [Step(e2, 0, "approval", FALSE, 1) EXCEPT !.expires = TRUE] @@
    s4 :> Step(e3, 0, "http", FALSE, 1)

\* The executions in E were started and canceled at once, before a worker claimed anything.
CanceledAtOnce(E) ==
    /\ execStatus = [e \in Execution |-> IF e \in E THEN "canceled" ELSE "none"]
    /\ cancelRequested = [e \in Execution |-> e \in E]
    /\ rowStatus = [s \in Row |-> IF ExecutionOf(s) \in E THEN "canceled" ELSE "none"]
    /\ leaseOwner = [s \in Row |-> NoWorker]
    /\ attempt = [s \in Row |-> 0]
    /\ approval = [s \in Row |-> "none"]
    /\ overdue = {} /\ tasks = {} /\ finalizing = {}
    /\ sent = [s \in Row |-> {}]
    /\ retries = [s \in Row |-> 0]
    /\ forced = [s \in Row |-> 0]

\* The dry run shares nothing with the other two but the worker, so it is checked on its own.
TimersSpec ==
    /\ CanceledAtOnce({e1, e2}) \/ CanceledAtOnce({e3})
    /\ [][Supervised]_vars
    /\ Fairness

\* One unprotected request with three attempts.
ReplayDef == s1 :> Step(e1, 0, "http", FALSE, 3)

WorkerSymmetry == Permutations({w1, w2})
=============================================================================
