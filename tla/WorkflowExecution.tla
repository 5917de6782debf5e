-------------------------- MODULE WorkflowExecution --------------------------
(***************************************************************************)
(* The durable execution path of the platform: a request (manual, or a     *)
(* schedule tick) inserts an execution row and then a job row; workers     *)
(* (the server's polling loop and each cron invocation) claim jobs with    *)
(* SELECT ... FOR UPDATE SKIP LOCKED and run processJob, one database      *)
(* statement or one external action at a time.                             *)
(*                                                                         *)
(* Every statement may fail: "lost" leaves the database as it was,         *)
(* "unacknowledged" applies the change and then loses the answer.  A       *)
(* process may crash between any two statements.                           *)
(***************************************************************************)
EXTENDS Naturals, FiniteSets

CONSTANTS
    Requests,      \* trigger requests; each would create one execution and one job
    Keys,          \* idempotency keys
    KeyOf,         \* the key each request carries
    Workers,       \* the server's loop and the cron invocations
    NumSteps,      \* length of the published definition
    Kind,          \* kind of each step: "action", "condition" or "stop" (onFalse: stop)
    MaxAttempts,   \* max_attempts of a job
    FaultKinds,    \* which database faults happen: subset of {"lost", "unacknowledged"}
    MaxFaults,     \* bound: faulty statements in a behaviour
    MaxCrashes     \* bound: process crashes in a behaviour

Steps == 1..NumSteps

ASSUME ExecutionAssumption ==
    /\ Requests # {}
    /\ KeyOf \in [Requests -> Keys]
    /\ NumSteps \in Nat
    /\ Kind \in [Steps -> {"action", "condition", "stop"}]
    /\ MaxAttempts \in Nat \ {0}
    /\ FaultKinds \subseteq {"lost", "unacknowledged"}
    /\ MaxFaults \in Nat
    /\ MaxCrashes \in Nat

VARIABLES
    reqPc,         \* where the handler of each request is
    execStatus,    \* bos_workflow_executions.status ("none": no row)
    execAttempts,  \* bos_workflow_executions.attempts
    jobStatus,     \* bos_jobs.status of the request's job ("none": no row)
    jobAttempts,   \* bos_jobs.attempts
    jobRunAt,      \* bos_jobs.run_at: "due", or "later" during a backoff
    stepStatus,    \* bos_execution_steps.status of each step's row
    notified,      \* kinds of owner notification inserted for the execution
    effects,       \* history: how often each action step took effect outside
    pc,            \* where each worker is in its loop or in processJob
    jobOf,         \* the job a busy worker holds
    stepOf,        \* loop index i (from 1) of a worker in the step loop
    faults, crashes

reqVars  == <<reqPc>>
execVars == <<execStatus, execAttempts>>
jobVars  == <<jobStatus, jobAttempts, jobRunAt>>
runVars  == <<stepStatus, effects>>
vars == <<reqPc, execStatus, execAttempts, jobStatus, jobAttempts, jobRunAt,
          stepStatus, notified, effects, pc, jobOf, stepOf, faults, crashes>>

ReqStates  == {"idle", "inserted", "queued", "duplicate", "error"}
ExecStates == {"none", "queued", "running", "completed", "failed", "cancelled"}
JobStates  == {"none", "queued", "running", "completed", "failed"}
RowStates  == {"none", "running", "completed", "skipped", "failed"}
InLoop     == {"step", "act", "record", "stepfail"}
Processing == {"select", "skip", "begin", "finish", "notify", "done", "catch"} \cup InLoop
Failing    == {"failexec", "failnotify"}
WorkerStates == {"idle", "locked"} \cup Processing \cup Failing

Init ==
    /\ reqPc = [r \in Requests |-> "idle"]
    /\ execStatus = [r \in Requests |-> "none"]
    /\ execAttempts = [r \in Requests |-> 0]
    /\ jobStatus = [r \in Requests |-> "none"]
    /\ jobAttempts = [r \in Requests |-> 0]
    /\ jobRunAt = [r \in Requests |-> "due"]
    /\ stepStatus = [r \in Requests |-> [i \in Steps |-> "none"]]
    /\ notified = [r \in Requests |-> {}]
    /\ effects = [r \in Requests |-> [i \in Steps |-> 0]]
    /\ pc = [w \in Workers |-> "idle"]
    /\ jobOf = [w \in Workers |-> CHOOSE r \in Requests : TRUE]
    /\ stepOf = [w \in Workers |-> 1]
    /\ faults = 0
    /\ crashes = 0

-----------------------------------------------------------------------------
(* Database statements *)

Outcomes == {"ok"} \cup FaultKinds

\* The statement changed the database, whether or not its sender learns of it.
Applied(o) == o # "lost"

CountFault(o) ==
    /\ o # "ok" => faults < MaxFaults
    /\ faults' = IF o = "ok" THEN faults ELSE faults + 1

\* One statement of worker w with outcome o.  If it is acknowledged w goes on to
\* `next`, otherwise to `onError`.
Statement(w, o, next, onError) ==
    /\ CountFault(o)
    /\ pc' = [pc EXCEPT ![w] = IF o = "ok" THEN next ELSE onError]

\* The same for the statement of a request handler, which answers 500 on a fault.
RequestStatement(r, o, next) ==
    /\ CountFault(o)
    /\ reqPc' = [reqPc EXCEPT ![r] = IF o = "ok" THEN next ELSE "error"]

-----------------------------------------------------------------------------
(* Requests: POST /api/v1/executions and the schedule tick of /api/v1/cron *)

\* Mutant: only an execution that has not ended takes its key.
KeyTakenWhileLive(r) ==
    \E q \in Requests : KeyOf[q] = KeyOf[r] /\ execStatus[q] \in {"queued", "running"}

\* ON CONFLICT(workspace_id, idempotency_key): an execution with this key exists.
KeyTaken(r) == \E q \in Requests : KeyOf[q] = KeyOf[r] /\ execStatus[q] # "none"

InsertExecution(r) ==
    /\ reqPc[r] = "idle"
    /\ ~KeyTaken(r)
    /\ \E o \in Outcomes :
        /\ RequestStatement(r, o, "inserted")
        /\ execStatus' = IF Applied(o) THEN [execStatus EXCEPT ![r] = "queued"] ELSE execStatus
    /\ UNCHANGED <<execAttempts, jobVars, runVars, notified, pc, jobOf, stepOf, crashes>>

\* DO NOTHING returned no row: the caller is answered with the existing execution.
AnswerDuplicate(r) ==
    /\ reqPc[r] = "idle"
    /\ KeyTaken(r)
    /\ reqPc' = [reqPc EXCEPT ![r] = "duplicate"]
    /\ UNCHANGED <<execVars, jobVars, runVars, notified, pc, jobOf, stepOf, faults, crashes>>

InsertJob(r) ==
    /\ reqPc[r] = "inserted"
    /\ \E o \in Outcomes :
        /\ RequestStatement(r, o, "queued")
        /\ jobStatus' = IF Applied(o) THEN [jobStatus EXCEPT ![r] = "queued"] ELSE jobStatus
    /\ UNCHANGED <<execVars, jobAttempts, jobRunAt, runVars, notified, pc, jobOf, stepOf, crashes>>

CrashRequest(r) ==
    /\ reqPc[r] = "inserted"
    /\ crashes < MaxCrashes
    /\ crashes' = crashes + 1
    /\ reqPc' = [reqPc EXCEPT ![r] = "error"]
    /\ UNCHANGED <<execVars, jobVars, runVars, notified, pc, jobOf, stepOf, faults>>

-----------------------------------------------------------------------------
(* Claiming: BEGIN; SELECT ... FOR UPDATE SKIP LOCKED; UPDATE; COMMIT *)

At(w, where) == pc[w] = where

LockedRow(r) == \E w \in Workers : pc[w] = "locked" /\ jobOf[w] = r

\* Mutant: SELECT without FOR UPDATE.
ClaimableUnlocked(r) == jobStatus[r] = "queued" /\ jobRunAt[r] = "due"

Claimable(r) == jobStatus[r] = "queued" /\ jobRunAt[r] = "due" /\ ~LockedRow(r)

LockJob(w) ==
    /\ At(w, "idle")
    /\ \E r \in Requests :
        /\ Claimable(r)
        /\ jobOf' = [jobOf EXCEPT ![w] = r]
    /\ pc' = [pc EXCEPT ![w] = "locked"]
    /\ UNCHANGED <<reqVars, execVars, jobVars, runVars, notified, stepOf, faults, crashes>>

ClaimJob(w) ==
    /\ At(w, "locked")
    /\ \E o \in Outcomes :
        /\ Statement(w, o, "select", "idle")
        /\ jobStatus' = IF Applied(o) THEN [jobStatus EXCEPT ![jobOf[w]] = "running"] ELSE jobStatus
        /\ jobAttempts' = IF Applied(o) THEN [jobAttempts EXCEPT ![jobOf[w]] = @ + 1] ELSE jobAttempts
    /\ UNCHANGED <<reqVars, execVars, jobRunAt, runVars, notified, jobOf, stepOf, crashes>>

-----------------------------------------------------------------------------
(* processJob, type workflow.execute *)

\* Mutant: the early return forgets completed executions.
SettledCancelled(r) == execStatus[r] = "cancelled"

\* The statuses for which processJob does not run the definition again.
Settled(r) == execStatus[r] \in {"completed", "cancelled"}

SelectExecution(w) ==
    /\ At(w, "select")
    /\ \E o \in Outcomes :
        Statement(w, o, IF Settled(jobOf[w]) THEN "skip" ELSE "begin", "catch")
    /\ UNCHANGED <<reqVars, execVars, jobVars, runVars, notified, jobOf, stepOf, crashes>>

\* Mutant: the loop runs to i <= steps.length from index 0.
AdvancePastEnd(i) == IF i <= NumSteps + 1 THEN "step" ELSE "finish"

Advance(i) == IF i <= NumSteps THEN "step" ELSE "finish"

BeginExecution(w) ==
    LET r == jobOf[w] IN
    /\ At(w, "begin")
    /\ \E o \in Outcomes :
        /\ Statement(w, o, Advance(1), "catch")
        /\ execStatus' = IF Applied(o) THEN [execStatus EXCEPT ![r] = "running"] ELSE execStatus
        /\ execAttempts' = IF Applied(o) THEN [execAttempts EXCEPT ![r] = @ + 1] ELSE execAttempts
    /\ stepOf' = [stepOf EXCEPT ![w] = 1]
    /\ UNCHANGED <<reqVars, jobVars, runVars, notified, jobOf, crashes>>

\* Writes the row of the step w is at.
SetRow(w, o, status) ==
    stepStatus' = IF Applied(o) THEN [stepStatus EXCEPT ![jobOf[w]][stepOf[w]] = status]
                             ELSE stepStatus

StartStep(w) ==
    /\ At(w, "step")
    /\ \E o \in Outcomes :
        /\ Statement(w, o, "act", "catch")
        /\ SetRow(w, o, "running")
    /\ UNCHANGED <<reqVars, execVars, jobVars, notified, effects, jobOf, stepOf, crashes>>

\* executeAction takes effect and answers, throws before it takes effect, or throws
\* after it did (a timeout, a rejected answer).
RunAction(w) ==
    LET r == jobOf[w]
        i == stepOf[w]
    IN
    /\ At(w, "act")
    /\ Kind[i] = "action"
    /\ \E o \in {"answered", "failed", "failedLate"} :
        /\ effects' = IF o = "failed" THEN effects ELSE [effects EXCEPT ![r][i] = @ + 1]
        /\ pc' = [pc EXCEPT ![w] = IF o = "answered" THEN "record" ELSE "stepfail"]
    /\ UNCHANGED <<reqVars, execVars, jobVars, stepStatus, notified, jobOf, stepOf, faults, crashes>>

RecordStep(w) ==
    /\ At(w, "record")
    /\ \E o \in Outcomes :
        /\ Statement(w, o, Advance(stepOf[w] + 1), "stepfail")
        /\ SetRow(w, o, "completed")
        /\ stepOf' = IF o = "ok" THEN [stepOf EXCEPT ![w] = @ + 1] ELSE stepOf
    /\ UNCHANGED <<reqVars, execVars, jobVars, notified, effects, jobOf, crashes>>

\* Mutant: a condition with onFalse: stop stops the run whatever its verdict.
StopsAnyway(i, verdict) == Kind[i] = "stop"

\* A condition that is false stops the definition when its onFalse says so.
Stops(i, verdict) == verdict = "skipped" /\ Kind[i] = "stop"

EvaluateCondition(w) ==
    LET i == stepOf[w] IN
    /\ At(w, "act")
    /\ Kind[i] # "action"
    /\ \E verdict \in {"completed", "skipped"}, o \in Outcomes :
        /\ Statement(w, o, IF Stops(i, verdict) THEN "finish" ELSE Advance(i + 1), "stepfail")
        /\ SetRow(w, o, verdict)
        /\ stepOf' = IF o = "ok" /\ ~Stops(i, verdict) THEN [stepOf EXCEPT ![w] = i + 1] ELSE stepOf
    /\ UNCHANGED <<reqVars, execVars, jobVars, notified, effects, jobOf, crashes>>

\* conditionPass throws UNSUPPORTED_OPERATOR.
ConditionThrows(w) ==
    /\ At(w, "act")
    /\ Kind[stepOf[w]] # "action"
    /\ pc' = [pc EXCEPT ![w] = "stepfail"]
    /\ UNCHANGED <<reqVars, execVars, jobVars, runVars, notified, jobOf, stepOf, faults, crashes>>

\* The inner catch: the step's row says failed and the error is thrown on.
FailStep(w) ==
    /\ At(w, "stepfail")
    /\ \E o \in Outcomes :
        /\ Statement(w, o, "catch", "catch")
        /\ SetRow(w, o, "failed")
    /\ UNCHANGED <<reqVars, execVars, jobVars, notified, effects, jobOf, stepOf, crashes>>

CompleteExecution(w) ==
    /\ At(w, "finish")
    /\ \E o \in Outcomes :
        /\ Statement(w, o, "notify", "catch")
        /\ execStatus' = IF Applied(o) THEN [execStatus EXCEPT ![jobOf[w]] = "completed"] ELSE execStatus
    /\ UNCHANGED <<reqVars, execAttempts, jobVars, runVars, notified, jobOf, stepOf, crashes>>

Notify(w, o, kind) ==
    notified' = IF Applied(o) THEN [notified EXCEPT ![jobOf[w]] = @ \cup {kind}] ELSE notified

NotifySuccess(w) ==
    /\ At(w, "notify")
    /\ \E o \in Outcomes :
        /\ Statement(w, o, "done", "catch")
        /\ Notify(w, o, "success")
    /\ UNCHANGED <<reqVars, execVars, jobVars, runVars, jobOf, stepOf, crashes>>

\* UPDATE bos_jobs SET status='completed', after a run or at once when the
\* execution had already settled.
CompleteJob(w) ==
    /\ At(w, "done") \/ At(w, "skip")
    /\ \E o \in Outcomes :
        /\ Statement(w, o, "idle", "catch")
        /\ jobStatus' = IF Applied(o) THEN [jobStatus EXCEPT ![jobOf[w]] = "completed"] ELSE jobStatus
    /\ UNCHANGED <<reqVars, execVars, jobAttempts, jobRunAt, runVars, notified, jobOf, stepOf, crashes>>

-----------------------------------------------------------------------------
(* The outer catch of processJob *)

\* Mutants: one attempt too many, one too few.
ExhaustedLate(r) == jobAttempts[r] > MaxAttempts
ExhaustedEarly(r) == jobAttempts[r] + 1 >= MaxAttempts

Exhausted(r) == jobAttempts[r] >= MaxAttempts

\* Mutant: the retry leaves the row running.
CatchStatusRunning(r) == IF Exhausted(r) THEN "failed" ELSE "running"

CatchStatus(r) == IF Exhausted(r) THEN "failed" ELSE "queued"

\* A fault here leaves processJob, and the worker's loop forgets the job.
CatchError(w) ==
    LET r == jobOf[w] IN
    /\ At(w, "catch")
    /\ \E o \in Outcomes :
        /\ Statement(w, o, IF Exhausted(r) THEN "failexec" ELSE "idle", "idle")
        /\ jobStatus' = IF Applied(o) THEN [jobStatus EXCEPT ![r] = CatchStatus(r)] ELSE jobStatus
        /\ jobRunAt' = IF Applied(o) THEN [jobRunAt EXCEPT ![r] = "later"] ELSE jobRunAt
    /\ UNCHANGED <<reqVars, execVars, jobAttempts, runVars, notified, jobOf, stepOf, crashes>>

FailExecution(w) ==
    /\ At(w, "failexec")
    /\ \E o \in Outcomes :
        /\ Statement(w, o, "failnotify", "idle")
        /\ execStatus' = IF Applied(o) THEN [execStatus EXCEPT ![jobOf[w]] = "failed"] ELSE execStatus
    /\ UNCHANGED <<reqVars, execAttempts, jobVars, runVars, notified, jobOf, stepOf, crashes>>

NotifyFailure(w) ==
    /\ At(w, "failnotify")
    /\ \E o \in Outcomes :
        /\ Statement(w, o, "idle", "idle")
        /\ Notify(w, o, "failure")
    /\ UNCHANGED <<reqVars, execVars, jobVars, runVars, jobOf, stepOf, crashes>>

-----------------------------------------------------------------------------
(* Time and crashes *)

\* The backoff of a requeued job is over: run_at <= NOW().
BackoffEnds(r) ==
    /\ jobStatus[r] = "queued"
    /\ jobRunAt[r] = "later"
    /\ jobRunAt' = [jobRunAt EXCEPT ![r] = "due"]
    /\ UNCHANGED <<reqVars, execVars, jobStatus, jobAttempts, runVars, notified, pc, jobOf, stepOf,
                   faults, crashes>>

\* The process dies (or the cron invocation is cut off); an open transaction is
\* rolled back, committed rows stay.
CrashWorker(w) ==
    /\ pc[w] # "idle"
    /\ crashes < MaxCrashes
    /\ crashes' = crashes + 1
    /\ pc' = [pc EXCEPT ![w] = "idle"]
    /\ UNCHANGED <<reqVars, execVars, jobVars, runVars, notified, jobOf, stepOf, faults>>

-----------------------------------------------------------------------------
Claiming(w) == LockJob(w) \/ ClaimJob(w)

Running(w) ==
    \/ SelectExecution(w) \/ BeginExecution(w) \/ StartStep(w) \/ RunAction(w)
    \/ RecordStep(w) \/ EvaluateCondition(w) \/ ConditionThrows(w) \/ FailStep(w)
    \/ CompleteExecution(w) \/ NotifySuccess(w) \/ CompleteJob(w)

Catching(w) == CatchError(w) \/ FailExecution(w) \/ NotifyFailure(w)

WorkerStep(w) == Claiming(w) \/ Running(w) \/ Catching(w)

Request(r) == InsertExecution(r) \/ AnswerDuplicate(r) \/ InsertJob(r)

Next ==
    \/ \E r \in Requests : Request(r) \/ CrashRequest(r) \/ BackoffEnds(r)
    \/ \E w \in Workers : WorkerStep(w) \/ CrashWorker(w)

Spec == Init /\ [][Next]_vars

\* A worker that is up polls and runs what it holds, a handler that has begun goes
\* on, and time passes.  Nothing makes a request arrive.
Fairness ==
    /\ \A w \in Workers : WF_vars(WorkerStep(w))
    /\ \A r \in Requests : WF_vars(InsertJob(r)) /\ WF_vars(BackoffEnds(r))

FairSpec == Spec /\ Fairness

-----------------------------------------------------------------------------
(* Properties *)

\* The rows hold statuses their CHECK constraints allow, and a worker inside the loop of
\* processJob is at a step of the definition.
TypeOK ==
    /\ reqPc \in [Requests -> ReqStates]
    /\ execStatus \in [Requests -> ExecStates]
    /\ execAttempts \in [Requests -> Nat]
    /\ jobStatus \in [Requests -> JobStates]
    /\ jobAttempts \in [Requests -> Nat]
    /\ jobRunAt \in [Requests -> {"due", "later"}]
    /\ stepStatus \in [Requests -> [Steps -> RowStates]]
    /\ notified \in [Requests -> SUBSET {"success", "failure"}]
    /\ effects \in [Requests -> [Steps -> Nat]]
    /\ pc \in [Workers -> WorkerStates]
    /\ jobOf \in [Workers -> Requests]
    /\ stepOf \in [Workers -> Nat \ {0}]
    /\ \A w \in Workers : pc[w] \in InLoop => stepOf[w] \in Steps
    /\ faults \in Nat
    /\ crashes \in Nat

Busy(w) == pc[w] # "idle"

\* Two workers never hold the same job, whatever fails and crashes around the
\* claim transaction: a job abandoned by one is not picked up by another while
\* the first still runs it.
NoSharedJob ==
    \A v, w \in Workers : v # w /\ Busy(v) /\ Busy(w) => jobOf[v] # jobOf[w]

\* Retries, faults and requests repeated with the same idempotency key together
\* never make a step take effect more often than max_attempts.
EffectsBounded ==
    \A q, r \in Requests : \A i \in Steps :
        /\ effects[r][i] <= MaxAttempts
        /\ q # r /\ KeyOf[q] = KeyOf[r] /\ effects[r][i] > 0 => effects[q][i] = 0

Done(r, i) ==
    \/ stepStatus[r][i] = "completed" /\ (Kind[i] = "action" => effects[r][i] > 0)
    \/ stepStatus[r][i] = "skipped" /\ Kind[i] # "action"

\* The rows of r tell of a run that passed every step up to the end or to a
\* condition that stopped it.
RanToEnd(r) ==
    \E k \in 0..NumSteps :
        /\ \A i \in 1..k : Done(r, i)
        /\ k = NumSteps \/ (k > 0 /\ Kind[k] = "stop" /\ stepStatus[r][k] = "skipped")

\* An execution recorded as completed really ran: every step up to its end (or to
\* the condition that stopped it) is recorded as done, and every action among them
\* took effect, on whichever attempt and worker it was.
CompletedRan == \A r \in Requests : execStatus[r] = "completed" => RanToEnd(r)

\* Job and execution agree on the outcome: a completed job has a completed
\* execution, and an execution fails only with its job given up after max_attempts;
\* the failure is announced only then.
OutcomesAgree ==
    \A r \in Requests :
        /\ jobStatus[r] = "completed" => execStatus[r] = "completed"
        /\ execStatus[r] = "failed" \/ "failure" \in notified[r]
             => jobStatus[r] = "failed" /\ jobAttempts[r] = MaxAttempts
        /\ "success" \in notified[r] => RanToEnd(r)

\* Once an execution has completed or failed, no retry, no late worker and no
\* repeated request runs it again: it stays settled and acts on the outside no more.
QuietWhenSettled ==
    [][\A r \in Requests :
        execStatus[r] \in {"completed", "failed"} =>
            execStatus'[r] \in {"completed", "failed"} /\ effects'[r] = effects[r]]_vars

\* Unless a database statement fails or a process crashes, every execution whose job
\* is queued ends as completed or failed, however its actions fail.
EventuallySettles ==
    \A r \in Requests : jobStatus[r] = "queued" ~>
        execStatus[r] \in {"completed", "failed"} \/ faults > 0 \/ crashes > 0

\* The queue a job's owner may rely on: bos_jobs rows follow the life cycle of
\* JobLifecycle, when no acknowledgement of the database is lost.
Lifecycle == INSTANCE JobLifecycle WITH
    Jobs <- Requests, status <- jobStatus, attempts <- jobAttempts

ImplementsLifecycle == Lifecycle!JobSpec

\* A job no worker holds although its row says running is never taken up again; there are
\* no more of them than crashes and faults: each abandons one job at most, and nothing else
\* (no retry, no other worker, no repeated request) does.
Abandoned(r) == jobStatus[r] = "running" /\ \A w \in Workers : Busy(w) => jobOf[w] # r
AbandonedByFaults == Cardinality({r \in Requests : Abandoned(r)}) <= crashes + faults

=============================================================================
