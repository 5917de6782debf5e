----------------------------- MODULE EventIngest -----------------------------
(***************************************************************************)
(* Webhook events: a delivery inserts an event row and then an             *)
(* event.process job; a worker that takes the job reads which workflows of *)
(* the workspace are published and inserts an execution and a job for each *)
(* of them, one statement at a time, and then marks the event processed.   *)
(* Nothing ties the statements together, so a retry starts over.           *)
(*                                                                         *)
(* Faults and crashes are those of WorkflowExecution.  The claim           *)
(* transaction, modelled there, is one step here; the run of the           *)
(* executions is left to that module.                                      *)
(***************************************************************************)
EXTENDS Naturals, FiniteSets

CONSTANTS
    Deliveries,    \* webhook deliveries; each has an event row and a job of its own
    Ids,           \* external ids: x-event-id, idempotency-key or the hash of the payload
    IdOf,          \* the external id of each delivery
    Workspaces,
    WorkspaceOf,   \* the workspace each delivery is sent to
    Workflows,     \* workflows whose trigger is a webhook, or not given
    HomeOf,        \* the workspace of each workflow
    Workers,
    MaxAttempts,   \* max_attempts of a job
    FaultKinds,    \* which database faults happen: subset of {"lost", "unacknowledged"}
    MaxFaults,     \* bound: faulty statements in a behaviour
    MaxCrashes,    \* bound: process crashes in a behaviour
    MaxChanges     \* bound: publications and withdrawals of workflows in a behaviour

ASSUME IngestAssumption ==
    /\ IdOf \in [Deliveries -> Ids]
    /\ WorkspaceOf \in [Deliveries -> Workspaces]
    /\ HomeOf \in [Workflows -> Workspaces]
    /\ Deliveries # {} /\ Workflows # {}
    /\ MaxAttempts \in Nat \ {0}
    /\ FaultKinds \subseteq {"lost", "unacknowledged"}
    /\ MaxFaults \in Nat /\ MaxCrashes \in Nat /\ MaxChanges \in Nat

VARIABLES
    reqPc,        \* where the handler of each delivery is
    event,        \* bos_events.status of each delivery's event ("none": no row)
    jobStatus,    \* bos_jobs.status of its event.process job ("none": no row)
    jobAttempts,  \* bos_jobs.attempts
    published,    \* the workflows whose status is published
    execs,        \* executions inserted for each delivery and workflow
    queued,       \* workflow.execute jobs inserted for each delivery and workflow
    pc,           \* where each worker is
    jobOf,        \* the delivery whose job a busy worker holds
    todo,         \* workflows its SELECT returned, still to be served
    current,      \* the workflow it has inserted an execution for
    steady,       \* history: workflows published ever since the event was stored
    faults, crashes, changes

rowVars == <<event, jobStatus, jobAttempts>>
runVars == <<execs, queued>>
workVars == <<pc, jobOf, todo, current>>
flowVars == <<published, steady, changes>>
vars == <<reqPc, rowVars, runVars, workVars, flowVars, faults, crashes>>

Local(d) == {f \in Workflows : HomeOf[f] = WorkspaceOf[d]}

Init ==
    /\ reqPc = [d \in Deliveries |-> "idle"]
    /\ event = [d \in Deliveries |-> "none"]
    /\ jobStatus = [d \in Deliveries |-> "none"]
    /\ jobAttempts = [d \in Deliveries |-> 0]
    /\ published \in SUBSET Workflows
    /\ execs = [d \in Deliveries |-> [f \in Workflows |-> 0]]
    /\ queued = [d \in Deliveries |-> [f \in Workflows |-> 0]]
    /\ pc = [k \in Workers |-> "idle"]
    /\ jobOf = [k \in Workers |-> CHOOSE d \in Deliveries : TRUE]
    /\ todo = [k \in Workers |-> {}]
    /\ current = [k \in Workers |-> CHOOSE f \in Workflows : TRUE]
    /\ steady = [d \in Deliveries |-> {}]
    /\ faults = 0
    /\ crashes = 0
    /\ changes = 0

-----------------------------------------------------------------------------
(* Database statements *)

Outcomes == {"ok"} \cup FaultKinds

Applied(o) == o # "lost"

\* A statement of process p of the control vector `control`, which goes on to `next`
\* if it is acknowledged and to `onError` otherwise.
Statement(control, p, o, next, onError) ==
    /\ o # "ok" => faults < MaxFaults
    /\ faults' = IF o = "ok" THEN faults ELSE faults + 1
    /\ control' = [control EXCEPT ![p] = IF o = "ok" THEN next ELSE onError]

-----------------------------------------------------------------------------
(* POST /api/v1/webhooks/:endpoint *)

\* Mutant: the constraint holds among events that are still to be processed.
StoredUnprocessed(d) == \E e \in Deliveries : IdOf[e] = IdOf[d] /\ event[e] = "received"

\* UNIQUE(provider, external_id): an event with this external id exists.
Stored(d) == \E e \in Deliveries : IdOf[e] = IdOf[d] /\ event[e] # "none"

InsertEvent(d) ==
    /\ reqPc[d] = "idle"
    /\ ~Stored(d)
    /\ \E o \in Outcomes :
        /\ Statement(reqPc, d, o, "stored", "error")
        /\ event' = IF Applied(o) THEN [event EXCEPT ![d] = "received"] ELSE event
        /\ steady' = IF Applied(o) THEN [steady EXCEPT ![d] = published \cap Local(d)] ELSE steady
    /\ UNCHANGED <<jobStatus, jobAttempts, runVars, workVars, published, changes, crashes>>

AnswerDuplicate(d) ==
    /\ reqPc[d] = "idle"
    /\ Stored(d)
    /\ reqPc' = [reqPc EXCEPT ![d] = "duplicate"]
    /\ UNCHANGED <<rowVars, runVars, workVars, flowVars, faults, crashes>>

InsertEventJob(d) ==
    /\ reqPc[d] = "stored"
    /\ \E o \in Outcomes :
        /\ Statement(reqPc, d, o, "accepted", "error")
        /\ jobStatus' = IF Applied(o) THEN [jobStatus EXCEPT ![d] = "queued"] ELSE jobStatus
    /\ UNCHANGED <<event, jobAttempts, runVars, workVars, flowVars, crashes>>

CrashDelivery(d) ==
    /\ reqPc[d] = "stored"
    /\ crashes < MaxCrashes
    /\ crashes' = crashes + 1
    /\ reqPc' = [reqPc EXCEPT ![d] = "error"]
    /\ UNCHANGED <<rowVars, runVars, workVars, flowVars, faults>>

-----------------------------------------------------------------------------
(* Publishing and disabling a workflow *)

Publish(f) ==
    /\ changes < MaxChanges
    /\ changes' = changes + 1
    /\ f \notin published
    /\ published' = published \cup {f}
    /\ UNCHANGED <<reqPc, rowVars, runVars, workVars, steady, faults, crashes>>

Disable(f) ==
    /\ changes < MaxChanges
    /\ changes' = changes + 1
    /\ f \in published
    /\ published' = published \ {f}
    /\ steady' = [d \in Deliveries |-> steady[d] \ {f}]
    /\ UNCHANGED <<reqPc, rowVars, runVars, workVars, faults, crashes>>

-----------------------------------------------------------------------------
(* processJob, type event.process *)

Claim(k, d) ==
    /\ pc[k] = "idle"
    /\ jobStatus[d] = "queued"
    /\ \E o \in Outcomes :
        /\ Statement(pc, k, o, "select", "idle")
        /\ jobStatus' = IF Applied(o) THEN [jobStatus EXCEPT ![d] = "running"] ELSE jobStatus
        /\ jobAttempts' = IF Applied(o) THEN [jobAttempts EXCEPT ![d] = @ + 1] ELSE jobAttempts
        /\ jobOf' = IF o = "ok" THEN [jobOf EXCEPT ![k] = d] ELSE jobOf
    /\ UNCHANGED <<reqPc, event, runVars, todo, current, flowVars, crashes>>

\* Mutant: a retry passes over the workflows that have an execution already.
SelectedFresh(d) == {f \in published \cap Local(d) : execs[d][f] = 0}

Selected(d) == published \cap Local(d)

\* The SELECT of the event, which is there, and that of the workflows.
SelectWorkflows(k) ==
    /\ pc[k] = "select"
    /\ \E o \in Outcomes : Statement(pc, k, o, "next", "catch")
    /\ todo' = [todo EXCEPT ![k] = Selected(jobOf[k])]
    /\ UNCHANGED <<reqPc, rowVars, runVars, jobOf, current, flowVars, crashes>>

InsertExecution(k) ==
    /\ pc[k] = "next"
    /\ \E f \in todo[k], o \in Outcomes :
        /\ Statement(pc, k, o, "enqueue", "catch")
        /\ execs' = IF Applied(o) THEN [execs EXCEPT ![jobOf[k]][f] = @ + 1] ELSE execs
        /\ current' = [current EXCEPT ![k] = f]
    /\ UNCHANGED <<reqPc, rowVars, queued, jobOf, todo, flowVars, crashes>>

InsertJob(k) ==
    /\ pc[k] = "enqueue"
    /\ \E o \in Outcomes :
        /\ Statement(pc, k, o, "next", "catch")
        /\ queued' = IF Applied(o) THEN [queued EXCEPT ![jobOf[k]][current[k]] = @ + 1] ELSE queued
    /\ todo' = [todo EXCEPT ![k] = @ \ {current[k]}]
    /\ UNCHANGED <<reqPc, rowVars, execs, jobOf, current, flowVars, crashes>>

MarkProcessed(k) ==
    /\ pc[k] = "next"
    /\ todo[k] = {}
    /\ \E o \in Outcomes :
        /\ Statement(pc, k, o, "done", "catch")
        /\ event' = IF Applied(o) THEN [event EXCEPT ![jobOf[k]] = "processed"] ELSE event
    /\ UNCHANGED <<reqPc, jobStatus, jobAttempts, runVars, jobOf, todo, current, flowVars, crashes>>

CompleteJob(k) ==
    /\ pc[k] = "done"
    /\ \E o \in Outcomes :
        /\ Statement(pc, k, o, "idle", "catch")
        /\ jobStatus' = IF Applied(o) THEN [jobStatus EXCEPT ![jobOf[k]] = "completed"] ELSE jobStatus
    /\ UNCHANGED <<reqPc, event, jobAttempts, runVars, jobOf, todo, current, flowVars, crashes>>

\* Mutant: a job is given up at its first error.
CatchStatusAtOnce(d) == "failed"

CatchStatus(d) == IF jobAttempts[d] >= MaxAttempts THEN "failed" ELSE "queued"

\* The outer catch.  The event itself keeps its status, also when its job is given up.
CatchError(k) ==
    /\ pc[k] = "catch"
    /\ \E o \in Outcomes :
        /\ Statement(pc, k, o, "idle", "idle")
        /\ jobStatus' = IF Applied(o)
                        THEN [jobStatus EXCEPT ![jobOf[k]] = CatchStatus(jobOf[k])]
                        ELSE jobStatus
    /\ UNCHANGED <<reqPc, event, jobAttempts, runVars, jobOf, todo, current, flowVars, crashes>>

CrashWorker(k) ==
    /\ pc[k] # "idle"
    /\ crashes < MaxCrashes
    /\ crashes' = crashes + 1
    /\ pc' = [pc EXCEPT ![k] = "idle"]
    /\ UNCHANGED <<reqPc, rowVars, runVars, jobOf, todo, current, flowVars, faults>>

-----------------------------------------------------------------------------
Processing(k) ==
    \/ SelectWorkflows(k) \/ InsertExecution(k) \/ InsertJob(k)
    \/ MarkProcessed(k) \/ CompleteJob(k) \/ CatchError(k)

WorkerStep(k) == (\E d \in Deliveries : Claim(k, d)) \/ Processing(k)

Next ==
    \/ \E d \in Deliveries :
        InsertEvent(d) \/ AnswerDuplicate(d) \/ InsertEventJob(d) \/ CrashDelivery(d)
    \/ \E f \in Workflows : Publish(f) \/ Disable(f)
    \/ \E k \in Workers : WorkerStep(k) \/ CrashWorker(k)

Spec == Init /\ [][Next]_vars

\* A worker that is up polls, and runs what it holds.
Fairness == \A k \in Workers : WF_vars(WorkerStep(k))

FairSpec == Spec /\ Fairness

-----------------------------------------------------------------------------
(* Properties *)

Busy(k) == pc[k] # "idle"

\* The rows hold statuses their CHECK constraints allow, no job is claimed more than
\* max_attempts times, and a worker serves workflows of the event's workspace only.
TypeOK ==
    /\ reqPc \in [Deliveries -> {"idle", "stored", "accepted", "duplicate", "error"}]
    /\ event \in [Deliveries -> {"none", "received", "processed"}]
    /\ jobStatus \in [Deliveries -> {"none", "queued", "running", "completed", "failed"}]
    /\ jobAttempts \in [Deliveries -> 0..MaxAttempts]
    /\ published \subseteq Workflows
    /\ execs \in [Deliveries -> [Workflows -> Nat]]
    /\ queued \in [Deliveries -> [Workflows -> Nat]]
    /\ pc \in [Workers -> {"idle", "select", "next", "enqueue", "done", "catch"}]
    /\ jobOf \in [Workers -> Deliveries]
    /\ todo \in [Workers -> SUBSET Workflows]
    /\ \A k \in Workers : pc[k] \in {"next", "enqueue"} => todo[k] \subseteq Local(jobOf[k])
    /\ current \in [Workers -> Workflows]
    /\ steady \in [Deliveries -> SUBSET Workflows]
    /\ \A d \in Deliveries : steady[d] \subseteq published \cap Local(d)
    /\ faults \in 0..MaxFaults /\ crashes \in 0..MaxCrashes /\ changes \in 0..MaxChanges

\* An event is marked processed only when each workflow that was published from its
\* arrival on has been given an execution with a job, on whichever attempt.
ServedWhenProcessed ==
    \A d \in Deliveries : event[d] = "processed" => \A f \in steady[d] : queued[d][f] > 0

\* Executions of no job: the last ones, as far as there are more executions than jobs.
Jobless == {x \in Deliveries \X Workflows \X (1..MaxAttempts) :
                queued[x[1]][x[2]] < x[3] /\ x[3] <= execs[x[1]][x[2]]}
Enqueuing == {k \in Workers : pc[k] = "enqueue"}

\* However often an event is delivered, one delivery of it starts its workflows, each of them
\* once, and once more for each fault that sent its job back, up to max_attempts; and only a
\* fault or a crash leaves an execution without a job, but for those a worker is about to insert.
FanoutBounded ==
    /\ \A d, e \in Deliveries, f, g \in Workflows :
        IdOf[d] = IdOf[e] /\ execs[d][f] > 0 /\ execs[e][g] > 0 => d = e
    /\ \A d \in Deliveries, f \in Workflows : execs[d][f] <= 1 + faults /\ execs[d][f] <= MaxAttempts
    /\ Cardinality(Jobless) <= faults + crashes + Cardinality(Enqueuing)

\* A job its worker left behind as running: it crashed, or the statement that would
\* have put the job back, or the answer to its claim, was lost.
Abandoned(d) == jobStatus[d] = "running" /\ \A k \in Workers : Busy(k) => jobOf[k] # d

\* An accepted event is processed in the end, unless its job is abandoned or each of
\* its attempts met a fault.
EventuallyProcessed ==
    \A d \in Deliveries : reqPc[d] = "accepted" ~>
        event[d] = "processed" \/ Abandoned(d) \/ faults >= MaxAttempts

=============================================================================
