---------------------------- MODULE JobLifecycle ----------------------------
(***************************************************************************)
(* What the durable queue promises of a row of bos_jobs, whoever works on  *)
(* it: a job is enqueued once, is claimed at most max_attempts times, goes *)
(* back to the queue only while attempts are left, is given up only when   *)
(* none is, and never leaves "completed" or "failed".  WorkflowExecution   *)
(* is shown to implement this module.                                      *)
(***************************************************************************)
EXTENDS Naturals

CONSTANTS Jobs, MaxAttempts

VARIABLES status, attempts

jobVars == <<status, attempts>>

JobStates == {"none", "queued", "running", "completed", "failed"}

Move(j, from, to) ==
    /\ status[j] = from
    /\ status' = [status EXCEPT ![j] = to]

Enqueue(j) == Move(j, "none", "queued") /\ UNCHANGED attempts

Claim(j) ==
    /\ attempts[j] < MaxAttempts
    /\ Move(j, "queued", "running")
    /\ attempts' = [attempts EXCEPT ![j] = @ + 1]

Complete(j) == Move(j, "running", "completed") /\ UNCHANGED attempts

Retry(j) ==
    /\ attempts[j] < MaxAttempts
    /\ Move(j, "running", "queued")
    /\ UNCHANGED attempts

GiveUp(j) ==
    /\ attempts[j] = MaxAttempts
    /\ Move(j, "running", "failed")
    /\ UNCHANGED attempts

JobInit ==
    /\ status = [j \in Jobs |-> "none"]
    /\ attempts = [j \in Jobs |-> 0]

JobNext ==
    \E j \in Jobs : Enqueue(j) \/ Claim(j) \/ Complete(j) \/ Retry(j) \/ GiveUp(j)

JobSpec == JobInit /\ [][JobNext]_jobVars

=============================================================================
