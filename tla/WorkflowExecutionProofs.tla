----------------------- MODULE WorkflowExecutionProofs -----------------------
(***************************************************************************)
(* TLAPS proofs about WorkflowExecution, for every number of requests,     *)
(* workers and steps, every definition and any number of faults and        *)
(* crashes.                                                                *)
(***************************************************************************)
EXTENDS WorkflowExecution, FiniteSetTheorems, TLAPS

USE DEF reqVars, execVars, jobVars, runVars, At, Applied

\* The initial rows and workers are well typed.
LEMMA InitTypeOK == Init => TypeOK
<1> SUFFICES ASSUME Init PROVE TypeOK
  OBVIOUS
<1> DEFINE someone == CHOOSE r \in Requests : TRUE
<1>1. someone \in Requests
  BY ExecutionAssumption
<1>2. jobOf = [w \in Workers |-> someone]
  BY DEF Init
<1>3. jobOf \in [Workers -> Requests]
  <2> HIDE DEF someone
  <2> QED BY <1>1, <1>2
<1>4. \A w \in Workers : pc[w] \notin InLoop
  BY DEF Init, InLoop
<1>5. /\ notified \in [Requests -> SUBSET {"success", "failure"}]
      /\ effects \in [Requests -> [Steps -> Nat]]
      /\ stepStatus \in [Requests -> [Steps -> RowStates]]
  BY DEF Init, RowStates
<1>6. /\ reqPc \in [Requests -> ReqStates]
      /\ execStatus \in [Requests -> ExecStates]
      /\ jobStatus \in [Requests -> JobStates]
      /\ jobRunAt \in [Requests -> {"due", "later"}]
  BY DEF Init, ReqStates, ExecStates, JobStates
<1>7. /\ execAttempts \in [Requests -> Nat]
      /\ jobAttempts \in [Requests -> Nat]
      /\ pc \in [Workers -> WorkerStates]
      /\ stepOf \in [Workers -> Nat \ {0}]
      /\ faults \in Nat
      /\ crashes \in Nat
  BY DEF Init, WorkerStates
<1> QED
  BY <1>3, <1>4, <1>5, <1>6, <1>7 DEF TypeOK

\* Every statement and every crash keeps rows and workers well typed.
LEMMA NextTypeOK == TypeOK /\ [Next]_vars => TypeOK'
<1> SUFFICES ASSUME TypeOK, [Next]_vars PROVE TypeOK'
  OBVIOUS
<1> USE ExecutionAssumption DEF Outcomes, TypeOK, ReqStates, ExecStates, JobStates, RowStates
<1> USE DEF WorkerStates, InLoop, Processing, Failing
<1>1. ASSUME NEW r \in Requests, InsertExecution(r) PROVE TypeOK'
  BY <1>1 DEF InsertExecution, RequestStatement, CountFault
<1>2. ASSUME NEW r \in Requests, AnswerDuplicate(r) PROVE TypeOK'
  BY <1>2 DEF AnswerDuplicate
<1>3. ASSUME NEW r \in Requests, InsertJob(r) PROVE TypeOK'
  BY <1>3 DEF InsertJob, RequestStatement, CountFault
<1>4. ASSUME NEW r \in Requests, CrashRequest(r) PROVE TypeOK'
  BY <1>4 DEF CrashRequest
<1>5. ASSUME NEW r \in Requests, BackoffEnds(r) PROVE TypeOK'
  BY <1>5 DEF BackoffEnds
<1>6. ASSUME NEW w \in Workers, LockJob(w) PROVE TypeOK'
  BY <1>6 DEF LockJob
<1>7. ASSUME NEW w \in Workers, ClaimJob(w) PROVE TypeOK'
  BY <1>7 DEF ClaimJob, Statement, CountFault
<1>8. ASSUME NEW w \in Workers, SelectExecution(w) PROVE TypeOK'
  BY <1>8 DEF SelectExecution, Statement, CountFault
<1>9. ASSUME NEW w \in Workers, BeginExecution(w) PROVE TypeOK'
  <2>1. PICK o \in Outcomes :
          /\ Statement(w, o, Advance(1), "catch")
          /\ execStatus' = IF Applied(o) THEN [execStatus EXCEPT ![jobOf[w]] = "running"]
                                        ELSE execStatus
          /\ execAttempts' = IF Applied(o) THEN [execAttempts EXCEPT ![jobOf[w]] = @ + 1]
                                          ELSE execAttempts
    BY <1>9 DEF BeginExecution
  <2>2. pc' = [pc EXCEPT ![w] = IF o = "ok" THEN Advance(1) ELSE "catch"] /\ faults' \in Nat
    BY <2>1 DEF Statement, CountFault
  <2>3. Advance(1) \in {"step", "finish"} /\ (Advance(1) = "step" => 1 \in Steps)
    BY DEF Advance, Steps
  <2>4. /\ stepOf' = [stepOf EXCEPT ![w] = 1]
        /\ UNCHANGED <<reqPc, jobVars, runVars, notified, jobOf, crashes>>
    BY <1>9 DEF BeginExecution
  <2>5. pc' \in [Workers -> WorkerStates] /\ stepOf' \in [Workers -> Nat \ {0}]
    BY <2>2, <2>3, <2>4
  <2>6. \A v \in Workers : pc'[v] \in InLoop => stepOf'[v] \in Steps
    BY <2>2, <2>3, <2>4
  <2>7. /\ execStatus' \in [Requests -> ExecStates]
        /\ execAttempts' \in [Requests -> Nat]
    BY <2>1
  <2> QED
    BY <2>2, <2>4, <2>5, <2>6, <2>7
<1>10. ASSUME NEW w \in Workers, StartStep(w) PROVE TypeOK'
  BY <1>10 DEF StartStep, Statement, CountFault, SetRow
<1>11. ASSUME NEW w \in Workers, RunAction(w) PROVE TypeOK'
  BY <1>11 DEF RunAction
<1>12. ASSUME NEW w \in Workers, RecordStep(w) PROVE TypeOK'
  <2>1. PICK o \in Outcomes :
          /\ Statement(w, o, Advance(stepOf[w] + 1), "stepfail")
          /\ SetRow(w, o, "completed")
          /\ stepOf' = IF o = "ok" THEN [stepOf EXCEPT ![w] = @ + 1] ELSE stepOf
    BY <1>12 DEF RecordStep
  <2>2. stepOf' \in [Workers -> Nat \ {0}]
    BY <2>1
  <2>5. stepStatus' \in [Requests -> [Steps -> RowStates]]
    BY <2>1 DEF SetRow
  <2>3. pc' \in [Workers -> WorkerStates] /\ faults' \in Nat
    BY <2>1 DEF Statement, CountFault, Advance
  <2>4. ASSUME NEW v \in Workers, pc'[v] \in InLoop PROVE stepOf'[v] \in Steps
    <3>1. CASE v = w /\ o = "ok"
      BY <2>1, <2>4, <3>1 DEF Statement, Advance, Steps
    <3>2. CASE v = w /\ o # "ok"
      BY <1>12, <2>1, <3>2 DEF RecordStep
    <3>3. CASE v # w
      BY <2>1, <2>4, <3>3 DEF Statement
    <3> QED BY <3>1, <3>2, <3>3
  <2> QED
    BY <1>12, <2>2, <2>3, <2>4, <2>5 DEF RecordStep
<1>13. ASSUME NEW w \in Workers, EvaluateCondition(w) PROVE TypeOK'
  <2>1. PICK verdict \in {"completed", "skipped"}, o \in Outcomes :
          /\ Statement(w, o, IF Stops(stepOf[w], verdict) THEN "finish" ELSE Advance(stepOf[w] + 1),
                       "stepfail")
          /\ SetRow(w, o, verdict)
          /\ stepOf' = IF o = "ok" /\ ~Stops(stepOf[w], verdict)
                         THEN [stepOf EXCEPT ![w] = stepOf[w] + 1] ELSE stepOf
    BY <1>13 DEF EvaluateCondition
  <2>2. stepOf' \in [Workers -> Nat \ {0}]
    BY <2>1
  <2>5. stepStatus' \in [Requests -> [Steps -> RowStates]]
    BY <2>1 DEF SetRow
  <2>3. pc' \in [Workers -> WorkerStates] /\ faults' \in Nat
    BY <2>1 DEF Statement, CountFault, Advance
  <2>4. ASSUME NEW v \in Workers, pc'[v] \in InLoop PROVE stepOf'[v] \in Steps
    <3>1. CASE v = w /\ o = "ok"
      BY <2>1, <2>4, <3>1 DEF Statement, Advance, Steps
    <3>2. CASE v = w /\ o # "ok"
      BY <1>13, <2>1, <3>2 DEF EvaluateCondition
    <3>3. CASE v # w
      BY <2>1, <2>4, <3>3 DEF Statement
    <3> QED BY <3>1, <3>2, <3>3
  <2> QED
    BY <1>13, <2>2, <2>3, <2>4, <2>5 DEF EvaluateCondition
<1>14. ASSUME NEW w \in Workers, ConditionThrows(w) PROVE TypeOK'
  BY <1>14 DEF ConditionThrows
<1>15. ASSUME NEW w \in Workers, FailStep(w) PROVE TypeOK'
  BY <1>15 DEF FailStep, Statement, CountFault, SetRow
<1>16. ASSUME NEW w \in Workers, CompleteExecution(w) PROVE TypeOK'
  BY <1>16 DEF CompleteExecution, Statement, CountFault
<1>17. ASSUME NEW w \in Workers, NotifySuccess(w) PROVE TypeOK'
  BY <1>17 DEF NotifySuccess, Statement, CountFault, Notify
<1>18. ASSUME NEW w \in Workers, CompleteJob(w) PROVE TypeOK'
  BY <1>18 DEF CompleteJob, Statement, CountFault
<1>19. ASSUME NEW w \in Workers, CatchError(w) PROVE TypeOK'
  BY <1>19 DEF CatchError, Statement, CountFault, CatchStatus
<1>20. ASSUME NEW w \in Workers, FailExecution(w) PROVE TypeOK'
  BY <1>20 DEF FailExecution, Statement, CountFault
<1>21. ASSUME NEW w \in Workers, NotifyFailure(w) PROVE TypeOK'
  BY <1>21 DEF NotifyFailure, Statement, CountFault, Notify
<1>22. ASSUME NEW w \in Workers, CrashWorker(w) PROVE TypeOK'
  BY <1>22 DEF CrashWorker
<1>23. CASE UNCHANGED vars
  BY <1>23 DEF vars
<1> QED
  BY <1>1, <1>2, <1>3, <1>4, <1>5, <1>6, <1>7, <1>8, <1>9, <1>10, <1>11, <1>12, <1>13,
     <1>14, <1>15, <1>16, <1>17, <1>18, <1>19, <1>20, <1>21, <1>22, <1>23
  DEF Next, WorkerStep, Claiming, Running, Catching, Request

\* TypeOK holds in every reachable state.
THEOREM TypeCorrect == Spec => []TypeOK
  BY InitTypeOK, NextTypeOK, PTL DEF Spec

-----------------------------------------------------------------------------
(* Claiming: who holds a job, and what the job's row says meanwhile *)

\* The status of the job's row while a worker is at `where` with it.
JobStatusAt(where) ==
    CASE where = "locked" -> {"queued"}
      [] where = "catch" -> {"running", "completed"}
      [] where \in Failing -> {"failed"}
      [] OTHER -> {"running"}

AttemptsFit(r) ==
    /\ jobAttempts[r] <= MaxAttempts
    /\ jobStatus[r] = "none" => jobAttempts[r] = 0
    /\ jobStatus[r] = "queued" => jobAttempts[r] < MaxAttempts
    /\ jobStatus[r] = "failed" => jobAttempts[r] = MaxAttempts

\* A job is held by one worker at most, its row says where that worker is with it, and
\* its attempts fit its status; a request that has not inserted its job has none.
ClaimInv ==
    /\ NoSharedJob
    /\ \A w \in Workers : Busy(w) => jobStatus[jobOf[w]] \in JobStatusAt(pc[w])
    /\ \A r \in Requests : AttemptsFit(r)
    /\ \A r \in Requests : reqPc[r] \in {"idle", "inserted"} => jobStatus[r] = "none"

\* Nobody holds a job at first.
LEMMA InitClaimInv == Init => ClaimInv
  BY ExecutionAssumption DEF Init, ClaimInv, NoSharedJob, Busy, AttemptsFit

\* Claims stay exclusive over every step of requests and workers.
LEMMA NextClaimInv == TypeOK /\ ClaimInv /\ [Next]_vars => ClaimInv'
<1> SUFFICES ASSUME TypeOK, ClaimInv, [Next]_vars PROVE ClaimInv'
  OBVIOUS
<1> USE ExecutionAssumption DEF Outcomes, TypeOK, JobStates, ReqStates
<1> USE DEF WorkerStates, InLoop, Processing, Failing
<1> USE DEF ClaimInv, NoSharedJob, Busy, JobStatusAt, AttemptsFit
<1>1. ASSUME NEW r \in Requests, InsertExecution(r) PROVE ClaimInv'
  BY <1>1 DEF InsertExecution, RequestStatement, CountFault
<1>2. ASSUME NEW r \in Requests, AnswerDuplicate(r) PROVE ClaimInv'
  BY <1>2 DEF AnswerDuplicate
<1>3. ASSUME NEW r \in Requests, InsertJob(r) PROVE ClaimInv'
  <2>1. /\ jobStatus[r] = "none" /\ reqPc[r] = "inserted"
        /\ jobStatus'[r] \in {"none", "queued"} /\ reqPc'[r] \in {"queued", "error"}
        /\ \A q \in Requests \ {r} : jobStatus'[q] = jobStatus[q] /\ reqPc'[q] = reqPc[q]
        /\ UNCHANGED <<jobAttempts, pc, jobOf>>
    BY <1>3 DEF InsertJob, RequestStatement
  <2>2. \A w \in Workers : Busy(w) => jobOf[w] # r
    BY <2>1
  <2>3. NoSharedJob'
    BY <2>1
  <2>4. \A w \in Workers : Busy(w)' => jobStatus'[jobOf'[w]] \in JobStatusAt(pc'[w])
    BY <2>1, <2>2
  <2>5. \A q \in Requests : AttemptsFit(q)'
    BY <2>1
  <2>6. \A q \in Requests : reqPc'[q] \in {"idle", "inserted"} => jobStatus'[q] = "none"
    BY <2>1
  <2> QED
    BY <2>3, <2>4, <2>5, <2>6
<1>4. ASSUME NEW r \in Requests, CrashRequest(r) PROVE ClaimInv'
  BY <1>4 DEF CrashRequest
<1>5. ASSUME NEW r \in Requests, BackoffEnds(r) PROVE ClaimInv'
  BY <1>5 DEF BackoffEnds
<1>6. ASSUME NEW w \in Workers, LockJob(w) PROVE ClaimInv'
  <2>1. PICK r \in Requests : Claimable(r) /\ jobOf' = [jobOf EXCEPT ![w] = r]
    BY <1>6 DEF LockJob
  <2>2. pc' = [pc EXCEPT ![w] = "locked"] /\ UNCHANGED <<reqPc, jobStatus, jobAttempts>>
    BY <1>6 DEF LockJob
  <2>3. \A v \in Workers : Busy(v) => jobOf[v] # r
    BY <2>1 DEF Claimable, LockedRow
  <2> QED
    BY <2>1, <2>2, <2>3 DEF Claimable
<1>7. ASSUME NEW w \in Workers, ClaimJob(w) PROVE ClaimInv'
  BY <1>7 DEF ClaimJob, Statement, CountFault
<1>8. ASSUME NEW w \in Workers, SelectExecution(w) PROVE ClaimInv'
  BY <1>8 DEF SelectExecution, Statement, CountFault
<1>9. ASSUME NEW w \in Workers, BeginExecution(w) PROVE ClaimInv'
  BY <1>9, SMTT(30) DEF BeginExecution, Statement, CountFault, Advance, Steps
<1>10. ASSUME NEW w \in Workers, StartStep(w) PROVE ClaimInv'
  BY <1>10 DEF StartStep, Statement, CountFault, SetRow
<1>11. ASSUME NEW w \in Workers, RunAction(w) PROVE ClaimInv'
  BY <1>11 DEF RunAction
<1>12. ASSUME NEW w \in Workers, RecordStep(w) PROVE ClaimInv'
  BY <1>12 DEF RecordStep, Statement, Advance
<1>13. ASSUME NEW w \in Workers, EvaluateCondition(w) PROVE ClaimInv'
  BY <1>13 DEF EvaluateCondition, Statement, Advance
<1>14. ASSUME NEW w \in Workers, ConditionThrows(w) PROVE ClaimInv'
  BY <1>14 DEF ConditionThrows
<1>15. ASSUME NEW w \in Workers, FailStep(w) PROVE ClaimInv'
  BY <1>15 DEF FailStep, Statement, CountFault, SetRow
<1>16. ASSUME NEW w \in Workers, CompleteExecution(w) PROVE ClaimInv'
  BY <1>16 DEF CompleteExecution, Statement, CountFault
<1>17. ASSUME NEW w \in Workers, NotifySuccess(w) PROVE ClaimInv'
  BY <1>17 DEF NotifySuccess, Statement, CountFault, Notify
<1>18. ASSUME NEW w \in Workers, CompleteJob(w) PROVE ClaimInv'
  BY <1>18 DEF CompleteJob, Statement, CountFault
<1>19. ASSUME NEW w \in Workers, CatchError(w) PROVE ClaimInv'
  <2> DEFINE r == jobOf[w]
  <2>1. /\ pc[w] = "catch" /\ pc' \in [Workers -> WorkerStates]
        /\ UNCHANGED <<reqPc, jobAttempts, jobOf>>
        /\ \A v \in Workers \ {w} : pc'[v] = pc[v]
        /\ \A q \in Requests \ {r} : jobStatus'[q] = jobStatus[q]
        /\ jobStatus'[r] \in {jobStatus[r], CatchStatus(r)}
        /\ \/ pc'[w] = "idle"
           \/ pc'[w] = "failexec" /\ Exhausted(r) /\ jobStatus'[r] = CatchStatus(r)
    BY <1>19 DEF CatchError, Statement
  <2>2. \A v \in Workers \ {w} : Busy(v) => jobOf[v] # r
    BY <2>1
  <2>3. \A q \in Requests : AttemptsFit(q)'
    BY <2>1 DEF CatchStatus, Exhausted
  <2>4. jobStatus[r] # "none"
    BY <2>1
  <2>5. \A v \in Workers : Busy(v)' => jobStatus'[jobOf'[v]] \in JobStatusAt(pc'[v])
    BY <2>1, <2>2, SMTT(30) DEF CatchStatus
  <2>6. NoSharedJob'
    BY <2>1, SMTT(30)
  <2>7. \A q \in Requests : reqPc'[q] \in {"idle", "inserted"} => jobStatus'[q] = "none"
    BY <2>1, <2>4
  <2> QED
    BY <2>3, <2>5, <2>6, <2>7
<1>20. ASSUME NEW w \in Workers, FailExecution(w) PROVE ClaimInv'
  BY <1>20 DEF FailExecution, Statement, CountFault
<1>21. ASSUME NEW w \in Workers, NotifyFailure(w) PROVE ClaimInv'
  BY <1>21 DEF NotifyFailure, Statement, CountFault, Notify
<1>22. ASSUME NEW w \in Workers, CrashWorker(w) PROVE ClaimInv'
  BY <1>22 DEF CrashWorker
<1>23. CASE UNCHANGED vars
  BY <1>23 DEF vars
<1> QED
  BY <1>1, <1>2, <1>3, <1>4, <1>5, <1>6, <1>7, <1>8, <1>9, <1>10, <1>11, <1>12, <1>13,
     <1>14, <1>15, <1>16, <1>17, <1>18, <1>19, <1>20, <1>21, <1>22, <1>23
  DEF Next, WorkerStep, Claiming, Running, Catching, Request

\* ClaimInv is invariant.
THEOREM ClaimInvariant == Spec => []ClaimInv
  BY TypeCorrect, InitClaimInv, NextClaimInv, PTL DEF Spec

\* No two workers ever hold the same job.
THEOREM ClaimsAreExclusive == Spec => []NoSharedJob
<1>1. ClaimInv => NoSharedJob
  BY DEF ClaimInv
<1> QED
  BY <1>1, ClaimInvariant, PTL

-----------------------------------------------------------------------------
(* Keys and effects *)

\* Two executions never share a key, and a job has its execution.
KeyInv ==
    /\ \A q, r \in Requests :
         q # r /\ KeyOf[q] = KeyOf[r] => execStatus[q] = "none" \/ execStatus[r] = "none"
    /\ \A r \in Requests :
         jobStatus[r] # "none" \/ reqPc[r] = "inserted" => execStatus[r] # "none"

\* The steps the current run of a worker has still to attempt.
Ahead(w) ==
    CASE pc[w] \in {"select", "begin"} -> Steps
      [] pc[w] \in {"step", "act"} -> {i \in Steps : i >= stepOf[w]}
      [] pc[w] = "record" -> {i \in Steps : i > stepOf[w]}
      [] OTHER -> {}

\* A step has taken effect at most once per attempt, so a step the current attempt
\* has not reached has taken effect less often than the job was attempted.
EffectsInv ==
    /\ \A r \in Requests : \A i \in Steps : effects[r][i] <= jobAttempts[r]
    /\ \A w \in Workers : \A i \in Ahead(w) : effects[jobOf[w]][i] < jobAttempts[jobOf[w]]

\* No key is taken at first.
LEMMA InitKeyInv == Init => KeyInv
  BY DEF Init, KeyInv

\* An insert respects the keys taken, and no step removes an execution.
LEMMA NextKeyInv == TypeOK /\ ClaimInv /\ KeyInv /\ [Next]_vars => KeyInv'
<1> SUFFICES ASSUME TypeOK, ClaimInv, KeyInv, [Next]_vars PROVE KeyInv'
  OBVIOUS
<1> USE ExecutionAssumption DEF Outcomes, TypeOK, KeyInv
<1>1. ASSUME NEW r \in Requests, InsertExecution(r) PROVE KeyInv'
  BY <1>1 DEF InsertExecution, RequestStatement, KeyTaken
<1>2. ASSUME NEW r \in Requests, AnswerDuplicate(r) PROVE KeyInv'
  BY <1>2 DEF AnswerDuplicate
<1>3. ASSUME NEW r \in Requests, InsertJob(r) PROVE KeyInv'
  BY <1>3 DEF InsertJob, RequestStatement
<1>4. ASSUME NEW r \in Requests, CrashRequest(r) PROVE KeyInv'
  BY <1>4 DEF CrashRequest
<1>5. ASSUME NEW r \in Requests, BackoffEnds(r) PROVE KeyInv'
  BY <1>5 DEF BackoffEnds
<1>6. ASSUME NEW w \in Workers, Busy(w) PROVE jobStatus[jobOf[w]] # "none"
  BY <1>6 DEF ClaimInv, Busy, JobStatusAt
<1>7. ASSUME NEW w \in Workers, WorkerStep(w) \/ CrashWorker(w) PROVE KeyInv'
  <2>1. CASE ClaimJob(w) \/ CompleteJob(w) \/ CatchError(w)
    <3>1. Busy(w) /\ UNCHANGED <<reqPc, execStatus>>
      BY <2>1 DEF ClaimJob, CompleteJob, CatchError, Busy
    <3>2. \A q \in Requests : q # jobOf[w] => jobStatus'[q] = jobStatus[q]
      BY <2>1 DEF ClaimJob, CompleteJob, CatchError
    <3> QED BY <3>1, <3>2, <1>6
  <2>2. CASE BeginExecution(w) \/ CompleteExecution(w) \/ FailExecution(w)
    <3>1. Busy(w) /\ UNCHANGED <<reqPc, jobStatus>>
      BY <2>2 DEF BeginExecution, CompleteExecution, FailExecution, Busy
    <3>2. /\ \A q \in Requests : q # jobOf[w] => execStatus'[q] = execStatus[q]
          /\ execStatus'[jobOf[w]] # "none" \/ UNCHANGED execStatus
      BY <2>2 DEF BeginExecution, CompleteExecution, FailExecution
    <3> QED BY <3>1, <3>2, <1>6
  <2>3. CASE UNCHANGED <<reqPc, execStatus, jobStatus>>
    BY <2>3
  <2> QED
    BY <1>7, <2>1, <2>2, <2>3
    DEF WorkerStep, Claiming, Running, Catching, LockJob, SelectExecution, StartStep, RunAction,
        RecordStep, EvaluateCondition, ConditionThrows, FailStep, NotifySuccess, NotifyFailure,
        CrashWorker
<1>8. CASE UNCHANGED vars
  BY <1>8 DEF vars
<1> QED
  BY <1>1, <1>2, <1>3, <1>4, <1>5, <1>7, <1>8 DEF Next, Request

\* Nothing has taken effect at first.
LEMMA InitEffectsInv == Init => EffectsInv
  BY DEF Init, EffectsInv, Ahead

\* A worker that only moves on has no more steps ahead of it than before.
LEMMA MovingOn ==
    ASSUME TypeOK, EffectsInv, NEW w \in Workers,
           UNCHANGED <<effects, jobAttempts, jobOf>>,
           \A v \in Workers \ {w} : pc'[v] = pc[v] /\ stepOf'[v] = stepOf[v],
           Ahead(w)' \subseteq Ahead(w)
    PROVE  EffectsInv'
<1>1. \A v \in Workers \ {w} : Ahead(v)' = Ahead(v)
  BY DEF Ahead
<1>2. \A v \in Workers : Ahead(v)' \subseteq Ahead(v)
  BY <1>1
<1> QED
  BY <1>2 DEF EffectsInv

\* An action takes effect only as the step its worker is at, once per attempt.
LEMMA NextEffectsInv == TypeOK /\ ClaimInv /\ EffectsInv /\ [Next]_vars => EffectsInv'
<1> SUFFICES ASSUME TypeOK, ClaimInv, EffectsInv, [Next]_vars PROVE EffectsInv'
  OBVIOUS
<1> USE ExecutionAssumption DEF Outcomes, TypeOK, EffectsInv, Ahead, WorkerStates, Processing
<1> USE DEF InLoop, Failing
<1>1. ASSUME NEW r \in Requests, Request(r) \/ CrashRequest(r) \/ BackoffEnds(r) PROVE EffectsInv'
  BY <1>1 DEF Request, InsertExecution, AnswerDuplicate, InsertJob, CrashRequest, BackoffEnds
<1>2. ASSUME NEW w \in Workers, LockJob(w) PROVE EffectsInv'
  BY <1>2 DEF LockJob
<1>3. ASSUME NEW w \in Workers, ClaimJob(w) PROVE EffectsInv'
  BY <1>3 DEF ClaimJob, Statement
<1>4. ASSUME NEW w \in Workers, SelectExecution(w) PROVE EffectsInv'
  BY <1>4 DEF SelectExecution, Statement
<1>5. ASSUME NEW w \in Workers, BeginExecution(w) PROVE EffectsInv'
  BY <1>5 DEF BeginExecution, Statement, Advance, Steps
<1>6. ASSUME NEW w \in Workers, StartStep(w) PROVE EffectsInv'
  BY <1>6 DEF StartStep, Statement
<1>7. ASSUME NEW w \in Workers, RunAction(w) PROVE EffectsInv'
  <2> DEFINE r == jobOf[w]
             i == stepOf[w]
  <2>1. /\ pc[w] = "act" /\ i \in Ahead(w)
        /\ UNCHANGED <<jobAttempts, jobOf, stepOf>>
        /\ pc'[w] \in {"record", "stepfail"}
        /\ \A v \in Workers \ {w} : pc'[v] = pc[v]
        /\ effects'[r][i] \in {effects[r][i], effects[r][i] + 1}
        /\ \A q \in Requests, j \in Steps :
             q # r \/ j # i => effects'[q][j] = effects[q][j]
    BY <1>7 DEF RunAction
  <2>2. ASSUME NEW q \in Requests, NEW j \in Steps PROVE effects'[q][j] <= jobAttempts'[q]
    <3>1. CASE q = r /\ j = i
      <4>1. effects[r][i] < jobAttempts[r]
        BY <2>1
      <4> QED BY <2>1, <3>1, <4>1
    <3>2. CASE q # r \/ j # i
      BY <2>1, <3>2
    <3> QED BY <3>1, <3>2
  <2>3. \A v \in Workers \ {w} : pc[v] # "idle" => jobOf[v] # r
    BY <2>1 DEF ClaimInv, NoSharedJob, Busy
  <2>4. ASSUME NEW v \in Workers \ {w}, NEW j \in Ahead(v)'
        PROVE  effects'[jobOf'[v]][j] < jobAttempts'[jobOf'[v]]
    <3>1. j \in Ahead(v) /\ j \in Steps /\ pc[v] # "idle"
      BY <2>1, <2>4
    <3> QED
      BY <2>1, <2>3, <3>1
  <2>5. ASSUME NEW j \in Ahead(w)' PROVE effects'[r][j] < jobAttempts'[r]
    <3>1. pc[w] = "act" /\ stepOf' = stepOf /\ i = stepOf[w] /\ i \in Steps
      BY <1>7 DEF RunAction, InLoop
    <3>2. pc'[w] = "record" /\ j \in Steps /\ j > i
      BY <2>1, <2>5, <3>1
    <3>3. j >= i /\ j # i
      BY <3>1, <3>2 DEF Steps
    <3>4. j \in Ahead(w)
      BY <3>1, <3>2, <3>3
    <3>5. effects[r][j] < jobAttempts[r]
      BY <3>4
    <3> QED
      BY <2>1, <3>2, <3>3, <3>5
  <2> QED
    BY <2>1, <2>2, <2>4, <2>5
<1>8. ASSUME NEW w \in Workers, RecordStep(w) PROVE EffectsInv'
  <2>1. Ahead(w)' \subseteq Ahead(w)
    BY <1>8 DEF RecordStep, Statement, Advance, Steps
  <2> QED
    BY <1>8, <2>1, MovingOn DEF RecordStep, Statement
<1>9. ASSUME NEW w \in Workers, EvaluateCondition(w) PROVE EffectsInv'
  <2>1. Ahead(w)' \subseteq Ahead(w)
    BY <1>9 DEF EvaluateCondition, Statement, Advance, Steps
  <2> QED
    BY <1>9, <2>1, MovingOn DEF EvaluateCondition, Statement
<1>10. ASSUME NEW w \in Workers, ConditionThrows(w) PROVE EffectsInv'
  BY <1>10 DEF ConditionThrows
<1>11. ASSUME NEW w \in Workers, FailStep(w) \/ CompleteExecution(w) \/ NotifySuccess(w)
                                 \/ CompleteJob(w) \/ Catching(w)
       PROVE EffectsInv'
  <2>1. Ahead(w)' = {}
    BY <1>11 DEF FailStep, CompleteExecution, NotifySuccess, CompleteJob, Catching, CatchError,
                 FailExecution, NotifyFailure, Statement
  <2>2. /\ UNCHANGED <<effects, jobAttempts, jobOf, stepOf>>
        /\ \A v \in Workers \ {w} : pc'[v] = pc[v]
    BY <1>11 DEF FailStep, CompleteExecution, NotifySuccess, CompleteJob, Catching, CatchError,
                 FailExecution, NotifyFailure, Statement
  <2> QED
    BY <2>1, <2>2, MovingOn
<1>12. ASSUME NEW w \in Workers, CrashWorker(w) PROVE EffectsInv'
  BY <1>12 DEF CrashWorker
<1>13. CASE UNCHANGED vars
  BY <1>13 DEF vars
<1> QED
  BY <1>1, <1>2, <1>3, <1>4, <1>5, <1>6, <1>7, <1>8, <1>9, <1>10, <1>11, <1>12, <1>13
  DEF Next, WorkerStep, Claiming, Running

\* Attempts, faults and repeated requests together never make a step take effect
\* more often than max_attempts, and only one execution of a key acts at all.
THEOREM EffectsAreBounded == Spec => []EffectsBounded
<1>1. TypeOK /\ ClaimInv /\ KeyInv /\ EffectsInv => EffectsBounded
  BY ExecutionAssumption DEF TypeOK, ClaimInv, AttemptsFit, KeyInv, EffectsInv, EffectsBounded
<1> QED
  BY <1>1, TypeCorrect, ClaimInvariant, InitKeyInv, NextKeyInv, InitEffectsInv, NextEffectsInv,
     PTL DEF Spec

-----------------------------------------------------------------------------
(* bos_jobs implements the abstract life cycle of a job *)

\* When every statement that is not acknowledged is lost, a worker in the catch has a
\* job that is still running.
CatchInv == \A w \in Workers : pc[w] = "catch" => jobStatus[jobOf[w]] = "running"

\* Nobody is in the catch at first.
LEMMA InitCatchInv == Init => CatchInv
  BY DEF Init, CatchInv

\* A worker reaches the catch with its job running, and nobody else changes that row.
LEMMA NextCatchInv ==
    ASSUME FaultKinds \subseteq {"lost"}, TypeOK, ClaimInv, CatchInv, [Next]_vars
    PROVE  CatchInv'
<1> USE ExecutionAssumption DEF Outcomes, TypeOK, CatchInv
<1>1. ASSUME NEW w \in Workers, Busy(w) PROVE jobStatus[jobOf[w]] \in JobStatusAt(pc[w])
  BY <1>1 DEF ClaimInv
<1>2. ASSUME NEW r \in Requests, Request(r) \/ CrashRequest(r) \/ BackoffEnds(r)
      PROVE CatchInv'
  <2>1. UNCHANGED <<pc, jobOf>>
    BY <1>2 DEF Request, InsertExecution, AnswerDuplicate, InsertJob, CrashRequest, BackoffEnds
  <2>2. \A q \in Requests : jobStatus[q] = "running" => jobStatus'[q] = "running"
    BY <1>2 DEF Request, InsertExecution, AnswerDuplicate, InsertJob, CrashRequest, BackoffEnds,
                ClaimInv, JobStates
  <2> QED
    BY <2>1, <2>2
<1>3. ASSUME NEW w \in Workers, WorkerStep(w) \/ CrashWorker(w) PROVE CatchInv'
  <2>1. \A v \in Workers \ {w} : pc'[v] = pc[v] /\ jobOf'[v] = jobOf[v]
    BY <1>3 DEF WorkerStep, Claiming, Running, Catching, LockJob, ClaimJob, SelectExecution,
       BeginExecution, StartStep, RunAction, RecordStep, EvaluateCondition, ConditionThrows,
       FailStep, CompleteExecution, NotifySuccess, CompleteJob, CatchError, FailExecution,
       NotifyFailure, CrashWorker, Statement
  <2>2. \A v \in Workers \ {w} : pc[v] = "catch" => jobStatus'[jobOf[v]] = jobStatus[jobOf[v]]
    <3>1. CASE UNCHANGED jobStatus
      BY <3>1
    <3>2. CASE ClaimJob(w) \/ CompleteJob(w) \/ CatchError(w)
      <4>1. Busy(w) /\ \A q \in Requests : q # jobOf[w] => jobStatus'[q] = jobStatus[q]
        BY <3>2 DEF ClaimJob, CompleteJob, CatchError, Busy
      <4> QED
        BY <4>1 DEF ClaimInv, NoSharedJob, Busy
    <3> QED
      BY <1>3, <3>1, <3>2 DEF WorkerStep, Claiming, Running, Catching, LockJob, SelectExecution,
         BeginExecution, StartStep, RunAction, RecordStep, EvaluateCondition, ConditionThrows,
         FailStep, CompleteExecution, NotifySuccess, FailExecution, NotifyFailure, CrashWorker
  <2>3. pc'[w] = "catch" => jobStatus'[jobOf'[w]] = "running"
    <3>1. CASE Claiming(w) \/ Catching(w) \/ CrashWorker(w)
      BY <3>1 DEF Claiming, Catching, LockJob, ClaimJob, CatchError, FailExecution, NotifyFailure,
         CrashWorker, Statement
    <3>2. CASE Running(w)
      <4>1. /\ Busy(w) /\ JobStatusAt(pc[w]) = {"running"}
            /\ jobOf' = jobOf
        BY <3>2 DEF Running, SelectExecution, BeginExecution, StartStep, RunAction, RecordStep,
           EvaluateCondition, ConditionThrows, FailStep, CompleteExecution, NotifySuccess,
           CompleteJob, Busy, JobStatusAt, Failing
      <4>2. pc'[w] = "catch" => jobStatus' = jobStatus
        BY <3>2 DEF Running, SelectExecution, BeginExecution, StartStep, RunAction, RecordStep,
           EvaluateCondition, ConditionThrows, FailStep, CompleteExecution, NotifySuccess,
           CompleteJob, Statement
      <4> QED
        BY <1>1, <4>1, <4>2
    <3> QED
      BY <1>3, <3>1, <3>2 DEF WorkerStep
  <2> QED
    BY <2>1, <2>2, <2>3
<1>4. CASE UNCHANGED vars
  BY <1>4 DEF vars
<1> QED
  BY <1>2, <1>3, <1>4 DEF Next

\* The bound test of the catch at a count that has not passed the bound.
LEMMA ExhaustedAtBound ==
    ASSUME NEW r \in Requests, jobAttempts[r] \in Nat, jobAttempts[r] <= MaxAttempts
    PROVE  /\ Exhausted(r) => jobAttempts[r] = MaxAttempts
           /\ ~Exhausted(r) => jobAttempts[r] < MaxAttempts
  BY ExecutionAssumption DEF Exhausted

\* Every step of the platform is a step of the job's life cycle, or none.
LEMMA NextIsLifecycle ==
    ASSUME FaultKinds \subseteq {"lost"}, TypeOK, ClaimInv, CatchInv, [Next]_vars
    PROVE  [Lifecycle!JobNext]_(Lifecycle!jobVars)
<1> USE ExecutionAssumption DEF Outcomes, TypeOK
<1> USE DEF Lifecycle!JobNext, Lifecycle!jobVars, Lifecycle!Move
<1>1. ASSUME NEW r \in Requests, InsertJob(r) PROVE [Lifecycle!JobNext]_(Lifecycle!jobVars)
  <2>1. jobStatus[r] = "none"
    BY <1>1 DEF InsertJob, ClaimInv
  <2>2. CASE UNCHANGED jobStatus
    BY <1>1, <2>2 DEF InsertJob
  <2>3. CASE jobStatus' = [jobStatus EXCEPT ![r] = "queued"]
    <3>1. Lifecycle!Enqueue(r)
      BY <1>1, <2>1, <2>3 DEF InsertJob, Lifecycle!Enqueue
    <3> QED
      BY <3>1
  <2> QED
    BY <1>1, <2>2, <2>3 DEF InsertJob
<1>2. ASSUME NEW w \in Workers, ClaimJob(w) PROVE [Lifecycle!JobNext]_(Lifecycle!jobVars)
  <2> DEFINE r == jobOf[w]
  <2>1. r \in Requests /\ jobStatus[r] = "queued" /\ jobAttempts[r] < MaxAttempts
    <3>1. r \in Requests /\ pc[w] = "locked"
      BY <1>2 DEF ClaimJob
    <3>2. jobStatus[r] = "queued"
      BY <3>1 DEF ClaimInv, Busy, JobStatusAt, Failing
    <3> QED
      BY <3>1, <3>2 DEF ClaimInv, AttemptsFit
  <2>2. CASE UNCHANGED <<jobStatus, jobAttempts>>
    BY <2>2
  <2>3. CASE /\ jobStatus' = [jobStatus EXCEPT ![r] = "running"]
             /\ jobAttempts' = [jobAttempts EXCEPT ![r] = @ + 1]
    <3>1. Lifecycle!Claim(r)
      BY <2>1, <2>3 DEF Lifecycle!Claim
    <3> QED
      BY <2>1, <3>1
  <2> QED
    BY <1>2, <2>2, <2>3 DEF ClaimJob
<1>3. ASSUME NEW w \in Workers, CompleteJob(w) PROVE [Lifecycle!JobNext]_(Lifecycle!jobVars)
  <2> DEFINE r == jobOf[w]
  <2>1. r \in Requests /\ jobStatus[r] = "running" /\ UNCHANGED jobAttempts
    BY <1>3 DEF CompleteJob, ClaimInv, Busy, JobStatusAt, Failing
  <2>2. CASE UNCHANGED jobStatus
    BY <2>1, <2>2
  <2>3. CASE jobStatus' = [jobStatus EXCEPT ![r] = "completed"]
    <3>1. Lifecycle!Complete(r)
      BY <2>1, <2>3 DEF Lifecycle!Complete
    <3> QED
      BY <2>1, <3>1
  <2> QED
    BY <1>3, <2>2, <2>3 DEF CompleteJob
<1>4. ASSUME NEW w \in Workers, CatchError(w) PROVE [Lifecycle!JobNext]_(Lifecycle!jobVars)
  <2> DEFINE r == jobOf[w]
  <2>1. /\ r \in Requests /\ jobStatus[r] = "running" /\ UNCHANGED jobAttempts
        /\ jobAttempts[r] \in Nat /\ jobAttempts[r] <= MaxAttempts
    BY <1>4 DEF CatchError, CatchInv, ClaimInv, AttemptsFit
  <2>2. /\ Exhausted(r) => jobAttempts[r] = MaxAttempts
        /\ ~Exhausted(r) => jobAttempts[r] < MaxAttempts
    BY <2>1, ExhaustedAtBound
  <2>3. CASE UNCHANGED jobStatus
    BY <2>1, <2>3
  <2>4. CASE jobStatus' = [jobStatus EXCEPT ![r] = "failed"] /\ Exhausted(r)
    <3>1. Lifecycle!GiveUp(r)
      BY <2>1, <2>2, <2>4 DEF Lifecycle!GiveUp
    <3> QED
      BY <2>1, <3>1
  <2>5. CASE jobStatus' = [jobStatus EXCEPT ![r] = "queued"] /\ ~Exhausted(r)
    <3>1. Lifecycle!Retry(r)
      BY <2>1, <2>2, <2>5 DEF Lifecycle!Retry
    <3> QED
      BY <2>1, <3>1
  <2> QED
    BY <1>4, <2>3, <2>4, <2>5 DEF CatchError, CatchStatus
<1>5. CASE UNCHANGED <<jobStatus, jobAttempts>>
  BY <1>5
<1> QED
  BY <1>1, <1>2, <1>3, <1>4, <1>5
  DEF Next, vars, Request, InsertExecution, AnswerDuplicate, CrashRequest, BackoffEnds, WorkerStep,
      Claiming, Running, Catching, LockJob, SelectExecution, BeginExecution, StartStep, RunAction,
      RecordStep, EvaluateCondition, ConditionThrows, FailStep, CompleteExecution, NotifySuccess,
      FailExecution, NotifyFailure, CrashWorker

\* The rows of bos_jobs, as requests and workers write them one statement at a time,
\* implement the life cycle of JobLifecycle: claimed at most max_attempts times, queued
\* again only with attempts left, never leaving completed or failed.  This needs that
\* no acknowledgement is lost: the worker's catch would take a completed job back.
THEOREM LifecycleImplemented ==
    ASSUME FaultKinds \subseteq {"lost"}
    PROVE  Spec => ImplementsLifecycle
<1>1. Init => Lifecycle!JobInit
  BY DEF Init, Lifecycle!JobInit
<1>2. TypeOK /\ ClaimInv /\ CatchInv /\ [Next]_vars => CatchInv'
  BY NextCatchInv
<1>3. TypeOK /\ ClaimInv /\ CatchInv /\ [Next]_vars
        => [Lifecycle!JobNext]_(Lifecycle!jobVars)
  BY NextIsLifecycle
<1> QED
  BY <1>1, <1>2, <1>3, InitCatchInv, TypeCorrect, ClaimInvariant, PTL
  DEF Spec, ImplementsLifecycle, Lifecycle!JobSpec

-----------------------------------------------------------------------------
(* What is recorded of an execution *)

\* The execution statuses under which a worker can be at each place.
ExecStatusAt(where) ==
    CASE where \in InLoop \cup {"finish"} -> {"running"}
      [] where = "begin" -> {"queued", "running"}
      [] where \in {"skip", "notify", "done"} -> {"completed"}
      [] OTHER -> ExecStates

\* A worker in the loop has left done steps behind it, and one that is past the loop all
\* that the run needed.
RunBehind(w) ==
    /\ pc[w] \in {"step", "act", "record"} =>
         \A i \in Steps : i < stepOf[w] => Done(jobOf[w], i)
    /\ pc[w] = "record" => Kind[stepOf[w]] = "action" /\ effects[jobOf[w]][stepOf[w]] > 0
    /\ pc[w] \in {"finish", "notify", "done"} => RanToEnd(jobOf[w])

WorkerAgrees(w) == execStatus[jobOf[w]] \in ExecStatusAt(pc[w]) /\ RunBehind(w)

\* The parts of CompletedRan and OutcomesAgree about r; and what was announced has ended.
RowsAgree(r) ==
    /\ execStatus[r] = "completed" => RanToEnd(r)
    /\ jobStatus[r] = "completed" => execStatus[r] = "completed"
    /\ execStatus[r] = "failed" \/ "failure" \in notified[r]
         => jobStatus[r] = "failed" /\ jobAttempts[r] = MaxAttempts
    /\ "success" \in notified[r] => RanToEnd(r) /\ execStatus[r] \in {"completed", "failed"}
    /\ execStatus[r] # "cancelled"

SettleInv ==
    /\ \A r \in Requests : RowsAgree(r)
    /\ \A w \in Workers : WorkerAgrees(w)

\* Nothing is recorded at first.
LEMMA InitSettleInv == Init => SettleInv
<1> SUFFICES ASSUME Init PROVE SettleInv
  OBVIOUS
<1>1. \A r \in Requests : RowsAgree(r)
  BY DEF Init, RowsAgree
<1>2. \A w \in Workers : WorkerAgrees(w)
  BY InitTypeOK DEF Init, TypeOK, WorkerAgrees, RunBehind, ExecStatusAt, InLoop
<1> QED
  BY <1>1, <1>2 DEF SettleInv

\* What the rows tell of a run changes with its rows and effects only.
LEMMA Frozen ==
    ASSUME TypeOK, NEW r \in Requests, stepStatus'[r] = stepStatus[r], effects'[r] = effects[r]
    PROVE  /\ \A i \in Steps : Done(r, i)' <=> Done(r, i)
           /\ RanToEnd(r)' <=> RanToEnd(r)
BY DEF Done, RanToEnd

\* A worker changes the rows of its own job only, so only what concerns that job and that
\* worker has to be shown.
LEMMA OwnJob ==
    ASSUME TypeOK, TypeOK', ClaimInv, SettleInv, NEW w \in Workers, Busy(w),
           jobOf' = jobOf,
           \A v \in Workers \ {w} : pc'[v] = pc[v] /\ stepOf'[v] = stepOf[v],
           \A q \in Requests \ {jobOf[w]} :
             /\ execStatus'[q] = execStatus[q] /\ jobStatus'[q] = jobStatus[q]
             /\ jobAttempts'[q] = jobAttempts[q] /\ notified'[q] = notified[q]
             /\ stepStatus'[q] = stepStatus[q] /\ effects'[q] = effects[q],
           RowsAgree(jobOf[w])', WorkerAgrees(w)'
    PROVE  SettleInv'
<1>1. ASSUME NEW q \in Requests PROVE RowsAgree(q)'
  <2>1. CASE q = jobOf[w]
    <3>1. jobOf'[w] = jobOf[w]
      OBVIOUS
    <3> QED
      BY <2>1
  <2>2. CASE q # jobOf[w]
    BY <2>2, Frozen DEF SettleInv, RowsAgree
  <2> QED
    BY <2>1, <2>2
<1>2. ASSUME NEW v \in Workers PROVE WorkerAgrees(v)'
  <2>1. CASE v = w
    BY <2>1
  <2>2. CASE v # w /\ pc[v] = "idle"
    BY <2>2 DEF SettleInv, WorkerAgrees, RunBehind, ExecStatusAt, InLoop, TypeOK
  <2>3. CASE v # w /\ pc[v] # "idle"
    <3>1. jobOf[v] # jobOf[w] /\ jobOf[v] \in Requests
      BY <2>3 DEF ClaimInv, NoSharedJob, Busy, TypeOK
    <3>2. /\ \A i \in Steps : Done(jobOf[v], i)' <=> Done(jobOf[v], i)
          /\ RanToEnd(jobOf[v])' <=> RanToEnd(jobOf[v])
      <4>1. jobOf'[v] = jobOf[v]
        OBVIOUS
      <4> QED
        BY <3>1, <4>1, Frozen DEF Done, RanToEnd
    <3> QED
      BY <2>3, <3>1, <3>2 DEF SettleInv, WorkerAgrees, RunBehind
  <2> QED
    BY <2>1, <2>2, <2>3
<1> QED
  BY <1>1, <1>2 DEF SettleInv

\* A run that has done every step before i goes on with step i, or has reached the end.
LEMMA PassedTo ==
    ASSUME NEW w \in Workers, NEW i \in Nat \ {0}, i <= NumSteps + 1,
           \A j \in Steps : j < i => Done(jobOf[w], j)'
    PROVE  /\ Advance(i) \in {"step", "finish"}
           /\ Advance(i) = "finish" => RanToEnd(jobOf[w])'
<1>1. Advance(i) \in {"step", "finish"}
  BY DEF Advance
<1>2. ASSUME Advance(i) = "finish" PROVE RanToEnd(jobOf[w])'
  <2>1. i = NumSteps + 1
    BY <1>2, ExecutionAssumption DEF Advance
  <2>2. \A j \in 1..NumSteps : j \in Steps /\ j < i
    BY <2>1, ExecutionAssumption DEF Steps
  <2>3. NumSteps \in 0..NumSteps
    BY ExecutionAssumption
  <2> QED
    BY <2>2, <2>3 DEF RanToEnd
<1> QED
  BY <1>1, <1>2

\* Rows and workers go on agreeing over every step.
LEMMA NextSettleInv ==
    TypeOK /\ TypeOK' /\ ClaimInv /\ ClaimInv' /\ KeyInv /\ SettleInv /\ [Next]_vars => SettleInv'
<1> SUFFICES ASSUME TypeOK, TypeOK', ClaimInv, ClaimInv', KeyInv, SettleInv, [Next]_vars
             PROVE SettleInv'
  OBVIOUS
<1> USE ExecutionAssumption DEF Outcomes
<1>1. ASSUME NEW r \in Requests, Request(r) \/ CrashRequest(r) \/ BackoffEnds(r) PROVE SettleInv'
  <2>1. /\ UNCHANGED <<stepStatus, effects, notified, jobAttempts, pc, jobOf, stepOf>>
        /\ \A q \in Requests \ {r} : execStatus'[q] = execStatus[q] /\ jobStatus'[q] = jobStatus[q]
        /\ \/ execStatus'[r] = execStatus[r] /\ jobStatus'[r] = jobStatus[r]
           \/ execStatus[r] = "none" /\ execStatus'[r] = "queued" /\ jobStatus'[r] = jobStatus[r]
           \/ /\ execStatus'[r] = execStatus[r] /\ jobStatus'[r] = "queued" /\ jobStatus[r] = "none"
    <3>1. CASE InsertExecution(r)
      BY <3>1 DEF InsertExecution, KeyTaken, TypeOK, jobVars, runVars
    <3>2. CASE InsertJob(r)
      BY <3>2 DEF InsertJob, ClaimInv, TypeOK, execVars, runVars
    <3>3. CASE UNCHANGED <<execStatus, jobStatus, stepStatus, effects, notified, jobAttempts, pc,
                           jobOf, stepOf>>
      BY <3>3
    <3> QED
      BY <1>1, <3>1, <3>2, <3>3 DEF Request, AnswerDuplicate, CrashRequest, BackoffEnds, execVars,
                                    jobVars, runVars
  <2>2. ASSUME NEW q \in Requests PROVE RowsAgree(q)'
    <3>1. RowsAgree(q) /\ (RanToEnd(q)' <=> RanToEnd(q))
      BY <2>1, Frozen DEF SettleInv
    <3> QED
      BY <2>1, <3>1 DEF RowsAgree
  <2>3. ASSUME NEW w \in Workers PROVE WorkerAgrees(w)'
    <3>1. /\ jobOf[w] \in Requests /\ jobOf'[w] = jobOf[w] /\ WorkerAgrees(w)
          /\ \A i \in Steps : Done(jobOf[w], i)' <=> Done(jobOf[w], i)
          /\ RanToEnd(jobOf[w])' <=> RanToEnd(jobOf[w])
      BY <2>1, Frozen DEF SettleInv, TypeOK, Done, RanToEnd
    <3>2. RunBehind(w)'
      BY <2>1, <3>1 DEF RunBehind, WorkerAgrees
    <3>3. Busy(w) => jobStatus[jobOf[w]] # "none" /\ execStatus[jobOf[w]] # "none"
      BY <3>1 DEF ClaimInv, JobStatusAt, Busy, KeyInv
    <3>4. execStatus'[jobOf[w]] \in ExecStates
      BY <3>1 DEF TypeOK
    <3>5. execStatus'[jobOf[w]] \in ExecStatusAt(pc[w])
      BY <2>1, <3>1, <3>3, <3>4 DEF WorkerAgrees, ExecStatusAt, Busy, InLoop
    <3> QED
      BY <2>1, <3>1, <3>2, <3>5 DEF WorkerAgrees, ExecStatusAt
  <2> QED
    BY <2>2, <2>3 DEF SettleInv
<1>2. ASSUME NEW w \in Workers, LockJob(w) PROVE SettleInv'
  <2>1. /\ UNCHANGED <<execStatus, jobStatus, jobAttempts, notified, stepStatus, effects, stepOf>>
        /\ pc'[w] = "locked"
        /\ \A v \in Workers \ {w} : pc'[v] = pc[v] /\ jobOf'[v] = jobOf[v]
    BY <1>2 DEF LockJob, TypeOK, execVars, jobVars, runVars
  <2>2. \A q \in Requests : RowsAgree(q)'
    BY <2>1, Frozen DEF SettleInv, RowsAgree
  <2>3. \A v \in Workers \ {w} : WorkerAgrees(v)'
    BY <2>1 DEF SettleInv, WorkerAgrees, RunBehind, RanToEnd, Done
  <2>4. WorkerAgrees(w)'
    BY <2>1 DEF WorkerAgrees, RunBehind, ExecStatusAt, InLoop, TypeOK
  <2> QED
    BY <2>2, <2>3, <2>4 DEF SettleInv
<1>3. ASSUME NEW w \in Workers, WorkerStep(w) \/ CrashWorker(w), ~LockJob(w) PROVE SettleInv'
  <2> DEFINE r == jobOf[w]
             k == stepOf[w]
  <2>1. /\ Busy(w) /\ r \in Requests /\ jobOf' = jobOf /\ k \in Nat \ {0}
        /\ pc'[w] \in WorkerStates /\ execStatus'[r] \in ExecStates
    <3>1. Busy(w) /\ jobOf' = jobOf
      BY <1>3 DEF At, Busy, WorkerStep, Claiming, Running, Catching, ClaimJob, SelectExecution,
                  BeginExecution, StartStep, RunAction, RecordStep, EvaluateCondition,
                  ConditionThrows, FailStep, CompleteExecution, NotifySuccess, CompleteJob,
                  CatchError, FailExecution, NotifyFailure, CrashWorker
    <3> QED
      BY <3>1 DEF TypeOK
  <2>2. /\ RowsAgree(r) /\ WorkerAgrees(w)
        /\ AttemptsFit(r) /\ jobStatus[r] \in JobStatusAt(pc[w])
    BY <2>1 DEF SettleInv, ClaimInv
  <2>3. execStatus[r] # "none"
    BY <2>1, <2>2 DEF JobStatusAt, Busy, KeyInv
  <2> USE DEF At
  <2> DEFINE Frame ==
        /\ \A v \in Workers \ {w} : pc'[v] = pc[v] /\ stepOf'[v] = stepOf[v]
        /\ \A q \in Requests \ {r} :
             /\ execStatus'[q] = execStatus[q] /\ jobStatus'[q] = jobStatus[q]
             /\ jobAttempts'[q] = jobAttempts[q] /\ notified'[q] = notified[q]
             /\ stepStatus'[q] = stepStatus[q] /\ effects'[q] = effects[q]
      Goal == Frame /\ RowsAgree(r)' /\ WorkerAgrees(w)'
      Still == stepStatus'[r] = stepStatus[r] /\ effects'[r] = effects[r]
  <2>4. ASSUME Still
        PROVE  /\ \A i \in Steps : Done(r, i)' <=> Done(r, i)
               /\ RanToEnd(r)' <=> RanToEnd(r)
    BY <2>1, <2>4, Frozen DEF Done, RanToEnd
  <2>4a. ASSUME pc[w] \in InLoop, UNCHANGED <<execStatus, jobStatus, jobAttempts, notified>>
         PROVE  execStatus'[r] = "running" /\ RowsAgree(r)'
    BY <2>1, <2>2, <2>4a DEF RowsAgree, WorkerAgrees, ExecStatusAt, InLoop, Failing, JobStatusAt
  <2>5. ASSUME ClaimJob(w) PROVE Goal
    <3>1. /\ Frame /\ Still /\ pc[w] = "locked" /\ pc'[w] \in {"select", "idle"}
          /\ jobStatus'[r] \in {"running", jobStatus[r]} /\ UNCHANGED <<execStatus, notified>>
      BY <2>5 DEF ClaimJob, Statement, TypeOK, execVars, jobVars, runVars
    <3> QED
      BY <2>1, <2>2, <2>4, <3>1 DEF RowsAgree, WorkerAgrees, RunBehind, ExecStatusAt, InLoop,
                                    Failing, JobStatusAt
  <2>6. ASSUME SelectExecution(w) PROVE Goal
    <3>1. /\ Frame /\ Still /\ pc[w] = "select" /\ UNCHANGED <<execStatus, jobStatus, jobAttempts, notified>>
          /\ pc'[w] \in {IF Settled(r) THEN "skip" ELSE "begin", "catch"}
      BY <2>6 DEF SelectExecution, Statement, TypeOK, execVars, jobVars, runVars
    <3> QED
      BY <2>1, <2>2, <2>3, <2>4, <3>1 DEF RowsAgree, WorkerAgrees, RunBehind, ExecStatusAt, InLoop,
                                    Failing, JobStatusAt, Settled, ExecStates
  <2>7. ASSUME BeginExecution(w) PROVE Goal
    <3>1. /\ Frame /\ Still /\ pc[w] = "begin" /\ UNCHANGED <<jobStatus, jobAttempts, notified>>
          /\ stepOf'[w] = 1 /\ execStatus'[r] \in {"running", execStatus[r]}
          /\ \/ pc'[w] = "catch"
             \/ pc'[w] = Advance(1) /\ execStatus'[r] = "running"
      BY <2>7 DEF BeginExecution, Statement, Applied, TypeOK, execVars, jobVars, runVars
    <3>2. NumSteps = 0 => RanToEnd(r)
      BY DEF RanToEnd
    <3>3. pc'[w] \in {"catch", "step", "finish"} /\ (pc'[w] = "finish" => RanToEnd(r)')
      BY <2>4, <3>1, <3>2 DEF Advance
    <3>4. \A i \in Steps : ~(i < 1)
      BY DEF Steps
    <3> QED
      BY <2>1, <2>2, <2>4, <3>1, <3>3, <3>4 DEF RowsAgree, WorkerAgrees, RunBehind, ExecStatusAt,
                                    InLoop, JobStatusAt, Advance
  <2>8. ASSUME StartStep(w) PROVE Goal
    <3>1. /\ Frame /\ pc[w] = "step" /\ pc'[w] \in {"act", "catch"}
          /\ UNCHANGED <<execStatus, jobStatus, jobAttempts, notified, effects, stepOf>>
          /\ \A i \in Steps \ {k} : stepStatus'[r][i] = stepStatus[r][i]
      BY <2>8 DEF StartStep, SetRow, Statement, TypeOK, execVars, jobVars
    <3>2. \A i \in Steps : i < k => i # k /\ Done(r, i)
      BY <2>2, <3>1 DEF WorkerAgrees, RunBehind, Steps
    <3>3. \A i \in Steps : i < k => Done(r, i)'
      BY <2>1, <3>1, <3>2 DEF Done
    <3> QED
      BY <2>1, <2>4a, <3>1, <3>3 DEF WorkerAgrees, RunBehind, ExecStatusAt, InLoop
  <2>9. ASSUME RunAction(w) PROVE Goal
    <3>1. /\ Frame /\ pc[w] = "act" /\ Kind[k] = "action"
          /\ UNCHANGED <<execStatus, jobStatus, jobAttempts, notified, stepStatus, stepOf>>
          /\ \A i \in Steps \ {k} : effects'[r][i] = effects[r][i]
          /\ \/ pc'[w] = "stepfail"
             \/ pc'[w] = "record" /\ effects'[r][k] = effects[r][k] + 1 /\ effects[r][k] \in Nat
      BY <2>9 DEF RunAction, TypeOK, InLoop, execVars, jobVars
    <3>2. \A i \in Steps : i < k => i # k /\ Done(r, i)
      BY <2>2, <3>1 DEF WorkerAgrees, RunBehind, Steps
    <3>3. \A i \in Steps : i < k => Done(r, i)'
      BY <2>1, <3>1, <3>2 DEF Done
    <3>4. pc'[w] = "record" => effects'[r][k] > 0
      BY <3>1
    <3> QED
      BY <2>1, <2>4a, <3>1, <3>3, <3>4 DEF WorkerAgrees, RunBehind, ExecStatusAt, InLoop
  <2>10. ASSUME RecordStep(w) PROVE Goal
    <3>0. PICK n \in Steps : n = k
      BY <2>10 DEF RecordStep, TypeOK, InLoop
    <3>1. /\ Frame /\ pc[w] = "record" /\ n = k
          /\ UNCHANGED <<execStatus, jobStatus, jobAttempts, notified, effects>>
          /\ \A i \in Steps \ {n} : stepStatus'[r][i] = stepStatus[r][i]
          /\ \/ pc'[w] = "stepfail"
             \/ /\ pc'[w] = Advance(n + 1) /\ stepOf'[w] = n + 1
                /\ stepStatus'[r][n] = "completed"
      BY <3>0, <2>10 DEF RecordStep, SetRow, Statement, Applied, TypeOK, InLoop, execVars, jobVars
    <3>2. \A i \in Steps : i < n => i # n /\ Done(r, i)
      BY <2>2, <3>0, <3>1 DEF WorkerAgrees, RunBehind, Steps
    <3>3. \A i \in Steps : i < n => Done(r, i)'
      BY <2>1, <3>0, <3>1, <3>2 DEF Done
    <3>4. CASE pc'[w] = "stepfail"
      BY <2>1, <3>0, <2>4a, <3>1, <3>4 DEF WorkerAgrees, RunBehind, ExecStatusAt, InLoop
    <3>5. CASE pc'[w] # "stepfail"
      <4>1. Done(r, n)'
        BY <2>1, <3>0, <2>2, <3>1, <3>5 DEF Done, WorkerAgrees, RunBehind
      <4>2. \A i \in Steps : i < n + 1 => Done(r, i)'
        BY <2>1, <3>0, <3>3, <4>1 DEF Steps
      <4>3. n + 1 \in Nat \ {0} /\ n + 1 <= NumSteps + 1
        BY DEF Steps
      <4>4. Advance(n + 1) \in {"step", "finish"} /\ (Advance(n + 1) = "finish" => RanToEnd(r)')
        BY <4>2, <4>3, PassedTo
      <4> QED
        BY <2>1, <2>4a, <3>1, <3>5, <4>2, <4>4 DEF WorkerAgrees, RunBehind, ExecStatusAt, InLoop
    <3> QED
      BY <3>4, <3>5
  <2>11. ASSUME EvaluateCondition(w) PROVE Goal
    <3>0. PICK n \in Steps : n = k
      BY <2>11 DEF EvaluateCondition, TypeOK, InLoop
    <3>1. PICK verdict \in {"completed", "skipped"} :
            /\ Frame /\ pc[w] = "act" /\ n = k /\ Kind[n] # "action"
            /\ UNCHANGED <<execStatus, jobStatus, jobAttempts, notified, effects>>
            /\ \A i \in Steps \ {n} : stepStatus'[r][i] = stepStatus[r][i]
            /\ \/ pc'[w] = "stepfail"
               \/ /\ Stops(n, verdict) /\ pc'[w] = "finish" /\ stepStatus'[r][n] = verdict
               \/ /\ pc'[w] = Advance(n + 1) /\ stepOf'[w] = n + 1
                  /\ stepStatus'[r][n] = verdict
      BY <3>0, <2>11 DEF EvaluateCondition, SetRow, Statement, Applied, TypeOK, InLoop, execVars, jobVars
    <3>2. \A i \in Steps : i < n => i # n /\ Done(r, i)
      BY <2>2, <3>0, <3>1 DEF WorkerAgrees, RunBehind, Steps
    <3>3. \A i \in Steps : i < n => Done(r, i)'
      BY <2>1, <3>0, <3>1, <3>2 DEF Done
    <3>4. CASE pc'[w] = "stepfail"
      BY <2>1, <3>0, <2>4a, <3>1, <3>4 DEF WorkerAgrees, RunBehind, ExecStatusAt, InLoop
    <3>5. CASE pc'[w] # "stepfail"
      <4>1. Done(r, n)'
        BY <2>1, <3>0, <3>1, <3>5 DEF Done
      <4>2. \A i \in Steps : i < n + 1 => Done(r, i)'
        BY <2>1, <3>0, <3>3, <4>1 DEF Steps
      <4>3. CASE Stops(n, verdict) /\ pc'[w] = "finish" /\ stepStatus'[r][n] = verdict
        <5>1. RanToEnd(r)'
          <6>1. n \in 0..NumSteps /\ \A i \in 1..n : i \in Steps /\ i < n + 1
            BY <2>1, <3>0, <3>1 DEF Steps
          <6>2. n > 0 /\ Kind[n] = "stop" /\ stepStatus'[r][n] = "skipped"
            BY <2>1, <3>0, <4>3 DEF Stops
          <6> QED
            BY <2>1, <3>0, <4>2, <6>1, <6>2 DEF RanToEnd
        <5> QED
          BY <2>1, <3>0, <2>4a, <3>1, <4>3, <5>1 DEF WorkerAgrees, RunBehind, ExecStatusAt, InLoop
      <4>4. CASE pc'[w] = Advance(n + 1) /\ stepOf'[w] = n + 1
        <5>1. n + 1 \in Nat \ {0} /\ n + 1 <= NumSteps + 1
          BY DEF Steps
        <5>2. Advance(n + 1) \in {"step", "finish"} /\ (Advance(n + 1) = "finish" => RanToEnd(r)')
          BY <4>2, <5>1, PassedTo
        <5> QED
          BY <2>1, <2>4a, <3>1, <4>2, <4>4, <5>2 DEF WorkerAgrees, RunBehind, ExecStatusAt, InLoop
      <4> QED
        BY <3>1, <3>5, <4>3, <4>4
    <3> QED
      BY <3>4, <3>5
  <2>12. ASSUME ConditionThrows(w) PROVE Goal
    <3>1. /\ Frame /\ Still /\ pc[w] = "act" /\ pc'[w] = "stepfail"
          /\ UNCHANGED <<execStatus, jobStatus, jobAttempts, notified>>
      BY <2>12 DEF ConditionThrows, At, TypeOK, execVars, jobVars, runVars
    <3> QED
      BY <2>1, <2>2, <2>4, <3>1 DEF RowsAgree, WorkerAgrees, RunBehind, ExecStatusAt, InLoop
  <2>13. ASSUME FailStep(w) PROVE Goal
    <3>1. /\ Frame /\ pc[w] = "stepfail" /\ pc'[w] = "catch"
          /\ UNCHANGED <<execStatus, jobStatus, jobAttempts, notified>>
      BY <2>13 DEF FailStep, SetRow, Statement, TypeOK, execVars, jobVars
    <3> QED
      BY <2>1, <2>4a, <3>1 DEF WorkerAgrees, RunBehind, ExecStatusAt, InLoop
  <2>14. ASSUME CompleteExecution(w) PROVE Goal
    <3>1. /\ Frame /\ Still /\ pc[w] = "finish" /\ UNCHANGED <<jobStatus, jobAttempts, notified>>
          /\ execStatus'[r] \in {"completed", execStatus[r]}
          /\ \/ pc'[w] = "catch"
             \/ pc'[w] = "notify" /\ execStatus'[r] = "completed"
      BY <2>14 DEF CompleteExecution, Statement, Applied, TypeOK, execVars, jobVars, runVars
    <3> QED
      BY <2>1, <2>2, <2>4, <3>1 DEF RowsAgree, WorkerAgrees, RunBehind, ExecStatusAt, InLoop,
                                    Failing, JobStatusAt
  <2>15. ASSUME NotifySuccess(w) PROVE Goal
    <3>1. /\ Frame /\ Still /\ pc[w] = "notify" /\ UNCHANGED <<execStatus, jobStatus, jobAttempts>>
          /\ notified'[r] \in {notified[r], notified[r] \cup {"success"}}
          /\ pc'[w] \in {"done", "catch"}
      BY <2>15 DEF NotifySuccess, Notify, Statement, Applied, TypeOK, execVars, jobVars, runVars
    <3> QED
      BY <2>1, <2>2, <2>4, <3>1 DEF RowsAgree, WorkerAgrees, RunBehind, ExecStatusAt, InLoop,
                                    Failing, JobStatusAt
  <2>16. ASSUME CompleteJob(w) PROVE Goal
    <3>1. /\ Frame /\ Still /\ pc[w] \in {"done", "skip"}
          /\ UNCHANGED <<execStatus, jobAttempts, notified>>
          /\ jobStatus'[r] \in {"completed", jobStatus[r]} /\ pc'[w] \in {"idle", "catch"}
      BY <2>16 DEF CompleteJob, Statement, Applied, TypeOK, execVars, jobVars, runVars
    <3> QED
      BY <2>1, <2>2, <2>4, <3>1 DEF RowsAgree, WorkerAgrees, RunBehind, ExecStatusAt, InLoop,
                                    Failing, JobStatusAt
  <2>17. ASSUME CatchError(w) PROVE Goal
    <3>1. /\ Frame /\ Still /\ pc[w] = "catch" /\ UNCHANGED <<execStatus, jobAttempts, notified>>
          /\ jobStatus'[r] \in {CatchStatus(r), jobStatus[r]} /\ pc'[w] \in {"idle", "failexec"}
      BY <2>17 DEF CatchError, Statement, Applied, TypeOK, execVars, jobVars, runVars
    <3> QED
      BY <2>1, <2>2, <2>4, <3>1 DEF RowsAgree, WorkerAgrees, RunBehind, ExecStatusAt, InLoop,
                                    Failing, JobStatusAt, CatchStatus
  <2>18. ASSUME FailExecution(w) PROVE Goal
    <3>1. /\ Frame /\ Still /\ pc[w] = "failexec" /\ UNCHANGED <<jobStatus, jobAttempts, notified>>
          /\ execStatus'[r] \in {"failed", execStatus[r]} /\ pc'[w] \in {"failnotify", "idle"}
      BY <2>18 DEF FailExecution, Statement, Applied, TypeOK, execVars, jobVars, runVars
    <3> QED
      BY <2>1, <2>2, <2>4, <3>1 DEF RowsAgree, WorkerAgrees, RunBehind, ExecStatusAt, InLoop,
                                    Failing, JobStatusAt, AttemptsFit
  <2>19. ASSUME NotifyFailure(w) PROVE Goal
    <3>1. /\ Frame /\ Still /\ pc[w] = "failnotify" /\ UNCHANGED <<execStatus, jobStatus, jobAttempts>>
          /\ notified'[r] \in {notified[r], notified[r] \cup {"failure"}}
          /\ pc'[w] = "idle"
      BY <2>19 DEF NotifyFailure, Notify, Statement, Applied, TypeOK, execVars, jobVars, runVars
    <3> QED
      BY <2>1, <2>2, <2>4, <3>1 DEF RowsAgree, WorkerAgrees, RunBehind, ExecStatusAt, InLoop,
                                    Failing, JobStatusAt, AttemptsFit
  <2>20. ASSUME CrashWorker(w) PROVE Goal
    <3>1. /\ Frame /\ Still /\ pc'[w] = "idle"
          /\ UNCHANGED <<execStatus, jobStatus, jobAttempts, notified>>
      BY <2>20 DEF CrashWorker, TypeOK, execVars, jobVars, runVars
    <3> QED
      BY <2>1, <2>2, <2>4, <3>1 DEF RowsAgree, WorkerAgrees, RunBehind, ExecStatusAt, InLoop
  <2>21. Goal
    BY <1>3, <2>5, <2>6, <2>7, <2>8, <2>9, <2>10, <2>11, <2>12, <2>13, <2>14, <2>15, <2>16, <2>17,
       <2>18, <2>19, <2>20 DEF WorkerStep, Claiming, Running, Catching
  <2> QED
    BY <2>1, <2>21, OwnJob
<1>4. CASE UNCHANGED vars
  BY <1>4, Frozen DEF vars, SettleInv, RowsAgree, WorkerAgrees, RunBehind, RanToEnd, Done
<1> QED
  BY <1>1, <1>2, <1>3, <1>4 DEF Next

\* SettleInv is invariant.
THEOREM SettleInvariant == Spec => [](TypeOK /\ ClaimInv /\ KeyInv /\ SettleInv)
<1>1. TypeOK /\ ClaimInv /\ KeyInv /\ SettleInv /\ [Next]_vars => SettleInv'
  BY NextTypeOK, NextClaimInv, NextSettleInv
<1> QED
  BY <1>1, TypeCorrect, ClaimInvariant, InitKeyInv, NextKeyInv, InitSettleInv, PTL DEF Spec

\* An execution recorded as completed has run: each step up to its end is recorded as
\* done, and each action among them took effect.
THEOREM CompletedReallyRan == Spec => []CompletedRan
<1>1. SettleInv => CompletedRan
  BY DEF SettleInv, RowsAgree, CompletedRan
<1> QED
  BY <1>1, SettleInvariant, PTL

\* Job, execution and notifications agree on how a request ended.
THEOREM OutcomesAlwaysAgree == Spec => []OutcomesAgree
<1>1. SettleInv => OutcomesAgree
  BY DEF SettleInv, RowsAgree, OutcomesAgree
<1> QED
  BY <1>1, SettleInvariant, PTL

\* Status and effects of an execution are changed by its insert, by workers whose place
\* says that it has not ended, and by the catch, which records failed.
LEMMA SettledStays ==
    ASSUME TypeOK, TypeOK', ClaimInv, KeyInv, SettleInv, [Next]_vars, NEW r \in Requests,
           execStatus[r] \in {"completed", "failed"}
    PROVE  execStatus'[r] \in {"completed", "failed"} /\ effects'[r] = effects[r]
<1> USE ExecutionAssumption DEF Outcomes
<1>1. ASSUME NEW w \in Workers, jobOf[w] = r
      PROVE  pc[w] \notin InLoop \cup {"finish", "begin"}
  <2>1. execStatus[r] \in ExecStatusAt(pc[w]) /\ (Busy(w) => jobStatus[r] \in JobStatusAt(pc[w]))
    BY <1>1 DEF SettleInv, WorkerAgrees, ClaimInv
  <2> QED
    BY <2>1 DEF ExecStatusAt, InLoop
<1>2. ASSUME NEW q \in Requests, InsertExecution(q) PROVE execStatus'[r] = execStatus[r] /\ effects' = effects
  BY <1>2 DEF InsertExecution, KeyTaken, TypeOK, runVars
<1>3. ASSUME NEW w \in Workers, BeginExecution(w) PROVE execStatus'[r] = execStatus[r] /\ effects' = effects
  <2>1. jobOf[w] # r
    BY <1>1, <1>3 DEF BeginExecution, At
  <2> QED
    BY <1>3, <2>1 DEF BeginExecution, TypeOK, runVars
<1>4. ASSUME NEW w \in Workers, CompleteExecution(w) PROVE execStatus'[r] = execStatus[r] /\ effects' = effects
  <2>1. jobOf[w] # r
    BY <1>1, <1>4 DEF CompleteExecution, At
  <2> QED
    BY <1>4, <2>1 DEF CompleteExecution, TypeOK, runVars
<1>5. ASSUME NEW w \in Workers, FailExecution(w)
      PROVE  execStatus'[r] \in {execStatus[r], "failed"} /\ effects' = effects
  BY <1>5 DEF FailExecution, TypeOK, runVars
<1>6. ASSUME NEW w \in Workers, RunAction(w) PROVE execStatus' = execStatus /\ effects'[r] = effects[r]
  <2>1. jobOf[w] # r
    BY <1>1, <1>6 DEF RunAction, At, InLoop
  <2> QED
    BY <1>6, <2>1 DEF RunAction, TypeOK, execVars
<1>7. CASE UNCHANGED <<execStatus, effects>>
  BY <1>7
<1> QED
  BY <1>2, <1>3, <1>4, <1>5, <1>6, <1>7
  DEF Next, vars, Request, WorkerStep, Claiming, Running, Catching, AnswerDuplicate, InsertJob,
      CrashRequest, BackoffEnds, LockJob, ClaimJob, SelectExecution, StartStep, RecordStep,
      EvaluateCondition, ConditionThrows, FailStep, NotifySuccess, CompleteJob, CatchError,
      NotifyFailure, CrashWorker, execVars, runVars

\* An execution that has ended stays so and acts no more, whatever retries, late workers
\* and repeated requests do.
THEOREM SettledIsQuiet == Spec => QuietWhenSettled
<1>1. ASSUME TypeOK, TypeOK', ClaimInv, KeyInv, SettleInv, [Next]_vars
      PROVE  [\A r \in Requests :
                execStatus[r] \in {"completed", "failed"} =>
                    execStatus'[r] \in {"completed", "failed"} /\ effects'[r] = effects[r]]_vars
  BY <1>1, SettledStays
<1> QED
  BY <1>1, SettleInvariant, PTL DEF Spec, QuietWhenSettled

-----------------------------------------------------------------------------
(* Jobs left behind *)

AbandonedJobs == {r \in Requests : Abandoned(r)}

AbandonedInv == IsFiniteSet(AbandonedJobs) /\ AbandonedByFaults

\* A subset of a set of at most n elements with another one has at most n + 1.
LEMMA OneMore ==
    ASSUME NEW S, IsFiniteSet(S), NEW x, NEW T, T \subseteq S \cup {x},
           NEW n \in Nat, Cardinality(S) <= n
    PROVE  IsFiniteSet(T) /\ Cardinality(T) <= n + 1
<1>1. IsFiniteSet(S \cup {x}) /\ Cardinality(S) \in Nat
  BY FS_AddElement, FS_CardinalityType
<1>2. Cardinality(S \cup {x}) = IF x \in S THEN Cardinality(S) ELSE Cardinality(S) + 1
  BY FS_AddElement
<1>3. IsFiniteSet(T) /\ Cardinality(T) <= Cardinality(S \cup {x})
  BY <1>1, FS_Subset
<1>4. Cardinality(T) \in Nat /\ Cardinality(S \cup {x}) \in Nat
  BY <1>1, <1>3, FS_CardinalityType
<1>5. Cardinality(S \cup {x}) <= n + 1
  BY <1>1, <1>2
<1> QED
  BY <1>3, <1>4, <1>5

\* One more fault or crash has happened; or none.
Counted ==
    \/ crashes' = crashes + 1 /\ faults' = faults
    \/ crashes' = crashes /\ faults' = faults + 1

\* One more job is left behind, and it is counted; or none is.
LEMMA CountAbandoned ==
    ASSUME TypeOK, AbandonedInv, NEW r,
           \/ AbandonedJobs' \subseteq AbandonedJobs \cup {r} /\ Counted
           \/ AbandonedJobs' \subseteq AbandonedJobs /\ (Counted \/ UNCHANGED <<crashes, faults>>)
    PROVE  AbandonedInv'
<1>1. PICK n \in Nat : n = crashes + faults
  <2>1. crashes \in Nat /\ faults \in Nat
    BY DEF TypeOK
  <2> QED
    BY <2>1
<1>2. IsFiniteSet(AbandonedJobs) /\ Cardinality(AbandonedJobs) <= n
  BY <1>1 DEF AbandonedInv, AbandonedByFaults, AbandonedJobs
<1>3. Counted => crashes' + faults' = n + 1
  <2>1. crashes \in Nat /\ faults \in Nat
    BY DEF TypeOK
  <2> QED
    BY <1>1, <2>1 DEF Counted
<1>4. CASE AbandonedJobs' \subseteq AbandonedJobs \cup {r} /\ Counted
  <2>1. IsFiniteSet(AbandonedJobs') /\ Cardinality(AbandonedJobs') <= n + 1
    BY <1>2, <1>4, OneMore
  <2> QED
    BY <2>1, <1>3, <1>4 DEF AbandonedInv, AbandonedByFaults, AbandonedJobs
<1>5. CASE AbandonedJobs' \subseteq AbandonedJobs /\ UNCHANGED <<crashes, faults>>
  <2>1. IsFiniteSet(AbandonedJobs') /\ Cardinality(AbandonedJobs') <= Cardinality(AbandonedJobs)
    BY <1>2, <1>5, FS_Subset
  <2>2. Cardinality(AbandonedJobs') \in Nat /\ Cardinality(AbandonedJobs) \in Nat
    BY <1>2, <2>1, FS_CardinalityType
  <2>3. Cardinality(AbandonedJobs') <= n
    BY <1>2, <2>1, <2>2
  <2> QED
    BY <2>1, <2>3, <1>1, <1>5 DEF AbandonedInv, AbandonedByFaults, AbandonedJobs
<1> QED
  BY <1>4, <1>5

\* Nothing is left behind at first.
LEMMA InitAbandonedInv == Init => AbandonedInv
<1> SUFFICES ASSUME Init PROVE AbandonedInv
  OBVIOUS
<1>1. AbandonedJobs = {}
  BY DEF Init, AbandonedJobs, Abandoned
<1>2. IsFiniteSet(AbandonedJobs) /\ Cardinality(AbandonedJobs) = 0
  BY <1>1, FS_EmptySet
<1> QED
  BY <1>2 DEF Init, AbandonedInv, AbandonedByFaults, AbandonedJobs

\* A worker lets go of a job that stays running only by a crash or a fault.
LEMMA NextAbandonedInv == TypeOK /\ ClaimInv /\ AbandonedInv /\ [Next]_vars => AbandonedInv'
<1> SUFFICES ASSUME TypeOK, ClaimInv, AbandonedInv, [Next]_vars PROVE AbandonedInv'
  OBVIOUS
<1> USE ExecutionAssumption DEF Outcomes
<1>1. ASSUME NEW r \in Requests, Request(r) \/ CrashRequest(r) \/ BackoffEnds(r)
      PROVE AbandonedInv'
  <2>1. /\ UNCHANGED <<pc, jobOf>>
        /\ \A q \in Requests : jobStatus'[q] \in {jobStatus[q], "queued"}
        /\ Counted \/ UNCHANGED <<crashes, faults>>
    <3> USE DEF RequestStatement, CountFault, Counted, TypeOK
    <3>1. CASE InsertExecution(r) \/ InsertJob(r)
      BY <3>1 DEF InsertExecution, InsertJob, jobVars
    <3>2. CASE AnswerDuplicate(r) \/ CrashRequest(r) \/ BackoffEnds(r)
      BY <3>2 DEF AnswerDuplicate, CrashRequest, BackoffEnds, jobVars
    <3> QED
      BY <1>1, <3>1, <3>2 DEF Request
  <2>2. AbandonedJobs' \subseteq AbandonedJobs
    BY <2>1 DEF AbandonedJobs, Abandoned, Busy
  <2> QED
    BY <2>1, <2>2, CountAbandoned
<1>2. ASSUME NEW w \in Workers, LockJob(w) PROVE AbandonedInv'
  <2>1. /\ UNCHANGED <<jobStatus, crashes, faults>> /\ ~Busy(w)
        /\ \A v \in Workers \ {w} : pc'[v] = pc[v] /\ jobOf'[v] = jobOf[v]
    BY <1>2 DEF LockJob, Busy, At, TypeOK, jobVars
  <2>2. AbandonedJobs' \subseteq AbandonedJobs
    BY <2>1 DEF AbandonedJobs, Abandoned, Busy
  <2> QED
    BY <2>1, <2>2, CountAbandoned
<1>3. ASSUME NEW w \in Workers, WorkerStep(w) \/ CrashWorker(w), ~LockJob(w) PROVE AbandonedInv'
  <2> DEFINE r == jobOf[w]
             Kept == pc'[w] # "idle" \/ jobStatus'[r] # "running"
             LetsGo ==
                /\ UNCHANGED jobOf
                /\ \A v \in Workers \ {w} : pc'[v] = pc[v]
                /\ \A q \in Requests \ {r} : jobStatus'[q] = jobStatus[q]
                /\ Counted \/ (UNCHANGED <<crashes, faults>> /\ Kept)
  <2>1. LetsGo
    <3> USE DEF TypeOK, Statement, CountFault, Applied, Counted
    <3>1. CASE ClaimJob(w)
      BY <3>1 DEF ClaimJob
    <3>2. CASE SelectExecution(w) \/ NotifySuccess(w)
      BY <3>2 DEF SelectExecution, NotifySuccess, jobVars
    <3>3. CASE BeginExecution(w) \/ CompleteExecution(w)
      BY <3>3 DEF BeginExecution, CompleteExecution, Advance, jobVars
    <3>4. CASE StartStep(w) \/ FailStep(w)
      BY <3>4 DEF StartStep, FailStep, jobVars
    <3>5. CASE RunAction(w) \/ ConditionThrows(w)
      BY <3>5 DEF RunAction, ConditionThrows, jobVars
    <3>6. CASE RecordStep(w) \/ EvaluateCondition(w)
      BY <3>6 DEF RecordStep, EvaluateCondition, Advance, jobVars
    <3>7. CASE CompleteJob(w)
      BY <3>7 DEF CompleteJob
    <3>8. CASE CatchError(w)
      BY <3>8 DEF CatchError, CatchStatus
    <3>9. CASE FailExecution(w) \/ NotifyFailure(w)
      <4>1. jobStatus[r] = "failed"
        BY <3>9 DEF ClaimInv, JobStatusAt, Failing, Busy, FailExecution, NotifyFailure, At
      <4> QED
        BY <3>9, <4>1 DEF FailExecution, NotifyFailure, jobVars
    <3>10. CASE CrashWorker(w)
      BY <3>10 DEF CrashWorker, jobVars
    <3> QED
      BY <1>3, <3>1, <3>2, <3>3, <3>4, <3>5, <3>6, <3>7, <3>8, <3>9, <3>10
      DEF WorkerStep, Claiming, Running, Catching
  <2>2. AbandonedJobs' \subseteq AbandonedJobs \cup {r}
    BY <2>1 DEF AbandonedJobs, Abandoned, Busy
  <2>3. CASE Counted
    BY <2>2, <2>3, CountAbandoned
  <2>4. CASE UNCHANGED <<crashes, faults>> /\ Kept
    <3>1. r \notin AbandonedJobs'
      BY <2>1, <2>4 DEF AbandonedJobs, Abandoned, Busy
    <3> QED
      BY <2>2, <2>4, <3>1, CountAbandoned
  <2> QED
    BY <2>1, <2>3, <2>4
<1>4. CASE UNCHANGED vars
  <2>1. AbandonedJobs' \subseteq AbandonedJobs
    BY <1>4 DEF AbandonedJobs, Abandoned, Busy, vars
  <2> QED
    BY <1>4, <2>1, CountAbandoned DEF vars
<1> QED
  BY <1>1, <1>2, <1>3, <1>4 DEF Next

\* As many jobs are left running with no worker as there were crashes and faults, at most.
THEOREM OnlyFaultsAbandon == Spec => []AbandonedByFaults
<1>1. AbandonedInv => AbandonedByFaults
  BY DEF AbandonedInv
<1>2. TypeOK /\ ClaimInv /\ AbandonedInv /\ [Next]_vars => AbandonedInv'
  BY NextAbandonedInv
<1> QED
  BY <1>1, <1>2, TypeCorrect, ClaimInvariant, InitAbandonedInv, PTL DEF Spec

=============================================================================
