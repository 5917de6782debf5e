------------------------- MODULE EventIngestProofs -------------------------
(***************************************************************************)
(* Theorems about EventIngest, for any deliveries, workspaces, workflows   *)
(* and workers, and any bounds that satisfy IngestAssumption.              *)
(***************************************************************************)
EXTENDS EventIngest, FiniteSetTheorems, TLAPS

-----------------------------------------------------------------------------
(* Types, and with them the bound on attempts *)

\* A job row is inserted once, before a worker holds it, and is claimable only while it has
\* attempts left.
AttemptsLeft ==
    /\ \A k \in Workers : Busy(k) => reqPc[jobOf[k]] \notin {"idle", "stored"}
    /\ \A d \in Deliveries : reqPc[d] \in {"idle", "stored"} =>
        jobStatus[d] = "none" /\ jobAttempts[d] = 0
    /\ \A d \in Deliveries : jobStatus[d] = "queued" => jobAttempts[d] < MaxAttempts

TypeInv == TypeOK /\ AttemptsLeft

\* No row is there and nobody works at first.
LEMMA InitTypeInv == Init => TypeInv
<1> SUFFICES ASSUME Init PROVE TypeInv
    OBVIOUS
<1>1. (CHOOSE d \in Deliveries : TRUE) \in Deliveries
    BY IngestAssumption
<1>2. (CHOOSE f \in Workflows : TRUE) \in Workflows
    BY IngestAssumption
<1>3. TypeOK
    BY <1>1, <1>2, IngestAssumption DEF Init, TypeOK
<1>4. AttemptsLeft
    BY IngestAssumption DEF Init, AttemptsLeft, Busy
<1> QED
    BY <1>3, <1>4 DEF TypeInv

\* Statements keep the types; a claim uses up one of the attempts left.
LEMMA NextTypeInv == TypeInv /\ [Next]_vars => TypeInv'
<1> SUFFICES ASSUME TypeInv, [Next]_vars PROVE TypeInv'
    OBVIOUS
<1> USE IngestAssumption DEF TypeInv, TypeOK, AttemptsLeft, Outcomes, Applied, Statement,
        Busy, rowVars, runVars, workVars, flowVars, Local
<1>1. ASSUME NEW d \in Deliveries, InsertEvent(d) PROVE TypeInv'
    BY <1>1 DEF InsertEvent
<1>2. ASSUME NEW d \in Deliveries, AnswerDuplicate(d) PROVE TypeInv'
    BY <1>2 DEF AnswerDuplicate
<1>3. ASSUME NEW d \in Deliveries, InsertEventJob(d) PROVE TypeInv'
    BY <1>3 DEF InsertEventJob
<1>4. ASSUME NEW d \in Deliveries, CrashDelivery(d) PROVE TypeInv'
    BY <1>4 DEF CrashDelivery
<1>5. ASSUME NEW f \in Workflows, Publish(f) PROVE TypeInv'
    BY <1>5 DEF Publish
<1>6. ASSUME NEW f \in Workflows, Disable(f) PROVE TypeInv'
    BY <1>6 DEF Disable
<1>7. ASSUME NEW k \in Workers, NEW d \in Deliveries, Claim(k, d) PROVE TypeInv'
    BY <1>7 DEF Claim
<1>8. ASSUME NEW k \in Workers, SelectWorkflows(k) PROVE TypeInv'
    BY <1>8 DEF SelectWorkflows, Selected
<1>9. ASSUME NEW k \in Workers, InsertExecution(k) PROVE TypeInv'
    BY <1>9 DEF InsertExecution
<1>10. ASSUME NEW k \in Workers, InsertJob(k) PROVE TypeInv'
    BY <1>10 DEF InsertJob
<1>11. ASSUME NEW k \in Workers, MarkProcessed(k) PROVE TypeInv'
    BY <1>11 DEF MarkProcessed
<1>12. ASSUME NEW k \in Workers, CompleteJob(k) PROVE TypeInv'
    BY <1>12 DEF CompleteJob
<1>13. ASSUME NEW k \in Workers, CatchError(k) PROVE TypeInv'
    BY <1>13 DEF CatchError, CatchStatus
<1>14. ASSUME NEW k \in Workers, CrashWorker(k) PROVE TypeInv'
    BY <1>14 DEF CrashWorker
<1>15. CASE UNCHANGED vars
    BY <1>15 DEF vars
<1> QED
    BY <1>1, <1>2, <1>3, <1>4, <1>5, <1>6, <1>7, <1>8, <1>9, <1>10, <1>11, <1>12, <1>13,
       <1>14, <1>15 DEF Next, WorkerStep, Processing

\* The rows of events and jobs keep their types, no job is claimed more often than
\* max_attempts allows, and workers serve workflows of the event's workspace only.
THEOREM TypeCorrect == Spec => []TypeOK
<1>1. TypeInv => TypeOK
    BY DEF TypeInv
<1> QED
    BY <1>1, InitTypeInv, NextTypeInv, PTL DEF Spec

-----------------------------------------------------------------------------
(* A processed event was served *)

\* A job exists, or is about to, only next to its event.
EventFirst ==
    /\ \A d \in Deliveries : reqPc[d] = "stored" \/ jobStatus[d] # "none" => event[d] # "none"
    /\ \A k \in Workers : Busy(k) => event[jobOf[k]] # "none"

\* What workers in the loop have not served they still have to serve.
LoopServes ==
    \A k \in Workers : pc[k] \in {"next", "enqueue"} =>
        \A f \in steady[jobOf[k]] : f \in todo[k] \/ queued[jobOf[k]][f] > 0

ServedInv == EventFirst /\ LoopServes /\ ServedWhenProcessed

\* Nothing is processed at first.
LEMMA InitServedInv == Init => ServedInv
BY DEF Init, ServedInv, EventFirst, LoopServes, ServedWhenProcessed, Busy

\* The loop leaves a workflow only with a job behind it; a workflow disabled meanwhile is not
\* steady any more.
LEMMA NextServedInv == TypeInv /\ ServedInv /\ [Next]_vars => ServedInv'
<1> SUFFICES ASSUME TypeInv, ServedInv, [Next]_vars PROVE ServedInv'
    OBVIOUS
<1> USE IngestAssumption DEF TypeInv, TypeOK, ServedInv, EventFirst, LoopServes,
        ServedWhenProcessed, Outcomes, Applied, Statement, Busy, rowVars, runVars, workVars,
        flowVars, Local
<1>1. ASSUME NEW d \in Deliveries, InsertEvent(d) PROVE ServedInv'
  <2>1. event[d] = "none"
    BY <1>1 DEF InsertEvent, Stored
  <2>2. \A k \in Workers : Busy(k) => jobOf[k] # d
    BY <2>1
  <2> QED
    BY <1>1, <2>1, <2>2 DEF InsertEvent
<1>2. ASSUME NEW d \in Deliveries, AnswerDuplicate(d) PROVE ServedInv'
    BY <1>2 DEF AnswerDuplicate
<1>3. ASSUME NEW d \in Deliveries, InsertEventJob(d) PROVE ServedInv'
    BY <1>3 DEF InsertEventJob
<1>4. ASSUME NEW d \in Deliveries, CrashDelivery(d) PROVE ServedInv'
    BY <1>4 DEF CrashDelivery
<1>5. ASSUME NEW f \in Workflows, Publish(f) PROVE ServedInv'
    BY <1>5 DEF Publish
<1>6. ASSUME NEW f \in Workflows, Disable(f) PROVE ServedInv'
    BY <1>6 DEF Disable
<1>7. ASSUME NEW k \in Workers, NEW d \in Deliveries, Claim(k, d) PROVE ServedInv'
    BY <1>7 DEF Claim
<1>8. ASSUME NEW k \in Workers, SelectWorkflows(k) PROVE ServedInv'
    BY <1>8 DEF SelectWorkflows, Selected
<1>9. ASSUME NEW k \in Workers, InsertExecution(k) PROVE ServedInv'
    BY <1>9 DEF InsertExecution
<1>10. ASSUME NEW k \in Workers, InsertJob(k) PROVE ServedInv'
  <2>1. \A d \in Deliveries, f \in Workflows : queued[d][f] > 0 => queued'[d][f] > 0
    BY <1>10 DEF InsertJob
  <2>2. pc'[k] = "next" => queued'[jobOf[k]][current[k]] > 0
    BY <1>10 DEF InsertJob
  <2> QED
    BY <1>10, <2>1, <2>2 DEF InsertJob
<1>11. ASSUME NEW k \in Workers, MarkProcessed(k) PROVE ServedInv'
  <2>1. \A f \in steady[jobOf[k]] : queued[jobOf[k]][f] > 0
    BY <1>11 DEF MarkProcessed
  <2> QED
    BY <1>11, <2>1 DEF MarkProcessed
<1>12. ASSUME NEW k \in Workers, CompleteJob(k) PROVE ServedInv'
    BY <1>12 DEF CompleteJob
<1>13. ASSUME NEW k \in Workers, CatchError(k) PROVE ServedInv'
    BY <1>13 DEF CatchError, CatchStatus
<1>14. ASSUME NEW k \in Workers, CrashWorker(k) PROVE ServedInv'
    BY <1>14 DEF CrashWorker
<1>15. CASE UNCHANGED vars
    BY <1>15 DEF vars
<1> QED
    BY <1>1, <1>2, <1>3, <1>4, <1>5, <1>6, <1>7, <1>8, <1>9, <1>10, <1>11, <1>12, <1>13,
       <1>14, <1>15 DEF Next, WorkerStep, Processing

\* However statements fail and workers crash, in an event marked processed each workflow
\* that was published from its arrival on has an execution with a job.
THEOREM ProcessedIsServed == Spec => []ServedWhenProcessed
<1>1. Init => TypeInv /\ ServedInv
    BY InitTypeInv, InitServedInv
<1>2. TypeInv /\ ServedInv /\ [Next]_vars => (TypeInv /\ ServedInv)'
    BY NextTypeInv, NextServedInv
<1>3. ServedInv => ServedWhenProcessed
    BY DEF ServedInv
<1> QED
    BY <1>1, <1>2, <1>3, PTL DEF Spec

-----------------------------------------------------------------------------
(* How often a delivered event starts a workflow *)

\* A job is held by one worker, and not claimable while it is held.
Held ==
    /\ \A k \in Workers : Busy(k) => jobStatus[jobOf[k]] \in {"running", "completed"}
    /\ \A k, m \in Workers : Busy(k) /\ Busy(m) /\ jobOf[k] = jobOf[m] => k = m

\* Nobody holds a job at first.
LEMMA InitHeld == Init => Held
BY DEF Init, Held, Busy

\* A claim takes a job that is queued, so one nobody holds.
LEMMA NextHeld == TypeInv /\ Held /\ [Next]_vars => Held'
<1> SUFFICES ASSUME TypeInv, Held, [Next]_vars PROVE Held'
    OBVIOUS
<1> USE IngestAssumption DEF TypeInv, TypeOK, AttemptsLeft, Held, Outcomes, Applied, Statement, Busy, rowVars,
        runVars, workVars, flowVars
<1>1. ASSUME NEW d \in Deliveries, InsertEvent(d) PROVE Held'
    BY <1>1 DEF InsertEvent, Stored
<1>2. ASSUME NEW d \in Deliveries, AnswerDuplicate(d) PROVE Held'
    BY <1>2 DEF AnswerDuplicate
<1>3. ASSUME NEW d \in Deliveries, InsertEventJob(d) PROVE Held'
    BY <1>3 DEF InsertEventJob
<1>4. ASSUME NEW d \in Deliveries, CrashDelivery(d) PROVE Held'
    BY <1>4 DEF CrashDelivery
<1>5. ASSUME NEW f \in Workflows, Publish(f) PROVE Held'
    BY <1>5 DEF Publish
<1>6. ASSUME NEW f \in Workflows, Disable(f) PROVE Held'
    BY <1>6 DEF Disable
<1>7. ASSUME NEW k \in Workers, NEW d \in Deliveries, Claim(k, d) PROVE Held'
    BY <1>7 DEF Claim
<1>8. ASSUME NEW k \in Workers, SelectWorkflows(k) PROVE Held'
    BY <1>8 DEF SelectWorkflows, Selected
<1>9. ASSUME NEW k \in Workers, InsertExecution(k) PROVE Held'
    BY <1>9 DEF InsertExecution
<1>10. ASSUME NEW k \in Workers, InsertJob(k) PROVE Held'
    BY <1>10 DEF InsertJob
<1>11. ASSUME NEW k \in Workers, MarkProcessed(k) PROVE Held'
    BY <1>11 DEF MarkProcessed
<1>12. ASSUME NEW k \in Workers, CompleteJob(k) PROVE Held'
    BY <1>12 DEF CompleteJob
<1>13. ASSUME NEW k \in Workers, CatchError(k) PROVE Held'
    BY <1>13 DEF CatchError, CatchStatus
<1>14. ASSUME NEW k \in Workers, CrashWorker(k) PROVE Held'
    BY <1>14 DEF CrashWorker
<1>15. CASE UNCHANGED vars
    BY <1>15 DEF vars
<1> QED
    BY <1>1, <1>2, <1>3, <1>4, <1>5, <1>6, <1>7, <1>8, <1>9, <1>10, <1>11, <1>12, <1>13,
       <1>14, <1>15 DEF Next, WorkerStep, Processing

\* The workflows a worker has still to start on its present attempt.
ToStart(k) ==
    CASE pc[k] = "select" -> Workflows
      [] pc[k] = "next" -> todo[k]
      [] pc[k] = "enqueue" -> todo[k] \ {current[k]}
      [] OTHER -> {}

\* Each attempt starts a workflow once at most.
OncePerAttempt ==
    /\ \A d \in Deliveries, f \in Workflows : execs[d][f] <= jobAttempts[d]
    /\ \A k \in Workers : \A f \in ToStart(k) : execs[jobOf[k]][f] < jobAttempts[jobOf[k]]

\* Nothing is started at first.
LEMMA InitOncePerAttempt == Init => OncePerAttempt
BY DEF Init, OncePerAttempt, ToStart

\* The loop uses an attempt up, workflow by workflow.
LEMMA NextOncePerAttempt == TypeInv /\ Held /\ OncePerAttempt /\ [Next]_vars => OncePerAttempt'
<1> SUFFICES ASSUME TypeInv, Held, OncePerAttempt, [Next]_vars PROVE OncePerAttempt'
    OBVIOUS
<1> USE IngestAssumption DEF TypeInv, TypeOK, AttemptsLeft, Held, OncePerAttempt, ToStart, Outcomes, Applied, Statement, Busy, rowVars,
        runVars, workVars, flowVars
<1>1. ASSUME NEW d \in Deliveries, InsertEvent(d) PROVE OncePerAttempt'
    BY <1>1 DEF InsertEvent, Stored
<1>2. ASSUME NEW d \in Deliveries, AnswerDuplicate(d) PROVE OncePerAttempt'
    BY <1>2 DEF AnswerDuplicate
<1>3. ASSUME NEW d \in Deliveries, InsertEventJob(d) PROVE OncePerAttempt'
    BY <1>3 DEF InsertEventJob
<1>4. ASSUME NEW d \in Deliveries, CrashDelivery(d) PROVE OncePerAttempt'
    BY <1>4 DEF CrashDelivery
<1>5. ASSUME NEW f \in Workflows, Publish(f) PROVE OncePerAttempt'
    BY <1>5 DEF Publish
<1>6. ASSUME NEW f \in Workflows, Disable(f) PROVE OncePerAttempt'
    BY <1>6 DEF Disable
<1>7. ASSUME NEW k \in Workers, NEW d \in Deliveries, Claim(k, d) PROVE OncePerAttempt'
  <2>1. /\ \A m \in Workers : Busy(m) => jobOf[m] # d
        /\ \A e \in Deliveries \ {d} : jobAttempts'[e] = jobAttempts[e]
        /\ jobAttempts'[d] = jobAttempts[d] \/ jobAttempts'[d] = jobAttempts[d] + 1
        /\ UNCHANGED <<execs, todo, current>>
    BY <1>7 DEF Claim
  <2>2. ASSUME NEW e \in Deliveries, NEW f \in Workflows PROVE execs'[e][f] <= jobAttempts'[e]
    <3>1. execs[e][f] \in Nat /\ jobAttempts[e] \in Nat /\ execs[e][f] <= jobAttempts[e]
      OBVIOUS
    <3>2. jobAttempts'[e] = jobAttempts[e] \/ jobAttempts'[e] = jobAttempts[e] + 1
      BY <2>1
    <3> QED
      BY <2>1, <3>1, <3>2
  <2>3. ASSUME NEW m \in Workers, NEW f \in ToStart(m)'
        PROVE  execs'[jobOf'[m]][f] < jobAttempts'[jobOf'[m]]
    <3>1. CASE m = k
      <4>1. /\ pc'[k] = "select" /\ jobOf'[k] = d /\ jobAttempts'[d] = jobAttempts[d] + 1
            /\ f \in Workflows
        BY <1>7, <3>1 DEF Claim
      <4> QED
        BY <2>1, <3>1, <4>1
    <3>2. CASE m # k
      <4>1. f \in ToStart(m) /\ Busy(m) /\ jobOf'[m] = jobOf[m]
        BY <1>7, <2>1, <3>2 DEF Claim
      <4> QED
        BY <2>1, <4>1
    <3> QED
      BY <3>1, <3>2
  <2> QED
    BY <2>2, <2>3
<1>8. ASSUME NEW k \in Workers, SelectWorkflows(k) PROVE OncePerAttempt'
    BY <1>8 DEF SelectWorkflows, Selected
<1>9. ASSUME NEW k \in Workers, InsertExecution(k) PROVE OncePerAttempt'
  <2>1. PICK f \in todo[k], o \in Outcomes :
            /\ Statement(pc, k, o, "enqueue", "catch")
            /\ execs' = IF Applied(o) THEN [execs EXCEPT ![jobOf[k]][f] = @ + 1] ELSE execs
            /\ current' = [current EXCEPT ![k] = f]
    BY <1>9 DEF InsertExecution
  <2>2. /\ pc[k] = "next" /\ f \in Workflows /\ jobOf[k] \in Deliveries
        /\ UNCHANGED <<jobAttempts, jobOf, todo>>
    BY <1>9 DEF InsertExecution
  <2>3. /\ \A d \in Deliveries, g \in Workflows : d # jobOf[k] \/ g # f => execs'[d][g] = execs[d][g]
        /\ execs'[jobOf[k]][f] \in {execs[jobOf[k]][f], execs[jobOf[k]][f] + 1}
    BY <2>1, <2>2
  <2>4. ASSUME NEW d \in Deliveries, NEW g \in Workflows PROVE execs'[d][g] <= jobAttempts[d]
    BY <2>2, <2>3
  <2>5. ASSUME NEW m \in Workers, NEW g \in ToStart(m)'
        PROVE  execs'[jobOf[m]][g] < jobAttempts[jobOf[m]]
    <3>1. CASE m = k
      <4>1. g \in todo[k] /\ g # f
        BY <2>1, <2>2, <3>1
      <4> QED
        BY <2>2, <2>3, <3>1, <4>1
    <3>2. CASE m # k
      <4>1. g \in ToStart(m) /\ Busy(m) /\ g \in Workflows
        BY <2>1, <2>2, <3>2
      <4>2. jobOf[m] # jobOf[k]
        BY <2>2, <3>2, <4>1
      <4> QED
        BY <2>3, <4>1, <4>2
    <3> QED
      BY <3>1, <3>2
  <2> QED
    BY <2>2, <2>4, <2>5
<1>10. ASSUME NEW k \in Workers, InsertJob(k) PROVE OncePerAttempt'
    BY <1>10 DEF InsertJob
<1>11. ASSUME NEW k \in Workers, MarkProcessed(k) PROVE OncePerAttempt'
    BY <1>11 DEF MarkProcessed
<1>12. ASSUME NEW k \in Workers, CompleteJob(k) PROVE OncePerAttempt'
    BY <1>12 DEF CompleteJob
<1>13. ASSUME NEW k \in Workers, CatchError(k) PROVE OncePerAttempt'
    BY <1>13 DEF CatchError, CatchStatus
<1>14. ASSUME NEW k \in Workers, CrashWorker(k) PROVE OncePerAttempt'
    BY <1>14 DEF CrashWorker
<1>15. CASE UNCHANGED vars
    BY <1>15 DEF vars
<1> QED
    BY <1>1, <1>2, <1>3, <1>4, <1>5, <1>6, <1>7, <1>8, <1>9, <1>10, <1>11, <1>12, <1>13,
       <1>14, <1>15 DEF Next, WorkerStep, Processing

\* Each attempt after the first follows a fault.
AttemptsAreFaults ==
    /\ \A d \in Deliveries : jobAttempts[d] <= 1 + faults
    /\ \A d \in Deliveries : jobStatus[d] = "queued" => jobAttempts[d] <= faults
    /\ \A k \in Workers : pc[k] = "catch" => jobAttempts[jobOf[k]] <= faults

\* Nothing is claimed at first.
LEMMA InitAttemptsAreFaults == Init => AttemptsAreFaults
BY DEF Init, AttemptsAreFaults

\* A job goes back to the queue from the catch alone, and a fault alone leads there.
LEMMA NextAttemptsAreFaults == TypeInv /\ Held /\ AttemptsAreFaults /\ [Next]_vars => AttemptsAreFaults'
<1> SUFFICES ASSUME TypeInv, Held, AttemptsAreFaults, [Next]_vars PROVE AttemptsAreFaults'
    OBVIOUS
<1> USE IngestAssumption DEF TypeInv, TypeOK, AttemptsLeft, Held, AttemptsAreFaults, Outcomes, Applied, Statement, Busy, rowVars,
        runVars, workVars, flowVars
<1>1. ASSUME NEW d \in Deliveries, InsertEvent(d) PROVE AttemptsAreFaults'
    BY <1>1 DEF InsertEvent, Stored
<1>2. ASSUME NEW d \in Deliveries, AnswerDuplicate(d) PROVE AttemptsAreFaults'
    BY <1>2 DEF AnswerDuplicate
<1>3. ASSUME NEW d \in Deliveries, InsertEventJob(d) PROVE AttemptsAreFaults'
    BY <1>3 DEF InsertEventJob
<1>4. ASSUME NEW d \in Deliveries, CrashDelivery(d) PROVE AttemptsAreFaults'
    BY <1>4 DEF CrashDelivery
<1>5. ASSUME NEW f \in Workflows, Publish(f) PROVE AttemptsAreFaults'
    BY <1>5 DEF Publish
<1>6. ASSUME NEW f \in Workflows, Disable(f) PROVE AttemptsAreFaults'
    BY <1>6 DEF Disable
<1>7. ASSUME NEW k \in Workers, NEW d \in Deliveries, Claim(k, d) PROVE AttemptsAreFaults'
  <2>1. /\ jobStatus[d] = "queued" /\ faults' \in Nat /\ faults <= faults'
        /\ \A e \in Deliveries \ {d} : UNCHANGED <<jobAttempts[e], jobStatus[e]>>
        /\ \/ UNCHANGED <<jobAttempts[d], jobStatus[d]>>
           \/ jobAttempts'[d] = jobAttempts[d] + 1 /\ jobStatus'[d] = "running"
    BY <1>7 DEF Claim
  <2>2. /\ \A m \in Workers : Busy(m) => jobOf[m] # d
        /\ \A m \in Workers : pc'[m] = "catch" => pc[m] = "catch" /\ jobOf'[m] = jobOf[m]
    BY <1>7 DEF Claim
  <2>3. /\ faults \in Nat /\ \A e \in Deliveries : jobAttempts[e] \in Nat
        /\ \A m \in Workers : jobOf[m] \in Deliveries
    OBVIOUS
  <2>4. ASSUME NEW e \in Deliveries
        PROVE  jobAttempts'[e] <= 1 + faults' /\ (jobStatus'[e] = "queued" => jobAttempts'[e] <= faults')
    <3>1. CASE e = d
      BY <2>1, <2>3, <3>1
    <3>2. CASE e # d
      BY <2>1, <2>3, <3>2
    <3> QED
      BY <3>1, <3>2
  <2>5. \A m \in Workers : pc'[m] = "catch" => jobAttempts'[jobOf'[m]] <= faults'
    BY <2>1, <2>2, <2>3
  <2> QED
    BY <2>4, <2>5
<1>8. ASSUME NEW k \in Workers, SelectWorkflows(k) PROVE AttemptsAreFaults'
    BY <1>8 DEF SelectWorkflows, Selected
<1>9. ASSUME NEW k \in Workers, InsertExecution(k) PROVE AttemptsAreFaults'
    BY <1>9 DEF InsertExecution
<1>10. ASSUME NEW k \in Workers, InsertJob(k) PROVE AttemptsAreFaults'
    BY <1>10 DEF InsertJob
<1>11. ASSUME NEW k \in Workers, MarkProcessed(k) PROVE AttemptsAreFaults'
    BY <1>11 DEF MarkProcessed
<1>12. ASSUME NEW k \in Workers, CompleteJob(k) PROVE AttemptsAreFaults'
    BY <1>12 DEF CompleteJob
<1>13. ASSUME NEW k \in Workers, CatchError(k) PROVE AttemptsAreFaults'
    BY <1>13 DEF CatchError, CatchStatus
<1>14. ASSUME NEW k \in Workers, CrashWorker(k) PROVE AttemptsAreFaults'
    BY <1>14 DEF CrashWorker
<1>15. CASE UNCHANGED vars
    BY <1>15 DEF vars
<1> QED
    BY <1>1, <1>2, <1>3, <1>4, <1>5, <1>6, <1>7, <1>8, <1>9, <1>10, <1>11, <1>12, <1>13,
       <1>14, <1>15 DEF Next, WorkerStep, Processing

\* One delivery of an external id has an event, and only an event starts a workflow.
OneEvent ==
    /\ \A d \in Deliveries : event[d] = "none" => \A f \in Workflows : execs[d][f] = 0
    /\ \A d, e \in Deliveries : IdOf[d] = IdOf[e] /\ event[d] # "none" /\ event[e] # "none" => d = e

\* There is no event at first.
LEMMA InitOneEvent == Init => OneEvent
BY DEF Init, OneEvent

\* The constraint on external ids admits one event of an id.
LEMMA NextOneEvent == TypeInv /\ EventFirst /\ OneEvent /\ [Next]_vars => OneEvent'
<1> SUFFICES ASSUME TypeInv, EventFirst, OneEvent, [Next]_vars PROVE OneEvent'
    OBVIOUS
<1> USE IngestAssumption DEF TypeInv, TypeOK, AttemptsLeft, EventFirst, OneEvent, Outcomes, Applied, Statement, Busy, rowVars,
        runVars, workVars, flowVars
<1>1. ASSUME NEW d \in Deliveries, InsertEvent(d) PROVE OneEvent'
    BY <1>1 DEF InsertEvent, Stored
<1>2. ASSUME NEW d \in Deliveries, AnswerDuplicate(d) PROVE OneEvent'
    BY <1>2 DEF AnswerDuplicate
<1>3. ASSUME NEW d \in Deliveries, InsertEventJob(d) PROVE OneEvent'
    BY <1>3 DEF InsertEventJob
<1>4. ASSUME NEW d \in Deliveries, CrashDelivery(d) PROVE OneEvent'
    BY <1>4 DEF CrashDelivery
<1>5. ASSUME NEW f \in Workflows, Publish(f) PROVE OneEvent'
    BY <1>5 DEF Publish
<1>6. ASSUME NEW f \in Workflows, Disable(f) PROVE OneEvent'
    BY <1>6 DEF Disable
<1>7. ASSUME NEW k \in Workers, NEW d \in Deliveries, Claim(k, d) PROVE OneEvent'
    BY <1>7 DEF Claim
<1>8. ASSUME NEW k \in Workers, SelectWorkflows(k) PROVE OneEvent'
    BY <1>8 DEF SelectWorkflows, Selected
<1>9. ASSUME NEW k \in Workers, InsertExecution(k) PROVE OneEvent'
    BY <1>9 DEF InsertExecution
<1>10. ASSUME NEW k \in Workers, InsertJob(k) PROVE OneEvent'
    BY <1>10 DEF InsertJob
<1>11. ASSUME NEW k \in Workers, MarkProcessed(k) PROVE OneEvent'
    BY <1>11 DEF MarkProcessed
<1>12. ASSUME NEW k \in Workers, CompleteJob(k) PROVE OneEvent'
    BY <1>12 DEF CompleteJob
<1>13. ASSUME NEW k \in Workers, CatchError(k) PROVE OneEvent'
    BY <1>13 DEF CatchError, CatchStatus
<1>14. ASSUME NEW k \in Workers, CrashWorker(k) PROVE OneEvent'
    BY <1>14 DEF CrashWorker
<1>15. CASE UNCHANGED vars
    BY <1>15 DEF vars
<1> QED
    BY <1>1, <1>2, <1>3, <1>4, <1>5, <1>6, <1>7, <1>8, <1>9, <1>10, <1>11, <1>12, <1>13,
       <1>14, <1>15 DEF Next, WorkerStep, Processing

\* A job is inserted only for an execution that has none, and that is there.
Paired ==
    /\ \A d \in Deliveries, f \in Workflows : queued[d][f] <= execs[d][f]
    /\ \A k \in Workers : pc[k] = "enqueue" =>
        current[k] \in todo[k] /\ queued[jobOf[k]][current[k]] < execs[jobOf[k]][current[k]]

\* Nothing is started at first.
LEMMA InitPaired == Init => Paired
BY DEF Init, Paired

\* The statements come in pairs: an execution, then its job.
LEMMA NextPaired == TypeInv /\ Held /\ Paired /\ [Next]_vars => Paired'
<1> SUFFICES ASSUME TypeInv, Held, Paired, [Next]_vars PROVE Paired'
    OBVIOUS
<1> USE IngestAssumption DEF TypeInv, TypeOK, AttemptsLeft, Held, Paired, Outcomes, Applied, Statement, Busy, rowVars,
        runVars, workVars, flowVars
<1>1. ASSUME NEW d \in Deliveries, InsertEvent(d) PROVE Paired'
    BY <1>1 DEF InsertEvent, Stored
<1>2. ASSUME NEW d \in Deliveries, AnswerDuplicate(d) PROVE Paired'
    BY <1>2 DEF AnswerDuplicate
<1>3. ASSUME NEW d \in Deliveries, InsertEventJob(d) PROVE Paired'
    BY <1>3 DEF InsertEventJob
<1>4. ASSUME NEW d \in Deliveries, CrashDelivery(d) PROVE Paired'
    BY <1>4 DEF CrashDelivery
<1>5. ASSUME NEW f \in Workflows, Publish(f) PROVE Paired'
    BY <1>5 DEF Publish
<1>6. ASSUME NEW f \in Workflows, Disable(f) PROVE Paired'
    BY <1>6 DEF Disable
<1>7. ASSUME NEW k \in Workers, NEW d \in Deliveries, Claim(k, d) PROVE Paired'
    BY <1>7 DEF Claim
<1>8. ASSUME NEW k \in Workers, SelectWorkflows(k) PROVE Paired'
    BY <1>8 DEF SelectWorkflows, Selected
<1>9. ASSUME NEW k \in Workers, InsertExecution(k) PROVE Paired'
  <2>1. PICK f \in todo[k], o \in Outcomes :
            /\ Statement(pc, k, o, "enqueue", "catch")
            /\ execs' = IF Applied(o) THEN [execs EXCEPT ![jobOf[k]][f] = @ + 1] ELSE execs
            /\ current' = [current EXCEPT ![k] = f]
    BY <1>9 DEF InsertExecution
  <2>2. /\ pc[k] = "next" /\ f \in Workflows /\ jobOf[k] \in Deliveries
        /\ UNCHANGED <<queued, jobOf, todo>>
    BY <1>9 DEF InsertExecution
  <2>3. /\ \A d \in Deliveries, g \in Workflows : execs'[d][g] = execs[d][g] \/ execs'[d][g] = execs[d][g] + 1
        /\ pc'[k] = "enqueue" => execs'[jobOf[k]][f] = execs[jobOf[k]][f] + 1
    BY <2>1, <2>2
  <2>4. ASSUME NEW d \in Deliveries, NEW g \in Workflows PROVE queued[d][g] <= execs'[d][g]
    <3>1. queued[d][g] \in Nat /\ execs[d][g] \in Nat /\ queued[d][g] <= execs[d][g]
      OBVIOUS
    <3>2. execs'[d][g] = execs[d][g] \/ execs'[d][g] = execs[d][g] + 1
      BY <2>3
    <3> QED
      BY <3>1, <3>2
  <2>5. ASSUME NEW m \in Workers, pc'[m] = "enqueue"
        PROVE  current'[m] \in todo[m] /\ queued[jobOf[m]][current'[m]] < execs'[jobOf[m]][current'[m]]
    <3>1. CASE m = k
      BY <2>1, <2>2, <2>3, <2>5, <3>1
    <3>2. CASE m # k
      <4>1. pc[m] = "enqueue" /\ current'[m] = current[m] /\ current[m] \in Workflows /\ jobOf[m] \in Deliveries
        BY <2>1, <2>5, <3>2
      <4>2. /\ queued[jobOf[m]][current[m]] \in Nat /\ execs[jobOf[m]][current[m]] \in Nat
            /\ queued[jobOf[m]][current[m]] < execs[jobOf[m]][current[m]] /\ current[m] \in todo[m]
        BY <4>1
      <4>3. \/ execs'[jobOf[m]][current[m]] = execs[jobOf[m]][current[m]]
            \/ execs'[jobOf[m]][current[m]] = execs[jobOf[m]][current[m]] + 1
        BY <2>3, <4>1
      <4> QED
        BY <4>1, <4>2, <4>3
    <3> QED
      BY <3>1, <3>2
  <2> QED
    BY <2>2, <2>4, <2>5
<1>10. ASSUME NEW k \in Workers, InsertJob(k) PROVE Paired'
  <2>1. pc[k] = "enqueue" /\ jobOf[k] \in Deliveries /\ current[k] \in Workflows
        /\ UNCHANGED <<execs, jobOf, current>>
    BY <1>10 DEF InsertJob
  <2>2. /\ \A d \in Deliveries, f \in Workflows :
                d # jobOf[k] \/ f # current[k] => queued'[d][f] = queued[d][f]
        /\ \/ queued'[jobOf[k]][current[k]] = queued[jobOf[k]][current[k]]
           \/ queued'[jobOf[k]][current[k]] = queued[jobOf[k]][current[k]] + 1
    BY <1>10 DEF InsertJob
  <2>3. ASSUME NEW d \in Deliveries, NEW f \in Workflows PROVE queued'[d][f] <= execs[d][f]
    <3>1. queued[d][f] \in Nat /\ execs[d][f] \in Nat /\ queued[d][f] <= execs[d][f]
      OBVIOUS
    <3>2. CASE d = jobOf[k] /\ f = current[k]
      <4>1. queued[d][f] < execs[d][f]
        BY <2>1, <3>2
      <4> QED
        BY <2>2, <3>1, <3>2, <4>1
    <3>3. CASE ~(d = jobOf[k] /\ f = current[k])
      BY <2>2, <3>1, <3>3
    <3> QED
      BY <3>2, <3>3
  <2>4. ASSUME NEW m \in Workers, pc'[m] = "enqueue"
        PROVE  /\ m # k /\ pc[m] = "enqueue" /\ todo'[m] = todo[m] /\ jobOf[m] # jobOf[k]
               /\ current[m] \in Workflows /\ jobOf[m] \in Deliveries
    <3>1. pc'[k] # "enqueue"
      BY <1>10 DEF InsertJob
    <3>2. m # k
      BY <2>4, <3>1
    <3>3. pc[m] = "enqueue" /\ todo'[m] = todo[m]
      BY <1>10, <2>4, <3>2 DEF InsertJob
    <3>4. jobOf[m] # jobOf[k]
      BY <2>1, <3>2, <3>3
    <3> QED
      BY <3>2, <3>3, <3>4
  <2>5. ASSUME NEW m \in Workers, pc'[m] = "enqueue"
        PROVE  current[m] \in todo'[m] /\ queued'[jobOf[m]][current[m]] < execs[jobOf[m]][current[m]]
    BY <2>2, <2>4, <2>5
  <2> QED
    BY <2>1, <2>3, <2>5
<1>11. ASSUME NEW k \in Workers, MarkProcessed(k) PROVE Paired'
    BY <1>11 DEF MarkProcessed
<1>12. ASSUME NEW k \in Workers, CompleteJob(k) PROVE Paired'
    BY <1>12 DEF CompleteJob
<1>13. ASSUME NEW k \in Workers, CatchError(k) PROVE Paired'
    BY <1>13 DEF CatchError, CatchStatus
<1>14. ASSUME NEW k \in Workers, CrashWorker(k) PROVE Paired'
    BY <1>14 DEF CrashWorker
<1>15. CASE UNCHANGED vars
    BY <1>15 DEF vars
<1> QED
    BY <1>1, <1>2, <1>3, <1>4, <1>5, <1>6, <1>7, <1>8, <1>9, <1>10, <1>11, <1>12, <1>13,
       <1>14, <1>15 DEF Next, WorkerStep, Processing

\* Executions beyond the jobs are accounted for.
Accounted ==
    /\ IsFiniteSet(Jobless) /\ IsFiniteSet(Enqueuing)
    /\ Cardinality(Jobless) <= faults + crashes + Cardinality(Enqueuing)

\* Nothing is started at first.
LEMMA InitAccounted == Init => Accounted
<1> SUFFICES ASSUME Init PROVE Accounted
    OBVIOUS
<1>1. Jobless = {} /\ Enqueuing = {}
    BY IngestAssumption DEF Init, Jobless, Enqueuing
<1> QED
    BY <1>1, FS_EmptySet DEF Init, Accounted

\* Executions and their jobs are as many as before, and so are the workers between the two.
LEMMA Unmoved ==
    ASSUME TypeInv, Accounted, UNCHANGED runVars, Enqueuing' = Enqueuing,
           faults' \in Nat, crashes' \in Nat, faults <= faults', crashes <= crashes'
    PROVE  Accounted'
<1>1. Jobless' = Jobless
    BY DEF Jobless, runVars
<1>2. Cardinality(Jobless) \in Nat /\ Cardinality(Enqueuing) \in Nat
    BY FS_CardinalityType DEF Accounted
<1> QED
    BY <1>1, <1>2 DEF Accounted, TypeInv, TypeOK

\* An execution more is one a worker is about to give a job, or one a fault or a crash has left.
LEMMA NextAccounted == TypeInv /\ OncePerAttempt /\ Paired /\ Accounted /\ [Next]_vars => Accounted'
<1> SUFFICES ASSUME TypeInv, OncePerAttempt, Paired, Accounted, [Next]_vars PROVE Accounted'
    OBVIOUS
<1> USE IngestAssumption
<1>1. ASSUME NEW d \in Deliveries, InsertEvent(d) PROVE Accounted'
  <2>1. /\ UNCHANGED runVars /\ Enqueuing' = Enqueuing
        /\ faults' \in Nat /\ crashes' \in Nat /\ faults <= faults' /\ crashes <= crashes'
    BY <1>1 DEF InsertEvent, TypeInv, TypeOK, Enqueuing, Outcomes, Statement, rowVars, runVars, workVars, flowVars
  <2> QED
    BY Unmoved, <2>1
<1>2. ASSUME NEW d \in Deliveries, AnswerDuplicate(d) PROVE Accounted'
  <2>1. /\ UNCHANGED runVars /\ Enqueuing' = Enqueuing
        /\ faults' \in Nat /\ crashes' \in Nat /\ faults <= faults' /\ crashes <= crashes'
    BY <1>2 DEF AnswerDuplicate, TypeInv, TypeOK, Enqueuing, Outcomes, Statement, rowVars, runVars, workVars, flowVars
  <2> QED
    BY Unmoved, <2>1
<1>3. ASSUME NEW d \in Deliveries, InsertEventJob(d) PROVE Accounted'
  <2>1. /\ UNCHANGED runVars /\ Enqueuing' = Enqueuing
        /\ faults' \in Nat /\ crashes' \in Nat /\ faults <= faults' /\ crashes <= crashes'
    BY <1>3 DEF InsertEventJob, TypeInv, TypeOK, Enqueuing, Outcomes, Statement, rowVars, runVars, workVars, flowVars
  <2> QED
    BY Unmoved, <2>1
<1>4. ASSUME NEW d \in Deliveries, CrashDelivery(d) PROVE Accounted'
  <2>1. /\ UNCHANGED runVars /\ Enqueuing' = Enqueuing
        /\ faults' \in Nat /\ crashes' \in Nat /\ faults <= faults' /\ crashes <= crashes'
    BY <1>4 DEF CrashDelivery, TypeInv, TypeOK, Enqueuing, Outcomes, Statement, rowVars, runVars, workVars, flowVars
  <2> QED
    BY Unmoved, <2>1
<1>5. ASSUME NEW f \in Workflows, Publish(f) PROVE Accounted'
  <2>1. /\ UNCHANGED runVars /\ Enqueuing' = Enqueuing
        /\ faults' \in Nat /\ crashes' \in Nat /\ faults <= faults' /\ crashes <= crashes'
    BY <1>5 DEF Publish, TypeInv, TypeOK, Enqueuing, Outcomes, Statement, rowVars, runVars, workVars, flowVars
  <2> QED
    BY Unmoved, <2>1
<1>6. ASSUME NEW f \in Workflows, Disable(f) PROVE Accounted'
  <2>1. /\ UNCHANGED runVars /\ Enqueuing' = Enqueuing
        /\ faults' \in Nat /\ crashes' \in Nat /\ faults <= faults' /\ crashes <= crashes'
    BY <1>6 DEF Disable, TypeInv, TypeOK, Enqueuing, Outcomes, Statement, rowVars, runVars, workVars, flowVars
  <2> QED
    BY Unmoved, <2>1
<1>7. ASSUME NEW k \in Workers, NEW d \in Deliveries, Claim(k, d) PROVE Accounted'
  <2>1. /\ UNCHANGED runVars /\ Enqueuing' = Enqueuing
        /\ faults' \in Nat /\ crashes' \in Nat /\ faults <= faults' /\ crashes <= crashes'
    BY <1>7 DEF Claim, TypeInv, TypeOK, Enqueuing, Outcomes, Statement, rowVars, runVars, workVars, flowVars
  <2> QED
    BY Unmoved, <2>1
<1>8. ASSUME NEW k \in Workers, SelectWorkflows(k) PROVE Accounted'
  <2>1. /\ UNCHANGED runVars /\ Enqueuing' = Enqueuing
        /\ faults' \in Nat /\ crashes' \in Nat /\ faults <= faults' /\ crashes <= crashes'
    BY <1>8 DEF SelectWorkflows, TypeInv, TypeOK, Enqueuing, Outcomes, Statement, rowVars, runVars, workVars, flowVars
  <2> QED
    BY Unmoved, <2>1
<1>9. ASSUME NEW k \in Workers, InsertExecution(k) PROVE Accounted'
  <2>1. PICK f \in todo[k], o \in Outcomes :
            /\ Statement(pc, k, o, "enqueue", "catch")
            /\ execs' = IF Applied(o) THEN [execs EXCEPT ![jobOf[k]][f] = @ + 1] ELSE execs
    BY <1>9 DEF InsertExecution
  <2>2. /\ pc[k] = "next" /\ f \in Workflows /\ jobOf[k] \in Deliveries
        /\ UNCHANGED <<queued, crashes>>
    BY <1>9 DEF InsertExecution, TypeInv, TypeOK
  <2> DEFINE x == <<jobOf[k], f, execs[jobOf[k]][f] + 1>>
  <2>3. Jobless' \subseteq Jobless \cup {x}
    <3> SUFFICES ASSUME NEW d \in Deliveries, NEW g \in Workflows, NEW n \in 1..MaxAttempts,
                        queued[d][g] < n, n <= execs'[d][g]
                 PROVE  <<d, g, n>> \in Jobless \cup {x}
      BY <2>2 DEF Jobless
    <3>1. CASE n <= execs[d][g]
      BY <3>1 DEF Jobless
    <3>2. CASE ~(n <= execs[d][g])
      <4>1. /\ execs[d][g] \in Nat /\ n \in Int
            /\ execs'[d][g] = IF Applied(o) /\ d = jobOf[k] /\ g = f THEN execs[d][g] + 1 ELSE execs[d][g]
        BY IngestAssumption, <2>1, <2>2 DEF TypeInv, TypeOK
      <4>2. d = jobOf[k] /\ g = f /\ n = execs[d][g] + 1
        BY <3>2, <4>1
      <4> QED
        BY <4>2
    <3> QED
      BY <3>1, <3>2
  <2>4. /\ IsFiniteSet(Jobless') /\ Cardinality(Jobless') <= Cardinality(Jobless) + 1
        /\ Cardinality(Jobless) \in Nat /\ Cardinality(Jobless') \in Nat
    <3> HIDE DEF x
    <3>1. IsFiniteSet(Jobless) /\ Cardinality(Jobless) \in Nat
      BY FS_CardinalityType DEF Accounted
    <3>2. /\ IsFiniteSet(Jobless \cup {x})
          /\ Cardinality(Jobless \cup {x}) =
                IF x \in Jobless THEN Cardinality(Jobless) ELSE Cardinality(Jobless) + 1
      BY <3>1, FS_AddElement
    <3>3. IsFiniteSet(Jobless') /\ Cardinality(Jobless') <= Cardinality(Jobless \cup {x})
      BY <2>3, <3>2, FS_Subset
    <3>4. Cardinality(Jobless') \in Nat
      BY <3>3, FS_CardinalityType
    <3> QED
      BY <3>1, <3>2, <3>3, <3>4
  <2>5. k \notin Enqueuing /\ Cardinality(Enqueuing) \in Nat /\ IsFiniteSet(Enqueuing)
    BY <2>2, FS_CardinalityType DEF Enqueuing, Accounted
  <2>6. CASE o = "ok"
    <3>1. Enqueuing' = Enqueuing \cup {k} /\ faults' = faults
      BY <2>1, <2>2, <2>6 DEF Enqueuing, Statement, TypeInv, TypeOK
    <3>2. IsFiniteSet(Enqueuing') /\ Cardinality(Enqueuing') = Cardinality(Enqueuing) + 1
      BY <2>5, <3>1, FS_AddElement
    <3> QED
      BY <2>2, <2>4, <2>5, <3>1, <3>2 DEF Accounted, TypeInv, TypeOK
  <2>7. CASE o # "ok"
    <3>1. Enqueuing' = Enqueuing /\ faults' = faults + 1
      BY <2>1, <2>2, <2>7 DEF Enqueuing, Statement, TypeInv, TypeOK
    <3> QED
      BY <2>2, <2>4, <2>5, <3>1 DEF Accounted, TypeInv, TypeOK
  <2> QED
    BY <2>6, <2>7
<1>10. ASSUME NEW k \in Workers, InsertJob(k) PROVE Accounted'
  <2>1. PICK o \in Outcomes :
            /\ Statement(pc, k, o, "next", "catch")
            /\ queued' = IF Applied(o) THEN [queued EXCEPT ![jobOf[k]][current[k]] = @ + 1] ELSE queued
    BY <1>10 DEF InsertJob
  <2>2. /\ pc[k] = "enqueue" /\ current[k] \in Workflows /\ jobOf[k] \in Deliveries
        /\ UNCHANGED <<execs, crashes>>
    BY <1>10 DEF InsertJob, TypeInv, TypeOK
  <2>3. /\ Enqueuing' = Enqueuing \ {k} /\ k \in Enqueuing
        /\ faults' = IF o = "ok" THEN faults ELSE faults + 1
    BY <2>1, <2>2 DEF Enqueuing, Statement, TypeInv, TypeOK
  <2>4. /\ IsFiniteSet(Enqueuing') /\ Cardinality(Enqueuing') = Cardinality(Enqueuing) - 1
        /\ Cardinality(Enqueuing) \in Nat /\ Cardinality(Jobless) \in Nat
    BY <2>3, FS_RemoveElement, FS_CardinalityType DEF Accounted
  <2>5. CASE ~Applied(o)
    <3>1. Jobless' = Jobless /\ o # "ok"
      BY <2>1, <2>2, <2>5 DEF Jobless, Applied
    <3> QED
      BY <2>2, <2>3, <2>4, <3>1 DEF Accounted, TypeInv, TypeOK
  <2>6. CASE Applied(o)
    <3> DEFINE x == <<jobOf[k], current[k], queued[jobOf[k]][current[k]] + 1>>
    <3>1. Jobless' = Jobless \ {x}
      <4>1. /\ queued'[jobOf[k]][current[k]] = queued[jobOf[k]][current[k]] + 1
            /\ \A d \in Deliveries, f \in Workflows :
                    d # jobOf[k] \/ f # current[k] => queued'[d][f] = queued[d][f]
            /\ \A d \in Deliveries, f \in Workflows : queued[d][f] \in Nat /\ execs[d][f] \in Nat
        BY <2>1, <2>2, <2>6 DEF TypeInv, TypeOK
      <4>2. ASSUME NEW d \in Deliveries, NEW f \in Workflows, NEW n \in 1..MaxAttempts
            PROVE  queued'[d][f] < n <=> queued[d][f] < n /\ <<d, f, n>> # x
        <5>1. queued[d][f] \in Nat /\ n \in Nat
          BY <4>1
        <5>2. CASE d = jobOf[k] /\ f = current[k]
          <6>1. queued'[d][f] = queued[d][f] + 1 /\ (<<d, f, n>> = x <=> n = queued[d][f] + 1)
            BY <4>1, <5>2
          <6> QED
            BY <5>1, <6>1
        <5>3. CASE ~(d = jobOf[k] /\ f = current[k])
          BY <4>1, <5>1, <5>3
        <5> QED
          BY <5>2, <5>3
      <4> HIDE DEF x
      <4> QED
        BY <2>2, <4>2 DEF Jobless
    <3>2. x \in Jobless
      <4>1. queued[jobOf[k]][current[k]] < execs[jobOf[k]][current[k]]
            /\ execs[jobOf[k]][current[k]] <= jobAttempts[jobOf[k]]
            /\ jobAttempts[jobOf[k]] \in 0..MaxAttempts
        BY <2>2 DEF Paired, OncePerAttempt, TypeInv, TypeOK
      <4> QED
        BY IngestAssumption, <2>2, <4>1 DEF Jobless, TypeInv, TypeOK
    <3> HIDE DEF x
    <3>3. IsFiniteSet(Jobless') /\ Cardinality(Jobless') = Cardinality(Jobless) - 1
      BY <3>1, <3>2, FS_RemoveElement DEF Accounted
    <3> QED
      BY <2>2, <2>3, <2>4, <3>3 DEF Accounted, TypeInv, TypeOK
  <2> QED
    BY <2>5, <2>6
<1>11. ASSUME NEW k \in Workers, MarkProcessed(k) PROVE Accounted'
  <2>1. /\ UNCHANGED runVars /\ Enqueuing' = Enqueuing
        /\ faults' \in Nat /\ crashes' \in Nat /\ faults <= faults' /\ crashes <= crashes'
    BY <1>11 DEF MarkProcessed, TypeInv, TypeOK, Enqueuing, Outcomes, Statement, rowVars, runVars, workVars, flowVars
  <2> QED
    BY Unmoved, <2>1
<1>12. ASSUME NEW k \in Workers, CompleteJob(k) PROVE Accounted'
  <2>1. /\ UNCHANGED runVars /\ Enqueuing' = Enqueuing
        /\ faults' \in Nat /\ crashes' \in Nat /\ faults <= faults' /\ crashes <= crashes'
    BY <1>12 DEF CompleteJob, TypeInv, TypeOK, Enqueuing, Outcomes, Statement, rowVars, runVars, workVars, flowVars
  <2> QED
    BY Unmoved, <2>1
<1>13. ASSUME NEW k \in Workers, CatchError(k) PROVE Accounted'
  <2>1. /\ UNCHANGED runVars /\ Enqueuing' = Enqueuing
        /\ faults' \in Nat /\ crashes' \in Nat /\ faults <= faults' /\ crashes <= crashes'
    BY <1>13 DEF CatchError, TypeInv, TypeOK, Enqueuing, Outcomes, Statement, rowVars, runVars, workVars, flowVars
  <2> QED
    BY Unmoved, <2>1
<1>14. ASSUME NEW k \in Workers, CrashWorker(k) PROVE Accounted'
  <2>1. /\ UNCHANGED <<runVars, faults>> /\ Enqueuing' = Enqueuing \ {k} /\ crashes' = crashes + 1
    BY <1>14 DEF CrashWorker, TypeInv, TypeOK, Enqueuing, runVars
  <2>2. IsFiniteSet(Enqueuing') /\ Cardinality(Enqueuing') >= Cardinality(Enqueuing) - 1
        /\ Cardinality(Enqueuing) \in Nat /\ Cardinality(Enqueuing') \in Nat /\ Cardinality(Jobless) \in Nat
    <3>1. IsFiniteSet(Enqueuing) /\ Cardinality(Enqueuing) \in Nat /\ Cardinality(Jobless) \in Nat
      BY FS_CardinalityType DEF Accounted
    <3>2. /\ IsFiniteSet(Enqueuing \ {k})
          /\ Cardinality(Enqueuing \ {k}) =
                IF k \in Enqueuing THEN Cardinality(Enqueuing) - 1 ELSE Cardinality(Enqueuing)
      BY <3>1, FS_RemoveElement
    <3>3. Cardinality(Enqueuing \ {k}) \in Nat
      BY <3>2, FS_CardinalityType
    <3> QED
      BY <2>1, <3>1, <3>2, <3>3
  <2>3. Jobless' = Jobless
    BY <2>1 DEF Jobless, runVars
  <2> QED
    BY <2>1, <2>2, <2>3 DEF Accounted, TypeInv, TypeOK
<1>15. CASE UNCHANGED vars
  <2>1. /\ UNCHANGED runVars /\ Enqueuing' = Enqueuing
        /\ faults' \in Nat /\ crashes' \in Nat /\ faults <= faults' /\ crashes <= crashes'
    BY <1>15 DEF vars, TypeInv, TypeOK, Enqueuing, Outcomes, Statement, rowVars, runVars, workVars, flowVars
  <2> QED
    BY Unmoved, <2>1
<1> QED
    BY <1>1, <1>2, <1>3, <1>4, <1>5, <1>6, <1>7, <1>8, <1>9, <1>10, <1>11, <1>12, <1>13,
       <1>14, <1>15 DEF Next, WorkerStep, Processing

-----------------------------------------------------------------------------
FanoutInv ==
    /\ Held /\ OncePerAttempt /\ AttemptsAreFaults /\ OneEvent /\ Paired /\ Accounted

\* However often an event is delivered, however statements fail and workers crash: one delivery
\* of it starts its workflows, each once and once more for each fault at most, and within
\* max_attempts; executions without a job are at most as many as the faults and crashes, but for
\* those a worker is about to insert.
THEOREM FanoutIsBounded == Spec => []FanoutBounded
<1>1. Init => TypeInv /\ ServedInv /\ FanoutInv
    BY InitTypeInv, InitServedInv, InitHeld, InitOncePerAttempt, InitAttemptsAreFaults,
       InitOneEvent, InitPaired, InitAccounted DEF FanoutInv
<1>2. TypeInv /\ ServedInv /\ FanoutInv /\ [Next]_vars => (TypeInv /\ ServedInv /\ FanoutInv)'
    BY NextTypeInv, NextServedInv, NextHeld, NextOncePerAttempt, NextAttemptsAreFaults,
       NextOneEvent, NextPaired, NextAccounted DEF FanoutInv, ServedInv
<1>3. TypeInv /\ FanoutInv => FanoutBounded
  <2> SUFFICES ASSUME TypeInv, FanoutInv PROVE FanoutBounded
    OBVIOUS
  <2>1. ASSUME NEW d \in Deliveries, NEW f \in Workflows
        PROVE  /\ execs[d][f] <= 1 + faults /\ execs[d][f] <= MaxAttempts
               /\ execs[d][f] > 0 => event[d] # "none"
    BY IngestAssumption DEF FanoutInv, OncePerAttempt, AttemptsAreFaults, OneEvent, TypeInv, TypeOK
  <2> QED
    BY <2>1 DEF FanoutInv, OneEvent, Accounted, FanoutBounded
<1> QED
    BY <1>1, <1>2, <1>3, PTL DEF Spec

=============================================================================
