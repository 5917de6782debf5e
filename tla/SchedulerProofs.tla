--------------------------- MODULE SchedulerProofs ---------------------------
(***************************************************************************)
(* TLAPS proofs about Scheduler, for any schedules, tasks, dispatchers and *)
(* callers and any number of failures and crashes.                         *)
(***************************************************************************)
EXTENDS Scheduler, TLAPS

USE DEF loopVars

\* No run of dispatchDue and no call is under way at first.
LEMMA InitTypeOK == Init => TypeOK
<1> SUFFICES ASSUME Init PROVE TypeOK
  OBVIOUS
<1>1. call \in [Callers -> Calls]
  BY DEF Init, Calls
<1>2. /\ sched \in [Ids -> {"none", "scheduled", "cancelled", "dispatching", "dispatched"}]
      /\ queue \in [Tasks -> {"none", "queued", "processing", "completed"}]
      /\ given \in [Ids -> Nat] /\ overlapped \in BOOLEAN
  BY DEF Init
<1>3. /\ pc \in [Dispatchers -> {"idle", "next", "find", "enqueue", "mark", "publish", "restore"}]
      /\ left \in [Dispatchers -> SUBSET Ids]
      /\ current \in [Dispatchers -> Ids \cup {None}]
      /\ seen \in [Dispatchers -> {"none", "queued", "processing", "completed"}]
  BY DEF Init
<1>4. \A d \in Dispatchers : pc[d] = "idle" /\ left[d] = {} /\ current[d] = None
  BY DEF Init
<1>5. due \subseteq Ids /\ failures \in 0..MaxFailures /\ crashes \in 0..MaxCrashes
  BY SchedulerAssumption DEF Init
<1> QED
  BY <1>1, <1>2, <1>3, <1>4, <1>5 DEF TypeOK

\* Every repository access, failure and crash keeps the loop and the records well typed.
LEMMA NextTypeOK == TypeOK /\ [Next]_vars => TypeOK'
<1> SUFFICES ASSUME TypeOK, [Next]_vars PROVE TypeOK'
  OBVIOUS
<1> USE SchedulerAssumption DEF TypeOK, Save
<1>1. ASSUME NEW d \in Dispatchers, Start(d) PROVE TypeOK'
  BY <1>1 DEF Start, Picked
<1>2. ASSUME NEW d \in Dispatchers, Take(d) PROVE TypeOK'
  BY <1>2 DEF Take
<1>3. ASSUME NEW d \in Dispatchers, QueueFind(d) PROVE TypeOK'
  BY <1>3 DEF QueueFind, Tasks
<1>4. ASSUME NEW d \in Dispatchers, Enqueue(d) PROVE TypeOK'
  BY <1>4 DEF Enqueue, Tasks
<1>5. ASSUME NEW d \in Dispatchers, Mark(d) PROVE TypeOK'
  BY <1>5 DEF Mark
<1>6. ASSUME NEW d \in Dispatchers, Publish(d) PROVE TypeOK'
  BY <1>6 DEF Publish, After
<1>7. ASSUME NEW d \in Dispatchers, Restore(d) PROVE TypeOK'
  BY <1>7 DEF Restore, Restored, EndRun, CountFailure
<1>8. ASSUME NEW d \in Dispatchers, TakeFails(d) \/ Fail(d) PROVE TypeOK'
  BY <1>8 DEF TakeFails, Fail, EndRun, CountFailure
<1>9. ASSUME NEW d \in Dispatchers, Crash(d) PROVE TypeOK'
  BY <1>9 DEF Crash, EndRun
<1>10. ASSUME NEW c \in Callers, NEW i \in Ids, ScheduleFind(c, i) \/ CancelFind(c, i)
       PROVE TypeOK'
  <2>1. call' \in [Callers -> Calls]
    BY <1>10 DEF ScheduleFind, CancelFind, Calls
  <2>2. overlapped' \in BOOLEAN
    BY <1>10 DEF ScheduleFind, CancelFind
  <2> QED
    BY <1>10, <2>1, <2>2 DEF ScheduleFind, CancelFind
<1>11. ASSUME NEW c \in Callers, ScheduleSave(c) \/ CancelSave(c) PROVE TypeOK'
  <2>1. call' \in [Callers -> Calls]
    BY <1>11 DEF ScheduleSave, CancelSave, Calls
  <2>2. sched' \in [Ids -> {"none", "scheduled", "cancelled", "dispatching", "dispatched"}]
    BY <1>11 DEF ScheduleSave, CancelSave
  <2> QED
    BY <1>11, <2>1, <2>2 DEF ScheduleSave, CancelSave
<1>12. ASSUME NEW i \in Ids, Elapse(i) PROVE TypeOK'
  BY <1>12 DEF Elapse
<1>13. ASSUME NEW t \in Tasks, Work(t) PROVE TypeOK'
  BY <1>13 DEF Work
<1>14. CASE UNCHANGED vars
  BY <1>14 DEF vars
<1> QED
  BY <1>1, <1>2, <1>3, <1>4, <1>5, <1>6, <1>7, <1>8, <1>9, <1>10, <1>11, <1>12, <1>13, <1>14
  DEF Next, Dispatch, Visit

\* TypeOK holds in every reachable state.
THEOREM TypeCorrect == Spec => []TypeOK
  BY InitTypeOK, NextTypeOK, PTL DEF Spec

-----------------------------------------------------------------------------
(* What says dispatched was queued *)

\* The queue has taken the task of i at least once.
Given(i) == given[i] > 0 /\ queue[TaskOf[i]] # "none"

\* A run that is past its enqueue has had it accepted, and an enqueue that will leave
\* the queue alone has found the record there.
DispatchInv ==
    /\ DispatchedWasQueued
    /\ \A d \in Dispatchers : pc[d] \in {"mark", "publish"} => Given(current[d])
    /\ \A d \in Dispatchers : Enqueued(seen[d]) /\ pc[d] = "enqueue"
                                => queue[TaskOf[current[d]]] # "none"

\* Nothing is dispatched at first.
LEMMA InitDispatchInv == Init => DispatchInv
  BY SchedulerAssumption DEF Init, DispatchInv, DispatchedWasQueued

\* What the queue has taken stays taken.
LEMMA GivenStays ==
    ASSUME TypeOK, [Next]_vars, NEW i \in Ids
    PROVE  /\ Given(i) => Given(i)'
           /\ queue[TaskOf[i]] # "none" => queue'[TaskOf[i]] # "none"
<1> USE SchedulerAssumption DEF TypeOK, Given
<1>1. ASSUME NEW d \in Dispatchers, Enqueue(d)
      PROVE  /\ \A j \in Ids : given'[j] >= given[j]
             /\ \A t \in Tasks : queue[t] # "none" => queue'[t] # "none"
  BY <1>1 DEF Enqueue, Tasks
<1>2. ASSUME NEW t \in Tasks, Work(t)
      PROVE  UNCHANGED given /\ \A u \in Tasks : queue[u] # "none" => queue'[u] # "none"
  BY <1>2 DEF Work
<1>3. CASE UNCHANGED <<given, queue>>
  BY <1>3
<1>4. TaskOf[i] \in Tasks
  BY DEF Tasks
<1>5. CASE \E d \in Dispatchers : Enqueue(d)
  <2>1. given'[i] >= given[i] /\ (queue[TaskOf[i]] # "none" => queue'[TaskOf[i]] # "none")
    BY <1>1, <1>4, <1>5
  <2>2. given[i] \in Nat /\ given'[i] \in Nat
    BY <1>5 DEF Enqueue
  <2> QED
    BY <2>1, <2>2
<1>6. CASE \E t \in Tasks : Work(t)
  BY <1>2, <1>4, <1>6
<1> QED
  BY <1>3, <1>5, <1>6
  DEF Next, vars, Dispatch, Visit, Start, Take, QueueFind, Mark, Publish, Restore, TakeFails, Fail,
      Crash, ScheduleFind, CancelFind, ScheduleSave, CancelSave, Elapse

\* Each step of a run keeps what it knows of the queue, and only Mark, which follows
\* an enqueue, writes dispatched.
LEMMA NextDispatchInv == TypeOK /\ DispatchInv /\ [Next]_vars => DispatchInv'
<1> SUFFICES ASSUME TypeOK, DispatchInv, [Next]_vars PROVE DispatchInv'
  OBVIOUS
<1> USE SchedulerAssumption
<1>1. ASSUME NEW i \in Ids, sched'[i] = "dispatched" PROVE Given(i)'
  <2>1. CASE sched[i] = "dispatched"
    BY <2>1, GivenStays DEF DispatchInv, DispatchedWasQueued, Given
  <2>2. CASE sched[i] # "dispatched"
    <3>1. PICK d \in Dispatchers : Mark(d) /\ current[d] = i
      BY <1>1, <2>2
      DEF TypeOK, Save, Next, vars, Dispatch, Visit, Start, Take, QueueFind, Enqueue, Mark, Publish,
          Restore, Restored, TakeFails, Fail, Crash, ScheduleFind, CancelFind, ScheduleSave,
          CancelSave, Elapse, Work
    <3>2. Given(i)
      BY <3>1 DEF DispatchInv, Mark
    <3> QED
      BY <3>2, GivenStays
  <2> QED
    BY <2>1, <2>2
<1>2. ASSUME NEW d \in Dispatchers, pc'[d] \in {"mark", "publish"} PROVE Given(current[d])'
  <2>1. CASE Enqueue(d)
    <3>1. /\ current[d] \in Ids /\ TaskOf[current[d]] \in Tasks
          /\ UNCHANGED current /\ given'[current[d]] = given[current[d]] + 1
          /\ given[current[d]] \in Nat
      BY <2>1 DEF Enqueue, TypeOK, Tasks
    <3>2. queue'[TaskOf[current[d]]] # "none"
      BY <2>1, <3>1 DEF Enqueue, TypeOK, DispatchInv
    <3> QED
      BY <3>1, <3>2 DEF Given
  <2>2. CASE ~Enqueue(d)
    <3>1. current'[d] = current[d] /\ pc[d] \in {"mark", "publish"}
      BY <1>2, <2>2
      DEF TypeOK, Next, vars, Dispatch, Visit, Start, Take, QueueFind, Enqueue, Mark, Publish, After,
          Restore, TakeFails, Fail, Crash, EndRun, ScheduleFind, CancelFind, ScheduleSave, CancelSave,
          Elapse, Work
    <3>2. Given(current[d]) /\ current[d] \in Ids
      BY <3>1 DEF DispatchInv, TypeOK
    <3> QED
      BY <3>1, <3>2, GivenStays DEF Given
  <2> QED
    BY <2>1, <2>2
<1>3. ASSUME NEW d \in Dispatchers, Enqueued(seen[d])', pc'[d] = "enqueue"
      PROVE queue'[TaskOf[current'[d]]] # "none"
  <2>1. CASE QueueFind(d)
    BY <1>3, <2>1 DEF QueueFind, Enqueued, TypeOK
  <2>2. CASE ~QueueFind(d)
    <3>1. current'[d] = current[d] /\ seen'[d] = seen[d] /\ pc[d] = "enqueue"
      BY <1>3, <2>2
      DEF TypeOK, Next, vars, Dispatch, Visit, Start, Take, QueueFind, Enqueue, Mark, Publish, After,
          Restore, TakeFails, Fail, Crash, EndRun, ScheduleFind, CancelFind, ScheduleSave, CancelSave,
          Elapse, Work
    <3>2. queue[TaskOf[current[d]]] # "none" /\ current[d] \in Ids
      BY <1>3, <3>1 DEF DispatchInv, TypeOK, Enqueued
    <3> QED
      BY <3>1, <3>2, GivenStays
  <2> QED
    BY <2>1, <2>2
<1> QED
  BY <1>1, <1>2, <1>3 DEF DispatchInv, DispatchedWasQueued, Given

\* A schedule that says dispatched has had its task accepted by the queue.
THEOREM DispatchIsBacked == Spec => []DispatchedWasQueued
<1>1. DispatchInv => DispatchedWasQueued
  BY DEF DispatchInv
<1> QED
  BY <1>1, TypeCorrect, InitDispatchInv, NextDispatchInv, PTL DEF Spec

-----------------------------------------------------------------------------
(* Cancelled for good *)

\* No step of a run or of a call brings back a cancelled schedule that none of those
\* under way holds.
LEMMA CancelledStays ==
    ASSUME TypeOK, Next, NEW i \in Ids, sched[i] = "cancelled", Untouched(i)
    PROVE  sched'[i] = "cancelled" /\ Untouched(i)'
<1> USE SchedulerAssumption DEF TypeOK, Untouched, Save
<1>1. ASSUME NEW d \in Dispatchers, Start(d) PROVE sched'[i] = "cancelled" /\ Untouched(i)'
  BY <1>1 DEF Start, Picked
<1>2. ASSUME NEW d \in Dispatchers, Take(d) PROVE sched'[i] = "cancelled" /\ Untouched(i)'
  BY <1>2 DEF Take
<1>3. ASSUME NEW d \in Dispatchers, QueueFind(d) \/ Enqueue(d) \/ Mark(d) \/ Publish(d)
      PROVE sched'[i] = "cancelled" /\ Untouched(i)'
  BY <1>3 DEF QueueFind, Enqueue, Mark, Publish
<1>4. ASSUME NEW d \in Dispatchers, Restore(d) \/ TakeFails(d) \/ Fail(d) \/ Crash(d)
      PROVE sched'[i] = "cancelled" /\ Untouched(i)'
  BY <1>4 DEF Restore, TakeFails, Fail, Crash, EndRun
<1>5. ASSUME NEW c \in Callers, NEW j \in Ids, ScheduleFind(c, j) \/ CancelFind(c, j)
      PROVE sched'[i] = "cancelled" /\ Untouched(i)'
  <2>1. /\ UNCHANGED <<sched, left, current>>
        /\ \A b \in Callers \ {c} : call'[b] = call[b]
    BY <1>5 DEF ScheduleFind, CancelFind
  <2>2. call'[c].op = "schedule" => call'[c].id # i
    BY <1>5 DEF ScheduleFind, CancelFind, Calls
  <2> QED
    BY <2>1, <2>2
<1>6. ASSUME NEW c \in Callers, ScheduleSave(c) \/ CancelSave(c)
      PROVE sched'[i] = "cancelled" /\ Untouched(i)'
  <2>1. /\ UNCHANGED <<left, current>> /\ sched'[i] = "cancelled"
        /\ \A b \in Callers \ {c} : call'[b] = call[b]
    BY <1>6 DEF ScheduleSave, CancelSave
  <2>2. call'[c].op # "schedule"
    BY <1>6 DEF ScheduleSave, CancelSave
  <2> QED
    BY <2>1, <2>2
<1>7. ASSUME UNCHANGED <<sched, left, current, call>>
      PROVE sched'[i] = "cancelled" /\ Untouched(i)'
  BY <1>7
<1> QED
  BY <1>1, <1>2, <1>3, <1>4, <1>5, <1>6, <1>7 DEF Next, Dispatch, Visit, Elapse, Work

\* Once no run and no call holds a copy of it, a cancelled schedule is cancelled for
\* good, whatever later runs of dispatchDue, failures and crashes there are.
THEOREM CancelsHold == Spec => CancelHolds
<1>1. ASSUME TypeOK, [Next]_vars
      PROVE  [\A i \in Ids : LET final == sched[i] = "cancelled" /\ Untouched(i)
                             IN final => final']_vars
  <2>1. CASE Next
    BY <1>1, <2>1, CancelledStays
  <2>2. CASE UNCHANGED vars
    BY <2>2
  <2> QED
    BY <1>1, <2>1, <2>2
<1> QED
  BY <1>1, TypeCorrect, PTL DEF Spec, CancelHolds

-----------------------------------------------------------------------------
(* Handed to the queue once *)

\* A schedule that may be handed to the queue once more without another failure: it is not
\* taken yet, or its run has not enqueued it, or is about to put it back.
Owed(i) ==
    \/ sched[i] \in {"none", "scheduled"}
    \/ \E d \in Dispatchers :
        i \in left[d] \/ (current[d] = i /\ pc[d] \in {"find", "enqueue", "restore"})

\* As long as runs have not overlapped, one dispatcher is at work, and one call of schedule,
\* whose record is not there yet; what a run holds exists, and what it is at is not
\* scheduled any more.
Apart ==
    /\ \A d, e \in Dispatchers : d # e => pc[d] = "idle" \/ pc[e] = "idle"
    /\ \A c \in Callers : call[c].op = "schedule" =>
        /\ sched[call[c].id] = "none"
        /\ \A b \in Callers \ {c} : call[b].op # "schedule"
    /\ \A c \in Callers : call[c].op = "cancel" => sched[call[c].id] # "none"
    /\ \A d \in Dispatchers, i \in Ids :
        /\ i \in left[d] => sched[i] # "none"
        /\ current[d] = i => sched[i] \notin {"none", "scheduled"} /\ i \notin left[d]

Handed ==
    \A i \in Ids : given[i] <= 1 + failures /\ (Owed(i) => given[i] <= failures)

OnceInv == ~overlapped => Apart /\ Handed

\* Nothing has been handed over at first.
LEMMA InitOnceInv == Init => OnceInv
  BY SchedulerAssumption DEF Init, OnceInv, Apart, Handed

\* Each handing over uses up what is owed, and only a failure makes it owed again.
LEMMA NextOnceInv == TypeOK /\ OnceInv /\ [Next]_vars => OnceInv'
<1> SUFFICES ASSUME TypeOK, OnceInv, [Next]_vars, ~overlapped' PROVE (Apart /\ Handed)'
  BY DEF OnceInv
<1>1. ~overlapped
  BY DEF TypeOK, Next, vars, Dispatch, Visit, Start, Take, QueueFind, Enqueue, Mark, Publish, Restore,
         TakeFails, Fail, Crash, ScheduleFind, CancelFind, ScheduleSave, CancelSave, Elapse, Work
<1>2. Apart /\ Handed
  BY <1>1 DEF OnceInv
<1>2a. \A c \in Callers : call[c].op \in {"schedule", "cancel"} => call[c].id \in Ids
  BY DEF TypeOK, Calls
<1> USE SchedulerAssumption DEF TypeOK, Apart, Handed, Owed, Save
<1>3. ASSUME NEW d \in Dispatchers, Start(d) PROVE (Apart /\ Handed)'
  <2>1. \A e \in Dispatchers : pc[e] = "idle" /\ left[e] = {} /\ current[e] = None
    BY <1>3 DEF Start
  <2>2. /\ UNCHANGED <<sched, call, given, failures, current>>
        /\ left'[d] = {i \in Ids : Picked(i)} /\ pc'[d] = "next"
        /\ \A e \in Dispatchers \ {d} : left'[e] = left[e] /\ pc'[e] = pc[e]
    BY <1>3 DEF Start
  <2>3. Apart'
    BY <1>2, <2>1, <2>2 DEF Picked
  <2>4. Handed'
    BY <1>2, <2>1, <2>2 DEF Picked
  <2> QED
    BY <2>3, <2>4
<1>4. ASSUME NEW d \in Dispatchers, Take(d) PROVE (Apart /\ Handed)'
  BY <1>2, <1>4 DEF Take
<1>5. ASSUME NEW d \in Dispatchers, QueueFind(d) PROVE (Apart /\ Handed)'
  BY <1>2, <1>5 DEF QueueFind
<1>6. ASSUME NEW d \in Dispatchers, Enqueue(d) PROVE (Apart /\ Handed)'
  BY <1>2, <1>6 DEF Enqueue
<1>7. ASSUME NEW d \in Dispatchers, Mark(d) PROVE (Apart /\ Handed)'
  BY <1>2, <1>7 DEF Mark
<1>8. ASSUME NEW d \in Dispatchers, Publish(d) PROVE (Apart /\ Handed)'
  BY <1>2, <1>8 DEF Publish, After
<1>9. ASSUME NEW d \in Dispatchers, Restore(d) PROVE (Apart /\ Handed)'
  <2> DEFINE j == current[d]
  <2>1. /\ j \in Ids /\ pc[d] = "restore" /\ UNCHANGED <<call, given>>
        /\ pc'[d] = "idle" /\ left'[d] = {} /\ current'[d] = None
        /\ \A e \in Dispatchers \ {d} : pc'[e] = pc[e] /\ left'[e] = left[e] /\ current'[e] = current[e]
        /\ \A i \in Ids \ {j} : sched'[i] = sched[i]
        /\ sched'[j] \in {sched[j], "scheduled"}
        /\ failures' \in {failures, failures + 1}
    BY <1>9 DEF Restore, Restored, EndRun, CountFailure
  <2>2. \A e \in Dispatchers \ {d} : pc[e] = "idle" /\ left[e] = {} /\ current[e] = None
    BY <1>2, <2>1
  <2>3. sched[j] # "none" /\ given[j] <= failures
    BY <1>2, <2>1
  <2>4. Apart'
    BY <1>2, <1>2a, <2>1, <2>2, <2>3
  <2>5. \A i \in Ids : given'[i] \in Nat /\ failures \in Nat /\ (Owed(i)' => Owed(i))
    BY <2>1, <2>2
  <2>6. Handed'
    <3> HIDE DEF Owed
    <3> QED
      BY <1>2, <2>1, <2>5
  <2> QED
    BY <2>4, <2>6
<1>10. ASSUME NEW d \in Dispatchers, TakeFails(d) PROVE (Apart /\ Handed)'
  BY <1>2, <1>10 DEF TakeFails, EndRun, CountFailure
<1>11. ASSUME NEW d \in Dispatchers, Fail(d) PROVE (Apart /\ Handed)'
  BY <1>2, <1>11 DEF Fail, CountFailure
<1>12. ASSUME NEW d \in Dispatchers, Crash(d) PROVE (Apart /\ Handed)'
  BY <1>2, <1>12 DEF Crash, EndRun
<1>13. ASSUME NEW c \in Callers, NEW i \in Ids, ScheduleFind(c, i) PROVE (Apart /\ Handed)'
  <2>1. /\ UNCHANGED <<sched, pc, left, current, given, failures>> /\ sched[i] = "none"
        /\ \A b \in Callers : call[b].op # "schedule"
        /\ \A b \in Callers \ {c} : call'[b] = call[b]
        /\ call'[c].op = "schedule" /\ call'[c].id = i
    BY <1>13 DEF ScheduleFind, loopVars, Calls
  <2> QED
    BY <1>2, <2>1
<1>14. ASSUME NEW c \in Callers, NEW i \in Ids, CancelFind(c, i) PROVE (Apart /\ Handed)'
  <2>1. /\ UNCHANGED <<sched, pc, left, current, given, failures>> /\ sched[i] # "none"
        /\ \A b \in Callers \ {c} : call'[b] = call[b]
        /\ call'[c].op = "cancel" /\ call'[c].id = i
    BY <1>14 DEF CancelFind, Cancellable, loopVars, Calls
  <2> QED
    BY <1>2, <2>1
<1>15. ASSUME NEW c \in Callers, ScheduleSave(c) PROVE (Apart /\ Handed)'
  BY <1>2, <1>15 DEF ScheduleSave, loopVars, Calls
<1>16. ASSUME NEW c \in Callers, CancelSave(c) PROVE (Apart /\ Handed)'
  <2> DEFINE j == call[c].id
  <2>1. /\ UNCHANGED <<pc, left, current, given, failures>> /\ j \in Ids /\ call[c].op = "cancel"
        /\ \A b \in Callers \ {c} : call'[b] = call[b]
        /\ call'[c].op = "done"
        /\ \A i \in Ids \ {j} : sched'[i] = sched[i]
        /\ sched'[j] = "cancelled"
    BY <1>16 DEF CancelSave, loopVars, Calls
  <2>2. sched[j] # "none"
    BY <1>2, <2>1
  <2>3. Apart'
    BY <1>2, <1>2a, <2>1, <2>2
  <2>4. Handed'
    BY <1>2, <2>1
  <2> QED
    BY <2>3, <2>4
<1>17. CASE UNCHANGED <<sched, loopVars, call, given, failures>>
  BY <1>2, <1>17 DEF loopVars
<1> QED
  BY <1>3, <1>4, <1>5, <1>6, <1>7, <1>8, <1>9, <1>10, <1>11, <1>12, <1>13, <1>14, <1>15, <1>16, <1>17
  DEF Next, vars, Dispatch, Visit, Elapse, Work, loopVars

\* Apart from overlapping runs a schedule is handed to the queue once, and once more for
\* each failure, whatever crashes and cancels there are.
THEOREM HandedOverOnce == Spec => []QueuedOnce
<1>1. OnceInv => QueuedOnce
  BY DEF OnceInv, Handed, QueuedOnce
<1> QED
  BY <1>1, TypeCorrect, InitOnceInv, NextOnceInv, PTL DEF Spec

=============================================================================
