------------------------------ MODULE Scheduler ------------------------------
(***************************************************************************)
(* SchedulerEngine: schedule, cancel and dispatchDue, which hands the      *)
(* tasks of due schedules to QueueWorkerEngine.enqueue.  Like the queue,   *)
(* the scheduler works on copies: dispatchDue takes copies of all          *)
(* schedules when it is called and saves them one after another, and every *)
(* other operation is a find and a later save.  Nothing keeps two runs of  *)
(* dispatchDue, or a run and a cancel, from overlapping.                   *)
(***************************************************************************)
EXTENDS Naturals

CONSTANTS
    Ids,           \* schedule ids
    TaskOf,        \* the taskId of each schedule
    Dispatchers,   \* callers of dispatchDue
    Callers,       \* callers of schedule and cancel; each makes one call
    None,          \* no schedule
    MaxFailures,   \* bound: repository calls and event handlers that fail in dispatchDue
    MaxCrashes     \* bound: crashes of a dispatcher's process

Tasks == {TaskOf[i] : i \in Ids}

ASSUME SchedulerAssumption ==
    /\ None \notin Ids
    /\ DOMAIN TaskOf = Ids
    /\ MaxFailures \in Nat /\ MaxCrashes \in Nat

VARIABLES
    sched,      \* the stored status of each schedule ("none": no record)
    due,        \* schedules whose runAt has come
    queue,      \* the stored status of each task's queue record ("none": no record)
    pc,         \* where each dispatcher is in the body of dispatchDue's loop
    left,       \* schedules its copies show as due and scheduled, still to be visited
    current,    \* the schedule it is at, or None between two of them
    seen,       \* the queue status its enqueue has found ("none" at any other point)
    call,       \* what each caller has found
    given,      \* history: enqueue calls that returned, per schedule
    overlapped, \* history: runs of dispatchDue, or calls of schedule, were in flight at once
    failures, crashes

loopVars == <<pc, left, current, seen>>
vars == <<sched, due, queue, pc, left, current, seen, call, given, overlapped, failures, crashes>>

\* A call is over, or holds the id it has found no record, or a record, of.
Calls == [op : {"none", "done"}] \cup [op : {"schedule", "cancel"}, id : Ids]

Init ==
    /\ sched \in [Ids -> {"none", "scheduled"}]
    /\ due = {}
    /\ queue = [t \in Tasks |-> "none"]
    /\ pc = [d \in Dispatchers |-> "idle"]
    /\ left = [d \in Dispatchers |-> {}]
    /\ current = [d \in Dispatchers |-> None]
    /\ seen = [d \in Dispatchers |-> "none"]
    /\ call = [c \in Callers |-> [op |-> "none"]]
    /\ given = [i \in Ids |-> 0]
    /\ overlapped = FALSE
    /\ failures = 0
    /\ crashes = 0

Save(i, status) == sched' = [sched EXCEPT ![i] = status]

-----------------------------------------------------------------------------
(* schedule and cancel *)

ScheduleFind(c, i) ==
    /\ call[c].op = "none"
    /\ sched[i] = "none"      \* else SCHEDULE_EXISTS
    /\ call' = [call EXCEPT ![c] = [op |-> "schedule", id |-> i]]
    /\ overlapped' = (overlapped \/ \E b \in Callers : call[b].op = "schedule")
    /\ UNCHANGED <<sched, due, queue, loopVars, given, failures, crashes>>

ScheduleSave(c) ==
    /\ call[c].op = "schedule"
    /\ Save(call[c].id, "scheduled")
    /\ call' = [call EXCEPT ![c] = [op |-> "done"]]
    /\ UNCHANGED <<due, queue, loopVars, given, overlapped, failures, crashes>>

Cancellable(status) == status \notin {"none", "dispatched"}

CancelFind(c, i) ==
    /\ call[c].op = "none"
    /\ Cancellable(sched[i])
    /\ call' = [call EXCEPT ![c] = [op |-> "cancel", id |-> i]]
    /\ UNCHANGED <<sched, due, queue, loopVars, given, overlapped, failures, crashes>>

CancelSave(c) ==
    /\ call[c].op = "cancel"
    /\ Save(call[c].id, "cancelled")
    /\ call' = [call EXCEPT ![c] = [op |-> "done"]]
    /\ UNCHANGED <<due, queue, loopVars, given, overlapped, failures, crashes>>

-----------------------------------------------------------------------------
(* dispatchDue *)

\* Mutant: a run picks up everything that is not dispatched yet.
PickedAny(i) == sched[i] \notin {"none", "dispatched"} /\ i \in due

\* What a run visits, of the copies it takes of all schedules.
Picked(i) == sched[i] = "scheduled" /\ i \in due

\* all('schedule'), up to the first schedule to visit.
Start(d) ==
    /\ pc[d] = "idle"
    /\ \E i \in Ids : Picked(i)
    /\ left' = [left EXCEPT ![d] = {i \in Ids : Picked(i)}]
    /\ pc' = [pc EXCEPT ![d] = "next"]
    /\ overlapped' = (overlapped \/ \E e \in Dispatchers : pc[e] # "idle")
    /\ UNCHANGED <<sched, due, queue, current, seen, call, given, failures, crashes>>

\* The next schedule is saved as dispatching.
Take(d) ==
    /\ pc[d] = "next"
    /\ \E i \in left[d] :
        /\ Save(i, "dispatching")
        /\ current' = [current EXCEPT ![d] = i]
        /\ left' = [left EXCEPT ![d] = @ \ {i}]
    /\ pc' = [pc EXCEPT ![d] = "find"]
    /\ UNCHANGED <<due, queue, seen, call, given, overlapped, failures, crashes>>

\* enqueue(): what it finds, and what it saves if it has to.
QueueFind(d) ==
    /\ pc[d] = "find"
    /\ seen' = [seen EXCEPT ![d] = queue[TaskOf[current[d]]]]
    /\ pc' = [pc EXCEPT ![d] = "enqueue"]
    /\ UNCHANGED <<sched, due, queue, left, current, call, given, overlapped, failures, crashes>>

\* Mutant: a task without a record passes for one that is queued.
EnqueuedUnlessDone(status) == status # "completed"

\* The statuses with which enqueue leaves the record it finds alone.
Enqueued(status) == status \in {"queued", "processing"}

Enqueue(d) ==
    /\ pc[d] = "enqueue"
    /\ queue' = IF Enqueued(seen[d]) THEN queue
                ELSE [queue EXCEPT ![TaskOf[current[d]]] = "queued"]
    /\ given' = [given EXCEPT ![current[d]] = @ + 1]
    /\ seen' = [seen EXCEPT ![d] = "none"]
    /\ pc' = [pc EXCEPT ![d] = "mark"]
    /\ UNCHANGED <<sched, due, left, current, call, overlapped, failures, crashes>>

Mark(d) ==
    /\ pc[d] = "mark"
    /\ Save(current[d], "dispatched")
    /\ pc' = [pc EXCEPT ![d] = "publish"]
    /\ UNCHANGED <<due, queue, left, current, seen, call, given, overlapped, failures, crashes>>

\* Mutant: a run ends after its first schedule.
AfterFirst(d) == "idle"

\* Where a run goes on when a schedule is done with.
After(d) == IF left[d] = {} THEN "idle" ELSE "next"

Publish(d) ==
    /\ pc[d] = "publish"
    /\ pc' = [pc EXCEPT ![d] = After(d)]
    /\ current' = [current EXCEPT ![d] = None]
    /\ UNCHANGED <<sched, due, queue, left, seen, call, given, overlapped, failures, crashes>>

\* The run ends here: nothing of it is left.
EndRun(d) ==
    /\ pc' = [pc EXCEPT ![d] = "idle"]
    /\ left' = [left EXCEPT ![d] = {}]
    /\ current' = [current EXCEPT ![d] = None]
    /\ seen' = [seen EXCEPT ![d] = "none"]

CountFailure ==
    /\ failures < MaxFailures
    /\ failures' = failures + 1

\* The first save of a visit is outside the try: its rejection ends the run.
TakeFails(d) ==
    /\ pc[d] = "next"
    /\ CountFailure
    /\ EndRun(d)
    /\ UNCHANGED <<sched, due, queue, call, given, overlapped, crashes>>

\* An error inside the try: of enqueue, of the save, or of a handler of the event.
Fail(d) ==
    /\ pc[d] \in {"find", "enqueue", "mark", "publish"}
    /\ CountFailure
    /\ pc' = [pc EXCEPT ![d] = "restore"]
    /\ seen' = [seen EXCEPT ![d] = "none"]
    /\ UNCHANGED <<sched, due, queue, left, current, call, given, overlapped, crashes>>

\* Mutant: the schedule stays as it is when its dispatch fails.
RestoredNot(i) == sched[i]

\* The status the catch clause saves before it throws the error on.
Restored(i) == "scheduled"

Restore(d) ==
    /\ pc[d] = "restore"
    /\ \/ Save(current[d], Restored(current[d])) /\ UNCHANGED failures
       \/ CountFailure /\ UNCHANGED sched
    /\ EndRun(d)
    /\ UNCHANGED <<due, queue, call, given, overlapped, crashes>>

-----------------------------------------------------------------------------
(* Surroundings *)

\* Time passes the runAt of a schedule.
Elapse(i) ==
    /\ i \notin due
    /\ due' = due \cup {i}
    /\ UNCHANGED <<sched, queue, loopVars, call, given, overlapped, failures, crashes>>

\* A worker takes a queued task and completes it.
Work(t) ==
    /\ queue[t] \in {"queued", "processing"}
    /\ queue' = [queue EXCEPT ![t] = IF @ = "queued" THEN "processing" ELSE "completed"]
    /\ UNCHANGED <<sched, due, loopVars, call, given, overlapped, failures, crashes>>

Crash(d) ==
    /\ pc[d] # "idle"
    /\ crashes < MaxCrashes
    /\ crashes' = crashes + 1
    /\ EndRun(d)
    /\ UNCHANGED <<sched, due, queue, call, given, overlapped, failures>>

-----------------------------------------------------------------------------
Visit(d) == Take(d) \/ QueueFind(d) \/ Enqueue(d) \/ Mark(d) \/ Publish(d) \/ Restore(d)

Dispatch(d) == Start(d) \/ Visit(d)

Next ==
    \/ \E d \in Dispatchers : Dispatch(d) \/ TakeFails(d) \/ Fail(d) \/ Crash(d)
    \/ \E c \in Callers : (\E i \in Ids : ScheduleFind(c, i) \/ CancelFind(c, i))
                          \/ ScheduleSave(c) \/ CancelSave(c)
    \/ \E i \in Ids : Elapse(i)
    \/ \E t \in Tasks : Work(t)

Spec == Init /\ [][Next]_vars

\* dispatchDue is called again and again, and its runs go on.
Fairness == \A d \in Dispatchers : WF_vars(Dispatch(d))

FairSpec == Spec /\ Fairness

-----------------------------------------------------------------------------
(* Properties *)

\* Statuses are those of the engines, and the loop of dispatchDue never goes on with
\* nothing left to visit, nor ends with something left.
TypeOK ==
    /\ sched \in [Ids -> {"none", "scheduled", "cancelled", "dispatching", "dispatched"}]
    /\ due \subseteq Ids
    /\ queue \in [Tasks -> {"none", "queued", "processing", "completed"}]
    /\ pc \in [Dispatchers -> {"idle", "next", "find", "enqueue", "mark", "publish", "restore"}]
    /\ left \in [Dispatchers -> SUBSET Ids]
    /\ \A d \in Dispatchers : /\ pc[d] = "next" => left[d] # {}
                             /\ pc[d] = "idle" => left[d] = {}
    /\ current \in [Dispatchers -> Ids \cup {None}]
    /\ \A d \in Dispatchers : current[d] = None <=> pc[d] \in {"idle", "next"}
    /\ seen \in [Dispatchers -> {"none", "queued", "processing", "completed"}]
    /\ call \in [Callers -> Calls]
    /\ given \in [Ids -> Nat]
    /\ overlapped \in BOOLEAN
    /\ failures \in 0..MaxFailures
    /\ crashes \in 0..MaxCrashes

\* A schedule that says dispatched has had its task accepted by the queue, however
\* runs, cancels, failures and crashes overlap.
DispatchedWasQueued ==
    \A i \in Ids : sched[i] = "dispatched" => given[i] > 0 /\ queue[TaskOf[i]] # "none"

\* Apart from overlapping runs a schedule is handed to the queue once, and once more
\* for each failure that put it back: crashes and cancels never add to that.
QueuedOnce ==
    \A i \in Ids : ~overlapped => given[i] <= 1 + failures

\* No run of dispatchDue and no call of schedule still has something to save for i.
Untouched(i) ==
    /\ \A d \in Dispatchers : i \notin left[d] /\ i # current[d]
    /\ \A c \in Callers : call[c].op = "schedule" => call[c].id # i

\* A cancelled schedule can only come back through what was under way when it was
\* cancelled: once no run holds a copy of it, no later run touches it, and it stays
\* cancelled for good.
CancelHolds ==
    [][\A i \in Ids : LET final == sched[i] = "cancelled" /\ Untouched(i) IN final => final']_vars

\* A due schedule is dispatched or cancelled in the end, although one step of its
\* dispatch, or of the dispatch of another schedule before it, fails.
EventuallyDispatched ==
    \A i \in Ids : sched[i] = "scheduled" /\ i \in due ~>
        sched[i] \in {"dispatched", "cancelled"} \/ failures > 1 \/ crashes > 0

=============================================================================
