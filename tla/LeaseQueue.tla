----------------------------- MODULE LeaseQueue -----------------------------
(***************************************************************************)
(* The provider-neutral task queue: QueueWorkerEngine (enqueue, claim,     *)
(* heartbeat, complete, retry, reclaimExpired) as it is driven by          *)
(* DistributedWorkerRuntime.process, and WorkflowEngine.completeTask,      *)
(* which it calls.  The repository hands out copies, so every operation is *)
(* a find and, some turns of the event loop later, a save of the whole     *)
(* record that was found; what other workers wrote meanwhile is lost.      *)
(* A check and the save that follows it are one step (the repository's     *)
(* save takes effect when it is called).                                   *)
(***************************************************************************)
EXTENDS Naturals

CONSTANTS
    Tasks,
    Slots,         \* concurrent process() calls: a runtime of concurrency c has c slots
    WorkerIds,
    IdOf,          \* the workerId of the runtime each slot belongs to
    Callers,       \* independent callers of enqueue and of reclaimExpired
    NoWorker,      \* workerId: null
    LeaseMs,       \* length of a lease, in ticks of the clock
    Heartbeats,    \* whether handlers outlive heartbeatIntervalMs
    CrashPoints,   \* where in process() a runtime may crash
    FailPoints,    \* where a handler may throw or a repository call fail
    MaxTime,       \* bound: ticks of the clock
    MaxFailures,   \* bound: handlers that throw and repository calls that fail
    MaxCrashes,    \* bound: crashes of a runtime
    CrashTime,     \* bound: no runtime crashes after this time
    AttemptCap     \* bound: the attempt counter is not followed above this value

ASSUME QueueAssumption ==
    /\ Tasks # {}
    /\ IdOf \in [Slots -> WorkerIds]
    /\ NoWorker \notin WorkerIds
    /\ LeaseMs \in Nat \ {0}
    /\ Heartbeats \in BOOLEAN /\ "idle" \notin FailPoints
    /\ MaxTime \in Nat /\ MaxFailures \in Nat /\ MaxCrashes \in Nat /\ CrashTime \in Nat
    /\ AttemptCap \in Nat \ {0}

VARIABLES
    item,       \* the stored 'queue' record of each task
    task,       \* the stored status of each task
    clock,      \* Date.now()
    pc,         \* where each process() call is
    taskOf,     \* the taskId of the call
    found,      \* the copy of the queue record it works on
    foundTask,  \* the task status completeTask found
    timers,     \* heartbeat intervals running, per worker and task
    mapped,     \* workers and tasks with an entry in the runtime's heartbeats map
    beat,       \* the copy a heartbeat under way has found (Absent: none under way)
    caller,     \* what each caller of enqueue or reclaimExpired has found
    failures, crashes,
    granted,    \* history: expiry of the last lease a slot was given or renewed
    handled,    \* history: tasks whose handler has returned at least once
    stale       \* history: some save has overwritten a record changed since its find

queueVars == <<item, task>>
slotVars  == <<pc, taskOf, found, foundTask, granted>>
timerVars == <<timers, mapped, beat>>
vars == <<item, task, clock, pc, taskOf, found, foundTask, timers, mapped, beat, caller,
          failures, crashes, granted, handled, stale>>

Absent == [status |-> "absent", attempts |-> 0, worker |-> NoWorker, lease |-> 0]
Fresh  == [Absent EXCEPT !.status = "queued"]

Items == [status : {"absent", "queued", "processing", "completed"},
          attempts : 0..AttemptCap,
          worker : WorkerIds \cup {NoWorker},
          lease : 0..(MaxTime + LeaseMs)]

Working == {"handle", "check", "task", "mark"}
SlotStates == {"idle", "claim", "retry"} \cup Working

\* Some tasks may have been enqueued before.
Init ==
    /\ item \in [Tasks -> {Absent, Fresh}]
    /\ task = [t \in Tasks |-> "pending"]
    /\ clock = 0
    /\ pc = [s \in Slots |-> "idle"]
    /\ taskOf = [s \in Slots |-> CHOOSE t \in Tasks : TRUE]
    /\ found = [s \in Slots |-> Absent]
    /\ foundTask = [s \in Slots |-> "pending"]
    /\ timers = [w \in WorkerIds |-> [t \in Tasks |-> 0]]
    /\ mapped = {}
    /\ beat = [w \in WorkerIds |-> [t \in Tasks |-> Absent]]
    /\ caller = [c \in Callers |-> [op |-> "none"]]
    /\ failures = 0
    /\ crashes = 0
    /\ granted = [s \in Slots |-> 0]
    /\ handled = {}
    /\ stale = FALSE

-----------------------------------------------------------------------------
(* Records *)

Bump(n) == IF n < AttemptCap THEN n + 1 ELSE n

\* Mutant: the comparison with the clock is the other way round.
ExpiredAhead(i) == i.lease # 0 /\ i.lease > clock

\* leaseExpiresAt is set and not in the future.
Expired(i) == i.lease # 0 /\ i.lease <= clock

Held(i, w) == i.status = "processing" /\ i.worker = w

\* Mutant: a record another update left behind is handed back as completed.
ReleaseCompleted(i, status) ==
    [status |-> "completed", attempts |-> i.attempts, worker |-> NoWorker, lease |-> 0]

Release(i, status) ==
    [status |-> status, attempts |-> i.attempts, worker |-> NoWorker, lease |-> 0]

\* repository.save of record i, computed from the copy `copy`.
Save(t, copy, i) ==
    /\ item' = [item EXCEPT ![t] = i]
    /\ stale' = (stale \/ item[t] # copy)

NoSave == UNCHANGED <<item, stale>>

-----------------------------------------------------------------------------
(* enqueue and reclaimExpired, called from events, the scheduler or a sweep *)

EnqueueFind(c, t) ==
    /\ caller[c].op = "none"
    /\ caller' = [caller EXCEPT ![c] = [op |-> "enqueue", task |-> t, found |-> item[t]]]
    /\ UNCHANGED <<queueVars, clock, slotVars, timerVars, failures, crashes, handled, stale>>

\* enqueue answers with the record it found while that is queued or processing.
Enqueued(i) == i.status \in {"queued", "processing"}

EnqueueSave(c) ==
    /\ caller[c].op = "enqueue"
    /\ IF Enqueued(caller[c].found) THEN NoSave
       ELSE Save(caller[c].task, caller[c].found, Fresh)
    /\ caller' = [caller EXCEPT ![c] = [op |-> "done"]]
    /\ UNCHANGED <<task, clock, slotVars, timerVars, failures, crashes, handled>>

\* What reclaimExpired picks from the copies it got of all records.
Reclaimable(i) == i.status = "processing" /\ Expired(i)

SweepFind(c) ==
    LET expired == {t \in Tasks : Reclaimable(item[t])} IN
    /\ caller[c].op = "none"
    /\ expired # {}
    /\ caller' = [caller EXCEPT ![c] = [op |-> "sweep", items |-> item, left |-> expired]]
    /\ UNCHANGED <<queueVars, clock, slotVars, timerVars, failures, crashes, handled, stale>>

SweepSave(c, t) ==
    /\ caller[c].op = "sweep"
    /\ t \in caller[c].left
    /\ Save(t, caller[c].items[t], Release(caller[c].items[t], "queued"))
    /\ LET call == caller[c] IN
       caller' = [caller EXCEPT ![c] = IF call.left = {t} THEN [op |-> "done"]
                                       ELSE [call EXCEPT !.left = call.left \ {t}]]
    /\ UNCHANGED <<task, clock, slotVars, timerVars, failures, crashes, handled>>

-----------------------------------------------------------------------------
(* Heartbeat timers of a runtime *)

StartHeartbeat(w, t) ==
    /\ timers' = [timers EXCEPT ![w][t] = @ + 1]
    /\ mapped' = mapped \cup {<<w, t>>}

\* Mutant: an interval is cleared whether or not the map still knows it.
StopHeartbeatTwice(w, t) ==
    /\ timers' = [timers EXCEPT ![w][t] = @ - 1]
    /\ mapped' = mapped \ {<<w, t>>}

\* Only the interval the map still knows is cleared.
StopHeartbeat(w, t) ==
    /\ timers' = IF <<w, t>> \in mapped THEN [timers EXCEPT ![w][t] = @ - 1] ELSE timers
    /\ mapped' = mapped \ {<<w, t>>}

HeartbeatFind(w, t) ==
    /\ Heartbeats
    /\ timers[w][t] > 0
    /\ beat[w][t] = Absent
    /\ Held(item[t], w)
    /\ beat' = [beat EXCEPT ![w][t] = item[t]]
    /\ UNCHANGED <<queueVars, clock, slotVars, timers, mapped, caller, failures, crashes,
                   handled, stale>>

HeartbeatSave(w, t) ==
    /\ beat[w][t] # Absent
    /\ Save(t, beat[w][t], [beat[w][t] EXCEPT !.lease = clock + LeaseMs])
    /\ beat' = [beat EXCEPT ![w][t] = Absent]
    /\ granted' = [s \in Slots |-> IF IdOf[s] = w /\ taskOf[s] = t /\ pc[s] \in Working
                                   THEN clock + LeaseMs ELSE granted[s]]
    /\ UNCHANGED <<task, clock, pc, taskOf, found, foundTask, timers, mapped, caller,
                   failures, crashes, handled>>

\* stop(): every interval in the map is cleared; process() calls go on.
Stop(w) ==
    /\ \E t \in Tasks : <<w, t>> \in mapped
    /\ timers' = [timers EXCEPT ![w] = [t \in Tasks |-> IF <<w, t>> \in mapped THEN @[t] - 1 ELSE @[t]]]
    /\ mapped' = {m \in mapped : m[1] # w}
    /\ UNCHANGED <<queueVars, clock, slotVars, beat, caller, failures, crashes, handled, stale>>

-----------------------------------------------------------------------------
(* process(taskId) *)

GoTo(s, where) == pc' = [pc EXCEPT ![s] = where]

ClaimFind(s, t) ==
    /\ pc[s] = "idle"
    /\ item[t] # Absent
    /\ GoTo(s, "claim")
    /\ taskOf' = [taskOf EXCEPT ![s] = t]
    /\ found' = [found EXCEPT ![s] = item[t]]
    /\ UNCHANGED <<queueVars, clock, foundTask, timerVars, caller, failures, crashes, granted,
                   handled, stale>>

\* Mutant: the heartbeat is not stopped.
LeaveBeating(s) ==
    /\ UNCHANGED <<timers, mapped>>
    /\ GoTo(s, "idle")
    /\ found' = [found EXCEPT ![s] = Absent]
    /\ foundTask' = [foundTask EXCEPT ![s] = "pending"]
    /\ granted' = [granted EXCEPT ![s] = 0]

\* The finally clause: the heartbeat stops and the call is over.
Leave(s) ==
    /\ StopHeartbeat(IdOf[s], taskOf[s])
    /\ GoTo(s, "idle")
    /\ found' = [found EXCEPT ![s] = Absent]
    /\ foundTask' = [foundTask EXCEPT ![s] = "pending"]
    /\ granted' = [granted EXCEPT ![s] = 0]

\* An error anywhere in process(): its catch calls retry, which starts with a find.
Throw(s) ==
    /\ GoTo(s, "retry")
    /\ found' = [found EXCEPT ![s] = item[taskOf[s]]]
    /\ NoSave
    /\ UNCHANGED <<task, taskOf, foundTask, timers, mapped, granted, handled>>

\* Mutant: a record under a live lease may be claimed.
ClaimableAlways(i) == i.status \in {"queued", "processing"}

ClaimableItem(i) == i.status = "queued" \/ (i.status = "processing" /\ Expired(i))

ClaimSave(s) ==
    LET t == taskOf[s]
        w == IdOf[s]
        i == [status |-> "processing", attempts |-> Bump(found[s].attempts),
              worker |-> w, lease |-> clock + LeaseMs]
    IN
    /\ pc[s] = "claim"
    /\ \/ /\ ClaimableItem(found[s])
          /\ Save(t, found[s], i)
          /\ StartHeartbeat(w, t)
          /\ granted' = [granted EXCEPT ![s] = i.lease]
          /\ GoTo(s, "handle")
          /\ UNCHANGED <<task, taskOf, found, foundTask, handled>>
       \/ ~ClaimableItem(found[s]) /\ Throw(s)
    /\ UNCHANGED <<clock, beat, caller, failures, crashes>>

\* The handler returns and complete() finds the record.
FinishHandler(s) ==
    /\ pc[s] = "handle"
    /\ handled' = handled \cup {taskOf[s]}
    /\ found' = [found EXCEPT ![s] = item[taskOf[s]]]
    /\ GoTo(s, "check")
    /\ UNCHANGED <<queueVars, clock, taskOf, foundTask, timerVars, caller, failures, crashes,
                   granted, stale>>

Completable(i, w) == Held(i, w) /\ ~Expired(i)

\* complete() checks its copy and completeTask finds the task.
CompleteCheck(s) ==
    /\ pc[s] = "check"
    /\ \/ /\ Completable(found[s], IdOf[s])
          /\ foundTask' = [foundTask EXCEPT ![s] = task[taskOf[s]]]
          /\ GoTo(s, "task")
          /\ NoSave
          /\ UNCHANGED <<task, taskOf, found, timers, mapped, granted, handled>>
       \/ ~Completable(found[s], IdOf[s]) /\ Throw(s)
    /\ UNCHANGED <<clock, beat, caller, failures, crashes>>

\* completeTask saves the task, or throws TASK_ALREADY_COMPLETED.
CompleteTask(s) ==
    /\ pc[s] = "task"
    /\ \/ /\ foundTask[s] # "completed"
          /\ task' = [task EXCEPT ![taskOf[s]] = "completed"]
          /\ GoTo(s, "mark")
          /\ NoSave
          /\ UNCHANGED <<taskOf, found, foundTask, timers, mapped, granted, handled>>
       \/ foundTask[s] = "completed" /\ Throw(s)
    /\ UNCHANGED <<clock, beat, caller, failures, crashes>>

\* The queue record is marked.
CompleteSave(s) ==
    /\ pc[s] = "mark"
    /\ Save(taskOf[s], found[s], Release(found[s], "completed"))
    /\ Leave(s)
    /\ UNCHANGED <<task, clock, taskOf, beat, caller, failures, crashes, handled>>

\* The handler throws, or a repository call of process() fails.
ProcessFails(s) ==
    /\ pc[s] \in FailPoints \ {"retry"}
    /\ failures < MaxFailures
    /\ failures' = failures + 1
    /\ Throw(s)
    /\ UNCHANGED <<clock, beat, caller, crashes>>

\* Mutant: retry does not ask for the owner.
RetryableByAnyone(i, w) == i.status = "processing"

RetryableBy(i, w) == Held(i, w)

\* retry() by the catch clause, its own errors swallowed.
RetrySave(s) ==
    /\ pc[s] = "retry"
    /\ IF RetryableBy(found[s], IdOf[s])
       THEN Save(taskOf[s], found[s], Release(found[s], "queued"))
       ELSE NoSave
    /\ Leave(s)
    /\ UNCHANGED <<task, clock, taskOf, beat, caller, failures, crashes, handled>>

\* A repository call of retry() fails, and nobody hears of it.
RetryFails(s) ==
    /\ pc[s] = "retry"
    /\ "retry" \in FailPoints
    /\ failures < MaxFailures
    /\ failures' = failures + 1
    /\ NoSave
    /\ Leave(s)
    /\ UNCHANGED <<task, clock, taskOf, beat, caller, crashes, handled>>

-----------------------------------------------------------------------------
(* Time and crashes *)

Tick ==
    /\ clock < MaxTime
    /\ clock' = clock + 1
    /\ UNCHANGED <<queueVars, slotVars, timerVars, caller, failures, crashes, handled, stale>>

\* The process of a runtime dies with its calls, timers and heartbeats.
Crash(w) ==
    /\ crashes < MaxCrashes
    /\ clock <= CrashTime
    /\ \E s \in Slots : IdOf[s] = w /\ pc[s] \in CrashPoints
    /\ crashes' = crashes + 1
    /\ pc' = [s \in Slots |-> IF IdOf[s] = w THEN "idle" ELSE pc[s]]
    /\ found' = [s \in Slots |-> IF IdOf[s] = w THEN Absent ELSE found[s]]
    /\ foundTask' = [s \in Slots |-> IF IdOf[s] = w THEN "pending" ELSE foundTask[s]]
    /\ granted' = [s \in Slots |-> IF IdOf[s] = w THEN 0 ELSE granted[s]]
    /\ timers' = [timers EXCEPT ![w] = [t \in Tasks |-> 0]]
    /\ mapped' = {m \in mapped : m[1] # w}
    /\ beat' = [beat EXCEPT ![w] = [t \in Tasks |-> Absent]]
    /\ UNCHANGED <<queueVars, clock, taskOf, caller, failures, handled, stale>>

-----------------------------------------------------------------------------
Proceed(s) ==
    \/ ClaimSave(s) \/ FinishHandler(s) \/ CompleteCheck(s) \/ CompleteTask(s)
    \/ CompleteSave(s) \/ RetrySave(s)

Call(c) ==
    \/ \E t \in Tasks : EnqueueFind(c, t) \/ SweepSave(c, t)
    \/ EnqueueSave(c)
    \/ SweepFind(c)

Heartbeat(w) == \E t \in Tasks : HeartbeatFind(w, t) \/ HeartbeatSave(w, t)

Next ==
    \/ \E s \in Slots : (\E t \in Tasks : ClaimFind(s, t)) \/ Proceed(s)
                       \/ ProcessFails(s) \/ RetryFails(s)
    \/ \E c \in Callers : Call(c)
    \/ \E w \in WorkerIds : Heartbeat(w) \/ Stop(w) \/ Crash(w)
    \/ Tick

Spec == Init /\ [][Next]_vars

\* process() is called again and again for every queued task, calls go on, enqueue
\* calls that have begun end, and time passes.
Fairness ==
    /\ \A s \in Slots : WF_vars(Proceed(s)) /\ \A t \in Tasks : WF_vars(ClaimFind(s, t))
    /\ \A c \in Callers : WF_vars(EnqueueSave(c))
    /\ WF_vars(Tick)

FairSpec == Spec /\ Fairness

-----------------------------------------------------------------------------
(* Properties *)

\* Queue records, copies and leases keep their form and bounds, and the count of a
\* task's heartbeat intervals never drops below zero.
TypeOK ==
    /\ item \in [Tasks -> Items]
    /\ task \in [Tasks -> {"pending", "completed"}]
    /\ clock \in 0..MaxTime
    /\ pc \in [Slots -> SlotStates]
    /\ taskOf \in [Slots -> Tasks]
    /\ found \in [Slots -> Items]
    /\ foundTask \in [Slots -> {"pending", "completed"}]
    /\ timers \in [WorkerIds -> [Tasks -> Nat]]
    /\ mapped \subseteq WorkerIds \X Tasks
    /\ beat \in [WorkerIds -> [Tasks -> Items]]
    /\ caller \in [Callers -> [op : {"none", "done"}]
                            \cup [op : {"enqueue"}, task : Tasks, found : Items]
                            \cup [op : {"sweep"}, items : [Tasks -> Items], left : SUBSET Tasks]]
    /\ failures \in 0..MaxFailures
    /\ crashes \in 0..MaxCrashes
    /\ granted \in [Slots -> 0..(MaxTime + LeaseMs)]
    /\ handled \subseteq Tasks
    /\ stale \in BOOLEAN

\* A queue record never says completed of a task that is not, and no task is
\* completed whose handler never returned, even when saves overwrite each other,
\* leases expire and runtimes crash.
CompletionIsEarned ==
    \A t \in Tasks :
        /\ item[t].status = "completed" => task[t] = "completed"
        /\ task[t] = "completed" => t \in handled

\* The worker makes one process() call at a time.
Single(w) == \A r, s \in Slots : IdOf[r] = w /\ IdOf[s] = w => r = s

\* The lease protocol is sound up to lost updates: while no save has overwritten a
\* change it had not seen, runtimes with different ids, each of which makes one
\* process() call at a time, work on one task at the same time only after the lease
\* of one of them has run out.  (The end of one call hands back the lease of another
\* call of its runtime for the task.)
LeaseExclusion ==
    \A r, s \in Slots :
        /\ IdOf[r] # IdOf[s] /\ Single(IdOf[r]) /\ Single(IdOf[s])
        /\ taskOf[r] = taskOf[s]
        /\ pc[r] \in Working /\ pc[s] \in Working
        => stale \/ granted[r] <= clock \/ granted[s] <= clock

\* A live lease is not taken away: while no update has been lost, a record under an
\* unexpired lease is changed only by a renewal or as a call of its owner ends.
LiveLeaseKept ==
    [][\A t \in Tasks :
         /\ item[t].status = "processing" /\ item[t].lease > clock
         /\ item'[t] # item[t] /\ ~stale'
         => \/ item'[t].worker = item[t].worker
            \/ \E s \in Slots : /\ IdOf[s] = item[t].worker /\ taskOf[s] = t
                                /\ pc[s] # "idle" /\ pc'[s] = "idle"]_vars

\* No heartbeat interval of a runtime that makes one process() call at a time outlives
\* the work it was started for, through retries, stop() and crashes.  (With more calls
\* the one entry a task has in the map is overwritten and the interval is lost.)
TimersCleared ==
    \A w \in WorkerIds : \A t \in Tasks :
        /\ timers[w][t] > 0
        /\ Single(w)
        => \E s \in Slots : IdOf[s] = w /\ taskOf[s] = t /\ pc[s] # "idle"

\* A task whose handler threw, or whose runtime crashed in the handler, is claimed
\* again, by its worker or by another once the lease has run out, and is completed
\* in the end, unless an update was lost.
EventuallyCompleted ==
    \A t \in Tasks :
        item[t].status = "queued" /\ task[t] = "pending" ~> item[t].status = "completed" \/ stale

=============================================================================
