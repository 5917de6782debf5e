-------------------------- MODULE LeaseQueueProofs --------------------------
(***************************************************************************)
(* TLAPS proofs about LeaseQueue, for any tasks, runtimes, process() calls *)
(* and callers, leases of any length and failures and crashes at any point. *)
(***************************************************************************)
EXTENDS LeaseQueue, TLAPS

Sweeps == [op : {"sweep"}, items : [Tasks -> Items], left : SUBSET Tasks]
Enqueues == [op : {"enqueue"}, task : Tasks, found : Items]
CallerStates == [op : {"none", "done"}] \cup Enqueues \cup Sweeps

\* The records that are saved are records.
LEMMA Records ==
    /\ Absent \in Items /\ Fresh \in Items
    /\ \A i \in Items : \A status \in {"queued", "completed"} : Release(i, status) \in Items
    /\ \A i \in Items : \A now \in 0..MaxTime : [i EXCEPT !.lease = now + LeaseMs] \in Items
    /\ \A i \in Items : \A now \in 0..MaxTime : \A w \in WorkerIds :
        [status |-> "processing", attempts |-> Bump(i.attempts), worker |-> w, lease |-> now + LeaseMs]
            \in Items
<1>1. Absent \in Items /\ Fresh \in Items
  <2>1. 0 \in 0..AttemptCap /\ 0 \in 0..(MaxTime + LeaseMs)
    BY QueueAssumption
  <2>2. Absent \in Items
    BY <2>1 DEF Absent, Items
  <2>3. Fresh \in Items
    <3>1. \A i \in Items : [i EXCEPT !.status = "queued"] \in Items
      BY DEF Items
    <3> QED
      BY <2>2, <3>1 DEF Fresh
  <2> QED
    BY <2>2, <2>3
<1>2. \A i \in Items : \A status \in {"queued", "completed"} : Release(i, status) \in Items
  <2> SUFFICES ASSUME NEW i \in Items, NEW status \in {"queued", "completed"}
               PROVE  Release(i, status) \in Items
    OBVIOUS
  <2>1. Release(i, status) = [status |-> status, attempts |-> i.attempts, worker |-> NoWorker, lease |-> 0]
    BY DEF Release
  <2>2. 0 \in 0..(MaxTime + LeaseMs)
    BY QueueAssumption
  <2> QED
    BY <2>1, <2>2 DEF Items
<1>3. \A i \in Items : \A now \in 0..MaxTime : [i EXCEPT !.lease = now + LeaseMs] \in Items
  BY QueueAssumption DEF Items
<1>4. \A i \in Items : \A now \in 0..MaxTime : \A w \in WorkerIds :
        [status |-> "processing", attempts |-> Bump(i.attempts), worker |-> w, lease |-> now + LeaseMs]
            \in Items
  BY QueueAssumption DEF Items, Bump
<1> QED
  BY <1>1, <1>2, <1>3, <1>4

\* The heartbeat interval of a map entry is running; of a runtime that makes one call at a time,
\* the only intervals that run are those of the map, and the call they belong to is under way.
TimerOf(w, t) ==
    /\ <<w, t>> \in mapped => timers[w][t] > 0
    /\ Single(w) =>
        /\ timers[w][t] > 0 => timers[w][t] = 1 /\ <<w, t>> \in mapped
        /\ <<w, t>> \in mapped =>
            \E s \in Slots : IdOf[s] = w /\ taskOf[s] = t /\ pc[s] \notin {"idle", "claim"}

TypeInv ==
    /\ TypeOK
    /\ \A w \in WorkerIds, t \in Tasks : TimerOf(w, t)

\* No call is under way at first.
LEMMA InitTypeInv == Init => TypeInv
<1> SUFFICES ASSUME Init PROVE TypeInv
  OBVIOUS
<1>1. /\ item \in [Tasks -> Items] /\ found \in [Slots -> Items]
      /\ beat \in [WorkerIds -> [Tasks -> Items]]
  BY Records DEF Init
<1>2. /\ pc \in [Slots -> SlotStates] /\ taskOf \in [Slots -> Tasks]
      /\ task \in [Tasks -> {"pending", "completed"}] /\ foundTask \in [Slots -> {"pending", "completed"}]
      /\ handled \subseteq Tasks /\ mapped \subseteq WorkerIds \X Tasks /\ stale \in BOOLEAN
  BY QueueAssumption DEF Init, SlotStates
<1>3. /\ clock \in 0..MaxTime /\ failures \in 0..MaxFailures /\ crashes \in 0..MaxCrashes
      /\ granted \in [Slots -> 0..(MaxTime + LeaseMs)] /\ timers \in [WorkerIds -> [Tasks -> Nat]]
  BY QueueAssumption DEF Init
<1>4. caller \in [Callers -> CallerStates]
  <2>0. [op |-> "none"] \in [op : {"none", "done"}]
    OBVIOUS
  <2>1. [op |-> "none"] \in CallerStates
    BY <2>0, Zenon DEF CallerStates
  <2> QED
    BY <2>1 DEF Init
<1>5. TypeOK
  BY <1>1, <1>2, <1>3, <1>4 DEF TypeOK, CallerStates, Enqueues, Sweeps
<1>6. \A w \in WorkerIds, t \in Tasks : TimerOf(w, t)
  <2> SUFFICES ASSUME NEW w \in WorkerIds, NEW t \in Tasks PROVE TimerOf(w, t)
    OBVIOUS
  <2>1. timers[w][t] = 0 /\ mapped = {}
    BY DEF Init
  <2> QED
    BY <2>1 DEF TimerOf
<1> QED
  BY <1>5, <1>6 DEF TypeInv

\* A record is saved.
LEMMA Saves ==
    ASSUME TypeOK, NEW t \in Tasks, NEW copy, NEW i \in Items, Save(t, copy, i)
    PROVE  /\ item' \in [Tasks -> Items] /\ stale' \in BOOLEAN
           /\ item'[t] = i /\ \A u \in Tasks \ {t} : item'[u] = item[u]
           /\ stale => stale'
           /\ ~stale' => item[t] = copy
  BY DEF TypeOK, Save

\* One call goes on to another place, and may find another copy.
Moved(s, where) ==
    /\ pc' \in [Slots -> SlotStates] /\ pc'[s] = where /\ \A r \in Slots \ {s} : pc'[r] = pc[r]

LEMMA Moves ==
    ASSUME TypeOK, NEW s \in Slots, NEW where \in SlotStates, GoTo(s, where)
    PROVE  Moved(s, where)
  BY DEF TypeOK, GoTo, Moved

\* What every error does.
LEMMA Throws ==
    ASSUME TypeOK, NEW s \in Slots, Throw(s)
    PROVE  /\ Moved(s, "retry") /\ found' \in [Slots -> Items]
           /\ found'[s] = item[taskOf[s]] /\ \A r \in Slots \ {s} : found'[r] = found[r]
           /\ UNCHANGED <<item, stale, task, taskOf, foundTask, timers, mapped, granted, handled>>
<1>1. Moved(s, "retry")
  BY Moves DEF Throw, SlotStates
<1>2. found' \in [Slots -> Items] /\ found'[s] = item[taskOf[s]] /\ \A r \in Slots \ {s} : found'[r] = found[r]
  BY DEF Throw, TypeOK
<1> QED
  BY <1>1, <1>2 DEF Throw, NoSave

\* What every call does at its end.
LEMMA Leaves ==
    ASSUME TypeInv, NEW s \in Slots, Leave(s)
    PROVE  /\ Moved(s, "idle") /\ found' \in [Slots -> Items]
           /\ foundTask' \in [Slots -> {"pending", "completed"}]
           /\ granted' \in [Slots -> 0..(MaxTime + LeaseMs)]
           /\ mapped' = mapped \ {<<IdOf[s], taskOf[s]>>}
           /\ timers' \in [WorkerIds -> [Tasks -> Nat]]
           /\ \A r \in Slots \ {s} : found'[r] = found[r] /\ granted'[r] = granted[r]
           /\ timers'[IdOf[s]][taskOf[s]] =
                IF <<IdOf[s], taskOf[s]>> \in mapped THEN timers[IdOf[s]][taskOf[s]] - 1
                ELSE timers[IdOf[s]][taskOf[s]]
           /\ \A w \in WorkerIds, t \in Tasks : w # IdOf[s] \/ t # taskOf[s] => timers'[w][t] = timers[w][t]
<1> DEFINE w == IdOf[s]  t == taskOf[s]
<1>1. TypeOK /\ w \in WorkerIds /\ t \in Tasks /\ timers[w][t] \in Nat
      /\ (<<w, t>> \in mapped => timers[w][t] > 0)
  BY QueueAssumption DEF TypeInv, TypeOK, TimerOf
<1>2. Moved(s, "idle")
  BY <1>1, Moves DEF Leave, SlotStates
<1>3. /\ found' \in [Slots -> Items] /\ foundTask' \in [Slots -> {"pending", "completed"}]
      /\ granted' \in [Slots -> 0..(MaxTime + LeaseMs)]
      /\ \A r \in Slots \ {s} : found'[r] = found[r] /\ granted'[r] = granted[r]
  BY <1>1, Records, QueueAssumption DEF Leave, TypeOK
<1>4. /\ mapped' = mapped \ {<<w, t>>}
      /\ timers' = IF <<w, t>> \in mapped THEN [timers EXCEPT ![w][t] = @ - 1] ELSE timers
  BY DEF Leave, StopHeartbeat
<1>5. /\ timers' \in [WorkerIds -> [Tasks -> Nat]]
      /\ timers'[w][t] = IF <<w, t>> \in mapped THEN timers[w][t] - 1 ELSE timers[w][t]
      /\ \A v \in WorkerIds, u \in Tasks : v # w \/ u # t => timers'[v][u] = timers[v][u]
  BY <1>1, <1>4 DEF TypeOK
<1> QED
  BY <1>2, <1>3, <1>4, <1>5

\* While no interval is started or cleared and no call under way ends, the intervals are those
\* of the calls under way.
LEMMA TimersStay ==
    ASSUME TypeInv, UNCHANGED <<timers, mapped>>,
           \A r \in Slots : /\ pc[r] \notin {"idle", "claim"} => pc'[r] \notin {"idle", "claim"}
                            /\ pc[r] # "idle" => taskOf'[r] = taskOf[r]
    PROVE  \A w \in WorkerIds, t \in Tasks : TimerOf(w, t)'
<1> SUFFICES ASSUME NEW w \in WorkerIds, NEW t \in Tasks PROVE TimerOf(w, t)'
  OBVIOUS
<1>1. TimerOf(w, t) /\ timers' = timers /\ mapped' = mapped
  BY DEF TypeInv
<1>2. ASSUME Single(w), <<w, t>> \in mapped
      PROVE \E s \in Slots : IdOf[s] = w /\ taskOf'[s] = t /\ pc'[s] \notin {"idle", "claim"}
  <2>1. PICK s \in Slots : IdOf[s] = w /\ taskOf[s] = t /\ pc[s] \notin {"idle", "claim"}
    BY <1>1, <1>2 DEF TimerOf
  <2> QED
    BY <2>1
<1> QED
  BY <1>1, <1>2 DEF TimerOf, Single

\* The end of a call clears the one interval its runtime has for the task.
LEMMA LeaveClears ==
    ASSUME TypeInv, NEW s \in Slots, Leave(s), UNCHANGED taskOf
    PROVE  \A w \in WorkerIds, t \in Tasks : TimerOf(w, t)'
<1> SUFFICES ASSUME NEW w \in WorkerIds, NEW t \in Tasks PROVE TimerOf(w, t)'
  OBVIOUS
<1>1. TimerOf(w, t) /\ timers[w][t] \in Nat /\ IdOf[s] \in WorkerIds /\ taskOf[s] \in Tasks
  BY QueueAssumption DEF TypeInv, TypeOK
<1>2. /\ mapped' = mapped \ {<<IdOf[s], taskOf[s]>>}
      /\ Moved(s, "idle")
  BY Leaves
<1>3. CASE w = IdOf[s] /\ t = taskOf[s]
  <2>1. /\ <<w, t>> \notin mapped'
        /\ timers'[w][t] = IF <<w, t>> \in mapped THEN timers[w][t] - 1 ELSE timers[w][t]
    BY <1>2, <1>3, Leaves
  <2>2. Single(w) => timers'[w][t] = 0
    BY <1>1, <2>1 DEF TimerOf
  <2> QED
    BY <2>1, <2>2 DEF TimerOf, Single
<1>4. CASE ~(w = IdOf[s] /\ t = taskOf[s])
  <2>1. timers'[w][t] = timers[w][t]
    BY <1>4, Leaves
  <2>2. <<w, t>> \in mapped' <=> <<w, t>> \in mapped
    BY <1>2, <1>4
  <2>3. ASSUME Single(w), <<w, t>> \in mapped
        PROVE \E r \in Slots : IdOf[r] = w /\ taskOf'[r] = t /\ pc'[r] \notin {"idle", "claim"}
    <3>1. PICK r \in Slots : IdOf[r] = w /\ taskOf[r] = t /\ pc[r] \notin {"idle", "claim"}
      BY <1>1, <2>3 DEF TimerOf
    <3>2. r # s
      BY <1>4, <3>1
    <3> QED
      BY <1>2, <3>1, <3>2 DEF Moved
  <2> QED
    BY <1>1, <2>1, <2>2, <2>3 DEF TimerOf, Single
<1> QED
  BY <1>3, <1>4


\* The steps of the callers of enqueue and reclaimExpired.
LEMMA CallType ==
    ASSUME TypeInv, NEW c \in Callers, Call(c)
    PROVE  TypeInv'
<1>0. /\ TypeOK /\ item \in [Tasks -> Items] /\ caller \in [Callers -> CallerStates]
      /\ stale \in BOOLEAN
  BY DEF TypeInv, TypeOK, CallerStates, Enqueues, Sweeps
<1> DEFINE Rest == UNCHANGED <<task, clock, slotVars, timerVars, failures, crashes, handled>>
<1>1. Rest
  <2>1. ASSUME NEW t \in Tasks, EnqueueFind(c, t) \/ SweepSave(c, t) PROVE Rest
    BY <2>1 DEF EnqueueFind, SweepSave, queueVars
  <2>2. ASSUME EnqueueSave(c) \/ SweepFind(c) PROVE Rest
    BY <2>2 DEF EnqueueSave, SweepFind, queueVars
  <2> QED
    BY <2>1, <2>2 DEF Call
<1>2. \A i : /\ i \in [op : {"none", "done"}] => i \in CallerStates
             /\ i \in Enqueues => i \in CallerStates
             /\ i \in Sweeps => i \in CallerStates
  BY Zenon DEF CallerStates
<1>3. [op |-> "done"] \in CallerStates
  <2>1. [op |-> "done"] \in [op : {"none", "done"}]
    OBVIOUS
  <2> QED
    BY <1>2, <2>1
<1>4. /\ caller[c] \in CallerStates
      /\ caller[c].op = "enqueue" => caller[c] \in Enqueues
      /\ caller[c].op = "sweep" => caller[c] \in Sweeps
  BY <1>0 DEF CallerStates, Enqueues, Sweeps
<1>5. \A i \in CallerStates : [caller EXCEPT ![c] = i] \in [Callers -> CallerStates]
  BY <1>0
<1> DEFINE Good == item' \in [Tasks -> Items] /\ stale' \in BOOLEAN /\ caller' \in [Callers -> CallerStates]
<1> HIDE DEF CallerStates
<1>6. ASSUME NEW t \in Tasks, EnqueueFind(c, t) PROVE Good
  <2>1. [op |-> "enqueue", task |-> t, found |-> item[t]] \in Enqueues
    BY <1>0 DEF Enqueues
  <2>2. /\ item' = item /\ stale' = stale
        /\ caller' = [caller EXCEPT ![c] = [op |-> "enqueue", task |-> t, found |-> item[t]]]
    BY <1>6 DEF EnqueueFind, queueVars
  <2> QED
    BY <1>0, <1>2, <1>5, <2>1, <2>2
<1>7. ASSUME EnqueueSave(c) PROVE Good
  <2>1. caller' = [caller EXCEPT ![c] = [op |-> "done"]] /\ caller[c].task \in Tasks
    BY <1>4, <1>7 DEF EnqueueSave, Enqueues
  <2>2. item' \in [Tasks -> Items] /\ stale' \in BOOLEAN
    BY <1>0, <1>7, <2>1, Records, Saves DEF EnqueueSave, NoSave
  <2> QED
    BY <1>3, <1>5, <2>1, <2>2
<1>8. ASSUME SweepFind(c) PROVE Good
  <2> DEFINE e == {t \in Tasks : Reclaimable(item[t])}
  <2>1. [op |-> "sweep", items |-> item, left |-> e] \in Sweeps
    BY <1>0 DEF Sweeps
  <2>2. /\ item' = item /\ stale' = stale
        /\ caller' = [caller EXCEPT ![c] = [op |-> "sweep", items |-> item, left |-> e]]
    BY <1>8 DEF SweepFind, queueVars
  <2> QED
    BY <1>0, <1>2, <1>5, <2>1, <2>2
<1>9. ASSUME NEW t \in Tasks, SweepSave(c, t) PROVE Good
  <2>1. caller[c] \in Sweeps
    BY <1>4, <1>9 DEF SweepSave
  <2>2. caller[c].items[t] \in Items /\ Release(caller[c].items[t], "queued") \in Items
    BY <2>1, Records DEF Sweeps
  <2>3. item' \in [Tasks -> Items] /\ stale' \in BOOLEAN
    BY <1>0, <1>9, <2>2, Saves DEF SweepSave
  <2>4. [caller[c] EXCEPT !.left = caller[c].left \ {t}] \in Sweeps
    BY <2>1 DEF Sweeps
  <2>5. caller' = [caller EXCEPT ![c] = [op |-> "done"]]
        \/ caller' = [caller EXCEPT ![c] = [caller[c] EXCEPT !.left = caller[c].left \ {t}]]
    BY <1>0, <1>9 DEF SweepSave
  <2> QED
    BY <1>2, <1>3, <1>5, <2>3, <2>4, <2>5
<1>10. Good
  BY <1>6, <1>7, <1>8, <1>9 DEF Call
<1>11. TypeOK'
  BY <1>0, <1>1, <1>10 DEF TypeOK, CallerStates, Enqueues, Sweeps, slotVars, timerVars
<1>12. \A w \in WorkerIds, t \in Tasks : TimerOf(w, t)'
  BY <1>1, TimersStay DEF slotVars, timerVars
<1> QED
  BY <1>11, <1>12 DEF TypeInv

\* The steps of the heartbeat timers.
LEMMA TimerType ==
    ASSUME TypeInv, NEW w \in WorkerIds, Heartbeat(w) \/ Stop(w)
    PROVE  TypeInv'
<1>0. TypeOK /\ UNCHANGED <<task, clock, pc, taskOf, found, foundTask, caller, failures, crashes, handled>>
  BY DEF TypeInv, Heartbeat, HeartbeatFind, HeartbeatSave, Stop, queueVars, slotVars
<1>1. ASSUME NEW t \in Tasks, HeartbeatFind(w, t) PROVE TypeInv'
  <2>1. beat' \in [WorkerIds -> [Tasks -> Items]]
    BY <1>0, <1>1 DEF TypeOK, HeartbeatFind
  <2>2. UNCHANGED <<item, stale, granted, timers, mapped>>
    BY <1>1 DEF HeartbeatFind, queueVars, slotVars
  <2>3. TypeOK'
    BY <1>0, <2>1, <2>2 DEF TypeOK
  <2>4. \A v \in WorkerIds, u \in Tasks : TimerOf(v, u)'
    BY <1>0, <2>2, TimersStay
  <2> QED
    BY <2>3, <2>4 DEF TypeInv
<1>2. ASSUME NEW t \in Tasks, HeartbeatSave(w, t) PROVE TypeInv'
  <2>0. beat[w][t] \in Items /\ [beat[w][t] EXCEPT !.lease = clock + LeaseMs] \in Items
    BY <1>0, Records DEF TypeOK
  <2>1. item' \in [Tasks -> Items] /\ stale' \in BOOLEAN
    BY <1>0, <1>2, <2>0, Saves DEF HeartbeatSave
  <2>2. beat' \in [WorkerIds -> [Tasks -> Items]]
    BY <1>0, <1>2, Records DEF TypeOK, HeartbeatSave
  <2>3. granted' \in [Slots -> 0..(MaxTime + LeaseMs)]
    <3>1. clock + LeaseMs \in 0..(MaxTime + LeaseMs)
      BY <1>0, QueueAssumption DEF TypeOK
    <3> QED
      BY <1>0, <1>2, <3>1 DEF TypeOK, HeartbeatSave
  <2>4. UNCHANGED <<timers, mapped>>
    BY <1>2 DEF HeartbeatSave
  <2>5. TypeOK'
    BY <1>0, <2>1, <2>2, <2>3, <2>4 DEF TypeOK
  <2>6. \A v \in WorkerIds, u \in Tasks : TimerOf(v, u)'
    BY <1>0, <2>4, TimersStay
  <2> QED
    BY <2>5, <2>6 DEF TypeInv
<1>3. ASSUME Stop(w) PROVE TypeInv'
  <2>1. UNCHANGED <<item, stale, granted, beat>>
    BY <1>3 DEF Stop, queueVars, slotVars
  <2>2. /\ mapped' = {m \in mapped : m[1] # w} /\ mapped \subseteq WorkerIds \X Tasks
        /\ timers' = [timers EXCEPT ![w] = [t \in Tasks |-> IF <<w, t>> \in mapped THEN @[t] - 1 ELSE @[t]]]
    BY <1>0, <1>3 DEF Stop, TypeOK
  <2>3. \A v \in WorkerIds, t \in Tasks :
          /\ timers[v][t] \in Nat /\ TimerOf(v, t)
          /\ <<v, t>> \in mapped' <=> v # w /\ <<v, t>> \in mapped
    BY <1>0, <2>2 DEF TypeInv, TypeOK
  <2>4. /\ DOMAIN timers' = WorkerIds /\ timers' = [v \in WorkerIds |-> timers'[v]]
        /\ \A v \in WorkerIds : timers'[v] =
            IF v = w THEN [t \in Tasks |-> IF <<w, t>> \in mapped THEN timers[w][t] - 1 ELSE timers[w][t]]
            ELSE timers[v]
    BY <1>0, <2>2 DEF TypeOK
  <2>5. \A t \in Tasks : timers[w][t] \in Nat
          /\ (IF <<w, t>> \in mapped THEN timers[w][t] - 1 ELSE timers[w][t]) \in Nat
    BY <2>3 DEF TimerOf
  <2>6. \A v \in WorkerIds : timers'[v] \in [Tasks -> Nat]
    <3> SUFFICES ASSUME NEW v \in WorkerIds PROVE timers'[v] \in [Tasks -> Nat]
      OBVIOUS
    <3>1. CASE v = w
      <4> DEFINE left == [t \in Tasks |-> IF <<w, t>> \in mapped THEN timers[w][t] - 1 ELSE timers[w][t]]
      <4>1. left \in [Tasks -> Nat]
        BY <2>5
      <4>2. timers'[v] = left
        BY <2>4, <3>1
      <4> QED
        BY <4>1, <4>2
    <3>2. CASE v # w
      BY <1>0, <2>4, <3>2 DEF TypeOK
    <3> QED
      BY <3>1, <3>2
  <2>7. timers' \in [WorkerIds -> [Tasks -> Nat]]
    BY <2>4, <2>6
  <2>8. TypeOK'
    BY <1>0, <2>1, <2>2, <2>7 DEF TypeOK
  <2>9. ASSUME NEW v \in WorkerIds, NEW t \in Tasks PROVE TimerOf(v, t)'
    <3>1. CASE v = w
      <4>1. timers'[v][t] = IF <<w, t>> \in mapped THEN timers[w][t] - 1 ELSE timers[w][t]
        BY <2>4, <3>1
      <4>2. <<v, t>> \notin mapped' /\ TimerOf(w, t) /\ timers[w][t] \in Nat
        BY <2>3, <3>1
      <4>3. Single(w) => timers'[v][t] = 0
        BY <4>1, <4>2 DEF TimerOf
      <4> QED
        BY <3>1, <4>2, <4>3 DEF TimerOf, Single
    <3>2. CASE v # w
      <4>1. timers'[v][t] = timers[v][t] /\ (<<v, t>> \in mapped' <=> <<v, t>> \in mapped) /\ TimerOf(v, t)
        BY <2>3, <2>4, <3>2
      <4>2. taskOf' = taskOf /\ pc' = pc
        BY <1>0
      <4> QED
        BY <4>1, <4>2 DEF TimerOf, Single
    <3> QED
      BY <3>1, <3>2
  <2> QED
    BY <2>8, <2>9 DEF TypeInv
<1> QED
  BY <1>1, <1>2, <1>3 DEF Heartbeat

\* An error leaves the form of the state alone.
LEMMA ThrowType ==
    ASSUME TypeInv, NEW s \in Slots, Throw(s), UNCHANGED <<clock, beat, caller, crashes>>,
           failures' \in 0..MaxFailures, pc[s] # "idle"
    PROVE  TypeInv'
<1>1. /\ Moved(s, "retry") /\ found' \in [Slots -> Items]
      /\ UNCHANGED <<item, stale, task, taskOf, foundTask, timers, mapped, granted, handled>>
  BY Throws DEF TypeInv
<1>2. TypeOK'
  BY <1>1 DEF TypeInv, TypeOK, Moved
<1>3. \A w \in WorkerIds, t \in Tasks : TimerOf(w, t)'
  BY <1>1, TimersStay DEF Moved
<1> QED
  BY <1>2, <1>3 DEF TypeInv

\* The end of a call leaves the form of the state alone.
LEMMA LeaveType ==
    ASSUME TypeInv, NEW s \in Slots, Leave(s),
           UNCHANGED <<task, clock, taskOf, beat, caller, crashes, handled>>,
           failures' \in 0..MaxFailures, item' \in [Tasks -> Items], stale' \in BOOLEAN
    PROVE  TypeInv'
<1>1. /\ pc' \in [Slots -> SlotStates] /\ found' \in [Slots -> Items]
      /\ foundTask' \in [Slots -> {"pending", "completed"}]
      /\ granted' \in [Slots -> 0..(MaxTime + LeaseMs)]
      /\ timers' \in [WorkerIds -> [Tasks -> Nat]] /\ mapped' \subseteq mapped
  BY Leaves DEF Moved
<1>2. TypeOK'
  BY <1>1 DEF TypeInv, TypeOK
<1>3. \A w \in WorkerIds, t \in Tasks : TimerOf(w, t)'
  BY LeaveClears
<1> QED
  BY <1>2, <1>3 DEF TypeInv

\* A claim starts an interval, which is the only one of a runtime that makes one call at a time.
LEMMA ClaimType ==
    ASSUME TypeInv, NEW s \in Slots, ClaimSave(s)
    PROVE  TypeInv'
<1> DEFINE t == taskOf[s]
           w == IdOf[s]
           i == [status |-> "processing", attempts |-> Bump(found[s].attempts),
                 worker |-> w, lease |-> clock + LeaseMs]
<1>0. /\ TypeOK /\ t \in Tasks /\ w \in WorkerIds /\ found[s] \in Items /\ clock \in 0..MaxTime
      /\ timers[w][t] \in Nat /\ TimerOf(w, t)
  BY QueueAssumption DEF TypeInv, TypeOK
<1>1. UNCHANGED <<clock, beat, caller, failures, crashes>> /\ pc[s] = "claim"
  BY DEF ClaimSave
<1>2. CASE Throw(s)
  BY <1>0, <1>1, <1>2, ThrowType DEF TypeOK
<1>3. CASE ~Throw(s)
  <2>1. /\ Save(t, found[s], i) /\ StartHeartbeat(w, t) /\ GoTo(s, "handle")
        /\ granted' = [granted EXCEPT ![s] = i.lease]
        /\ UNCHANGED <<task, taskOf, found, foundTask, handled>>
    BY <1>3 DEF ClaimSave
  <2>2. i \in Items
    BY <1>0, Records
  <2>3. item' \in [Tasks -> Items] /\ stale' \in BOOLEAN
    <3> HIDE DEF i, t
    <3> QED
      BY <1>0, <2>1, <2>2, Saves
  <2>4. Moved(s, "handle")
    BY <1>0, <2>1, Moves DEF SlotStates, Working
  <2>5. i.lease \in 0..(MaxTime + LeaseMs)
    BY <1>0, QueueAssumption
  <2>6. granted' \in [Slots -> 0..(MaxTime + LeaseMs)]
    <3> HIDE DEF i
    <3> QED
      BY <1>0, <2>1, <2>5 DEF TypeOK
  <2>7. /\ mapped' = mapped \cup {<<w, t>>} /\ mapped' \subseteq WorkerIds \X Tasks
        /\ timers' \in [WorkerIds -> [Tasks -> Nat]] /\ timers'[w][t] = timers[w][t] + 1
        /\ \A v \in WorkerIds, u \in Tasks : v # w \/ u # t => timers'[v][u] = timers[v][u]
    BY <1>0, <2>1 DEF StartHeartbeat, TypeOK
  <2>8. TypeOK'
    BY <1>0, <1>1, <2>1, <2>3, <2>4, <2>6, <2>7 DEF TypeOK, Moved
  <2>9. ASSUME NEW v \in WorkerIds, NEW u \in Tasks PROVE TimerOf(v, u)'
    <3>0. TimerOf(v, u) /\ timers[v][u] \in Nat /\ taskOf' = taskOf
      BY <1>0, <2>1 DEF TypeInv, TypeOK
    <3>1. CASE v = w /\ u = t
      <4>1. timers'[v][u] = timers[v][u] + 1 /\ <<v, u>> \in mapped'
        BY <2>7, <3>1
      <4>2. Single(w) => timers[v][u] = 0
        <5>1. Single(w) => <<w, t>> \notin mapped
          BY <1>0, <1>1 DEF TimerOf, Single
        <5> QED
          BY <3>0, <3>1, <5>1 DEF TimerOf
      <4>3. IdOf[s] = v /\ taskOf'[s] = u /\ pc'[s] \notin {"idle", "claim"}
        BY <2>4, <3>0, <3>1 DEF Moved
      <4> QED
        BY <3>0, <3>1, <4>1, <4>2, <4>3 DEF TimerOf, Single
    <3>2. CASE ~(v = w /\ u = t)
      <4>1. timers'[v][u] = timers[v][u] /\ (<<v, u>> \in mapped' <=> <<v, u>> \in mapped)
        BY <2>7, <3>2
      <4>2. \A r \in Slots : pc[r] \notin {"idle", "claim"} => pc'[r] \notin {"idle", "claim"}
        BY <2>4 DEF Moved
      <4> QED
        BY <3>0, <4>1, <4>2 DEF TimerOf, Single
    <3> QED
      BY <3>1, <3>2
  <2> QED
    BY <2>8, <2>9 DEF TypeInv
<1> QED
  BY <1>2, <1>3

\* The other steps of a process() call.
LEMMA ProceedType ==
    ASSUME TypeInv, NEW s \in Slots,
           (\E t \in Tasks : ClaimFind(s, t)) \/ Proceed(s) \/ ProcessFails(s) \/ RetryFails(s)
    PROVE  TypeInv'
<1>0. /\ TypeOK /\ taskOf[s] \in Tasks /\ found[s] \in Items /\ failures \in 0..MaxFailures
      /\ MaxFailures \in Nat
  BY QueueAssumption DEF TypeInv, TypeOK
<1>1. ASSUME NEW t \in Tasks, ClaimFind(s, t) PROVE TypeInv'
  <2>1. /\ taskOf' \in [Slots -> Tasks] /\ found' \in [Slots -> Items] /\ pc[s] = "idle"
        /\ \A r \in Slots \ {s} : taskOf'[r] = taskOf[r]
        /\ UNCHANGED <<item, task, clock, foundTask, timers, mapped, beat, caller, failures, crashes,
                       granted, handled, stale>>
    BY <1>0, <1>1 DEF ClaimFind, TypeOK, queueVars, timerVars
  <2>2. Moved(s, "claim")
    BY <1>0, <1>1, Moves DEF ClaimFind, SlotStates
  <2>3. TypeOK'
    BY <1>0, <2>1, <2>2 DEF TypeOK, Moved
  <2>4. \A v \in WorkerIds, u \in Tasks : TimerOf(v, u)'
    BY <2>1, <2>2, TimersStay DEF Moved
  <2> QED
    BY <2>3, <2>4 DEF TypeInv
<1>2. ASSUME FinishHandler(s) PROVE TypeInv'
  <2>1. /\ found' \in [Slots -> Items] /\ handled' \subseteq Tasks /\ pc[s] = "handle"
        /\ UNCHANGED <<item, task, clock, taskOf, foundTask, timers, mapped, beat, caller, failures,
                       crashes, granted, stale>>
    BY <1>0, <1>2 DEF FinishHandler, TypeOK, queueVars, timerVars
  <2>2. Moved(s, "check")
    BY <1>0, <1>2, Moves DEF FinishHandler, SlotStates, Working
  <2>3. TypeOK'
    BY <1>0, <2>1, <2>2 DEF TypeOK, Moved
  <2>4. \A v \in WorkerIds, u \in Tasks : TimerOf(v, u)'
    BY <2>1, <2>2, TimersStay DEF Moved
  <2> QED
    BY <2>3, <2>4 DEF TypeInv
<1>3. ASSUME CompleteCheck(s) PROVE TypeInv'
  <2>1. UNCHANGED <<clock, beat, caller, failures, crashes>> /\ pc[s] = "check"
    BY <1>3 DEF CompleteCheck
  <2>2. CASE Throw(s)
    BY <1>0, <2>1, <2>2, ThrowType
  <2>3. CASE ~Throw(s)
    <3>1. /\ foundTask' = [foundTask EXCEPT ![s] = task[taskOf[s]]] /\ GoTo(s, "task")
          /\ UNCHANGED <<item, stale, task, taskOf, found, timers, mapped, granted, handled>>
      BY <1>3, <2>3 DEF CompleteCheck, NoSave
    <3>2. Moved(s, "task")
      BY <1>0, <3>1, Moves DEF SlotStates, Working
    <3>3. TypeOK'
      BY <1>0, <2>1, <3>1, <3>2 DEF TypeOK, Moved
    <3>4. \A v \in WorkerIds, u \in Tasks : TimerOf(v, u)'
      BY <3>1, <3>2, TimersStay DEF Moved
    <3> QED
      BY <3>3, <3>4 DEF TypeInv
  <2> QED
    BY <2>2, <2>3
<1>4. ASSUME CompleteTask(s) PROVE TypeInv'
  <2>1. UNCHANGED <<clock, beat, caller, failures, crashes>> /\ pc[s] = "task"
    BY <1>4 DEF CompleteTask
  <2>2. CASE Throw(s)
    BY <1>0, <2>1, <2>2, ThrowType
  <2>3. CASE ~Throw(s)
    <3>1. /\ task' = [task EXCEPT ![taskOf[s]] = "completed"] /\ GoTo(s, "mark")
          /\ UNCHANGED <<item, stale, taskOf, found, foundTask, timers, mapped, granted, handled>>
      BY <1>4, <2>3 DEF CompleteTask, NoSave
    <3>2. Moved(s, "mark")
      BY <1>0, <3>1, Moves DEF SlotStates, Working
    <3>3. TypeOK'
      BY <1>0, <2>1, <3>1, <3>2 DEF TypeOK, Moved
    <3>4. \A v \in WorkerIds, u \in Tasks : TimerOf(v, u)'
      BY <3>1, <3>2, TimersStay DEF Moved
    <3> QED
      BY <3>3, <3>4 DEF TypeInv
  <2> QED
    BY <2>2, <2>3
<1>5. ASSUME CompleteSave(s) PROVE TypeInv'
  <2>1. Save(taskOf[s], found[s], Release(found[s], "completed")) /\ Leave(s)
        /\ UNCHANGED <<task, clock, taskOf, beat, caller, failures, crashes, handled>>
    BY <1>5 DEF CompleteSave
  <2>2. item' \in [Tasks -> Items] /\ stale' \in BOOLEAN
    BY <1>0, <2>1, Records, Saves
  <2> QED
    BY <1>0, <2>1, <2>2, LeaveType
<1>6. ASSUME RetrySave(s) PROVE TypeInv'
  <2>1. Leave(s) /\ UNCHANGED <<task, clock, taskOf, beat, caller, failures, crashes, handled>>
    BY <1>6 DEF RetrySave
  <2>2. item' \in [Tasks -> Items] /\ stale' \in BOOLEAN
    <3>1. CASE NoSave
      BY <1>0, <3>1 DEF NoSave, TypeOK
    <3>2. CASE Save(taskOf[s], found[s], Release(found[s], "queued"))
      BY <1>0, <3>2, Records, Saves
    <3> QED
      BY <1>6, <3>1, <3>2 DEF RetrySave
  <2> QED
    BY <1>0, <2>1, <2>2, LeaveType
<1>7. ASSUME RetryFails(s) PROVE TypeInv'
  <2>1. /\ Leave(s) /\ UNCHANGED <<item, stale, task, clock, taskOf, beat, caller, crashes, handled>>
        /\ failures < MaxFailures /\ failures' = failures + 1
    BY <1>7 DEF RetryFails, NoSave
  <2>2. failures' \in 0..MaxFailures /\ item' \in [Tasks -> Items] /\ stale' \in BOOLEAN
    BY <1>0, <2>1 DEF TypeOK
  <2> QED
    BY <2>1, <2>2, LeaveType
<1>8. ASSUME ProcessFails(s) PROVE TypeInv'
  <2>1. /\ Throw(s) /\ UNCHANGED <<clock, beat, caller, crashes>>
        /\ failures < MaxFailures /\ failures' = failures + 1 /\ pc[s] # "idle"
    BY <1>8, QueueAssumption DEF ProcessFails
  <2>2. failures' \in 0..MaxFailures
    BY <1>0, <2>1
  <2> QED
    BY <2>1, <2>2, ThrowType
<1> QED
  BY <1>1, <1>2, <1>3, <1>4, <1>5, <1>6, <1>7, <1>8, ClaimType DEF Proceed

\* A crash ends every call, interval and heartbeat of the runtime.
LEMMA CrashType ==
    ASSUME TypeInv, NEW w \in WorkerIds, Crash(w)
    PROVE  TypeInv'
<1>0. /\ TypeOK /\ UNCHANGED <<item, task, clock, taskOf, caller, failures, handled, stale>>
      /\ crashes < MaxCrashes /\ crashes' = crashes + 1
  BY DEF TypeInv, Crash, queueVars
<1>1. /\ pc' \in [Slots -> SlotStates] /\ found' \in [Slots -> Items]
      /\ foundTask' \in [Slots -> {"pending", "completed"}]
  BY <1>0, Records DEF Crash, TypeOK, SlotStates
<1>2. granted' \in [Slots -> 0..(MaxTime + LeaseMs)] /\ crashes' \in 0..MaxCrashes
  BY <1>0, QueueAssumption DEF Crash, TypeOK
<1>3. beat' \in [WorkerIds -> [Tasks -> Items]]
  BY <1>0, Records DEF Crash, TypeOK
<1>4. /\ timers' \in [WorkerIds -> [Tasks -> Nat]] /\ mapped' \subseteq WorkerIds \X Tasks
      /\ \A v \in WorkerIds, t \in Tasks :
            /\ timers'[v][t] = IF v = w THEN 0 ELSE timers[v][t]
            /\ <<v, t>> \in mapped' <=> v # w /\ <<v, t>> \in mapped
  BY <1>0 DEF Crash, TypeOK
<1>5. TypeOK'
  BY <1>0, <1>1, <1>2, <1>3, <1>4 DEF TypeOK
<1>6. ASSUME NEW v \in WorkerIds, NEW t \in Tasks PROVE TimerOf(v, t)'
  <2>1. CASE v = w
    <3>1. timers'[v][t] = 0 /\ <<v, t>> \notin mapped'
      BY <1>4, <2>1
    <3> QED
      BY <3>1 DEF TimerOf, Single
  <2>2. CASE v # w
    <3>1. timers'[v][t] = timers[v][t] /\ (<<v, t>> \in mapped' <=> <<v, t>> \in mapped) /\ TimerOf(v, t)
      BY <1>4, <2>2 DEF TypeInv
    <3>2. \A r \in Slots : IdOf[r] = v => pc'[r] = pc[r] /\ taskOf'[r] = taskOf[r]
      BY <1>0, <2>2 DEF Crash
    <3> QED
      BY <3>1, <3>2 DEF TimerOf, Single
  <2> QED
    BY <2>1, <2>2
<1> QED
  BY <1>5, <1>6 DEF TypeInv

LEMMA NextTypeInv == TypeInv /\ [Next]_vars => TypeInv'
<1> SUFFICES ASSUME TypeInv, [Next]_vars PROVE TypeInv'
  OBVIOUS
<1>1. CASE Tick
  <2>1. /\ UNCHANGED <<item, task, pc, taskOf, found, foundTask, granted, timers, mapped, beat, caller,
                       failures, crashes, handled, stale>>
        /\ clock < MaxTime /\ clock' = clock + 1
    BY <1>1 DEF Tick, queueVars, slotVars, timerVars
  <2>2. clock' \in 0..MaxTime
    BY <2>1, QueueAssumption DEF TypeInv, TypeOK
  <2>3. TypeOK'
    BY <2>1, <2>2 DEF TypeInv, TypeOK
  <2>4. \A v \in WorkerIds, u \in Tasks : TimerOf(v, u)'
    BY <2>1, TimersStay
  <2> QED
    BY <2>3, <2>4 DEF TypeInv
<1>2. CASE UNCHANGED vars
  <2>1. TypeOK'
    BY <1>2 DEF TypeInv, TypeOK, vars
  <2>2. \A v \in WorkerIds, u \in Tasks : TimerOf(v, u)'
    BY <1>2, TimersStay DEF vars
  <2> QED
    BY <2>1, <2>2 DEF TypeInv
<1>3. CASE Next /\ ~Tick
  BY <1>3, ProceedType, CallType, TimerType, CrashType DEF Next
<1> QED
  BY <1>1, <1>2, <1>3

LEMMA TypeInvHolds == Spec => []TypeInv
<1> QED
  BY InitTypeInv, NextTypeInv, PTL DEF Spec

\* Records, copies and leases keep their form and bounds, and no interval is cleared twice.
THEOREM TypeCorrect == Spec => []TypeOK
<1>1. TypeInv => TypeOK
  BY DEF TypeInv
<1> QED
  BY <1>1, TypeInvHolds, PTL

\* The intervals of a runtime that makes one process() call at a time are cleared with the call.
THEOREM TimersAreCleared == Spec => []TimersCleared
<1>1. TypeInv => TimersCleared
  <2> SUFFICES ASSUME TypeInv, NEW w \in WorkerIds, NEW t \in Tasks, timers[w][t] > 0, Single(w)
               PROVE  \E s \in Slots : IdOf[s] = w /\ taskOf[s] = t /\ pc[s] # "idle"
    BY DEF TimersCleared
  <2>1. TimerOf(w, t)
    BY DEF TypeInv
  <2> QED
    BY <2>1 DEF TimerOf
<1> QED
  BY <1>1, TypeInvHolds, PTL

-----------------------------------------------------------------------------
(* Who may save which copy *)

ByCall(s) == (\E t \in Tasks : ClaimFind(s, t)) \/ Proceed(s) \/ ProcessFails(s) \/ RetryFails(s)

\* A process() call leaves the other calls alone, and everything that is not its own.
LEMMA CallFrame ==
    ASSUME TypeInv, NEW s \in Slots, ByCall(s)
    PROVE  /\ \A r \in Slots \ {s} : /\ pc'[r] = pc[r] /\ found'[r] = found[r]
                                     /\ taskOf'[r] = taskOf[r] /\ granted'[r] = granted[r]
           /\ UNCHANGED <<clock, beat, caller>>
<1>0. TypeOK
  BY DEF TypeInv
<1> DEFINE Rest ==
        /\ \A r \in Slots \ {s} : /\ pc'[r] = pc[r] /\ found'[r] = found[r]
                                  /\ taskOf'[r] = taskOf[r] /\ granted'[r] = granted[r]
        /\ UNCHANGED <<clock, beat, caller>>
<1>1. ASSUME Throw(s), UNCHANGED <<clock, beat, caller>> PROVE Rest
  BY <1>0, <1>1, Throws DEF Moved
<1>2. ASSUME Leave(s), UNCHANGED <<clock, beat, caller, taskOf>> PROVE Rest
  BY <1>0, <1>2, Leaves DEF Moved
<1>3. ASSUME NEW t \in Tasks, ClaimFind(s, t) PROVE Rest
  BY <1>0, <1>3 DEF ClaimFind, GoTo, TypeOK, timerVars
<1>4. ASSUME ClaimSave(s), ~Throw(s) PROVE Rest
  BY <1>0, <1>4 DEF ClaimSave, GoTo, TypeOK
<1>5. ASSUME FinishHandler(s) PROVE Rest
  BY <1>0, <1>5 DEF FinishHandler, GoTo, TypeOK, timerVars
<1>6. ASSUME CompleteCheck(s), ~Throw(s) PROVE Rest
  BY <1>0, <1>6 DEF CompleteCheck, GoTo, TypeOK
<1>7. ASSUME CompleteTask(s), ~Throw(s) PROVE Rest
  BY <1>0, <1>7 DEF CompleteTask, GoTo, TypeOK
<1>8. ASSUME CompleteSave(s) \/ RetrySave(s) \/ RetryFails(s) PROVE Rest
  BY <1>2, <1>8 DEF CompleteSave, RetrySave, RetryFails
<1>9. ASSUME ClaimSave(s) \/ CompleteCheck(s) \/ CompleteTask(s) \/ ProcessFails(s), Throw(s) PROVE Rest
  BY <1>1, <1>9 DEF ClaimSave, CompleteCheck, CompleteTask, ProcessFails
<1>10. ProcessFails(s) => Throw(s)
  BY DEF ProcessFails
<1>11. Rest
  BY <1>3, <1>4, <1>5, <1>6, <1>7, <1>8, <1>9, <1>10 DEF ByCall, Proceed
<1> QED
  BY <1>11

\* The record is processing and its lease has run out at the time.
OutBy(i, now) == i.status = "processing" /\ i.lease # 0 /\ i.lease <= now

\* A call that is past the check of complete() holds a copy that names its worker, a heartbeat
\* under way renews a record of its worker, and a sweep releases records whose lease had run out.
CopyInv ==
    /\ \A s \in Slots : pc[s] \in {"task", "mark"} => Held(found[s], IdOf[s])
    /\ \A w \in WorkerIds, t \in Tasks : beat[w][t] # Absent => Held(beat[w][t], w)
    /\ \A c \in Callers : caller[c].op = "sweep" =>
        \A t \in caller[c].left : OutBy(caller[c].items[t], clock)

LEMMA InitCopyInv == Init => CopyInv
<1> SUFFICES ASSUME Init PROVE CopyInv
  OBVIOUS
<1>1. \A s \in Slots : pc[s] = "idle"
  BY DEF Init
<1>2. \A w \in WorkerIds, t \in Tasks : beat[w][t] = Absent
  BY DEF Init
<1>3. \A c \in Callers : caller[c].op = "none"
  BY DEF Init
<1> QED
  BY <1>1, <1>2, <1>3 DEF CopyInv

\* Time does not go back, and a lease that has run out stays so.
LEMMA TimePasses ==
    ASSUME TypeInv, [Next]_vars
    PROVE  /\ clock \in Nat /\ clock' \in Nat /\ clock <= clock'
           /\ \A i \in Items : OutBy(i, clock) => OutBy(i, clock')
<1>0. clock \in Nat
  BY QueueAssumption DEF TypeInv, TypeOK
<1>1. clock' = clock \/ clock' = clock + 1
  <2>1. ASSUME NEW s \in Slots, ByCall(s) PROVE clock' = clock
    BY <2>1, CallFrame
  <2>2. ASSUME NEW c \in Callers, Call(c) PROVE clock' = clock
    BY <2>2 DEF Call, EnqueueFind, EnqueueSave, SweepFind, SweepSave
  <2>3. ASSUME NEW w \in WorkerIds, Heartbeat(w) \/ Stop(w) \/ Crash(w) PROVE clock' = clock
    BY <2>3 DEF Heartbeat, HeartbeatFind, HeartbeatSave, Stop, Crash
  <2>4. Tick => clock' = clock + 1
    BY DEF Tick
  <2>5. UNCHANGED vars => clock' = clock
    BY DEF vars
  <2> QED
    BY <2>1, <2>2, <2>3, <2>4, <2>5 DEF Next, ByCall
<1>2. clock' \in Nat /\ clock <= clock'
  BY <1>0, <1>1
<1>3. ASSUME NEW i \in Items, OutBy(i, clock) PROVE OutBy(i, clock')
  <2>1. i.lease \in Nat /\ i.lease <= clock
    BY <1>3, QueueAssumption DEF OutBy, Items
  <2>2. i.lease <= clock'
    BY <1>0, <1>2, <2>1
  <2> QED
    BY <1>3, <2>2 DEF OutBy
<1> QED
  BY <1>0, <1>2, <1>3

\* complete() goes past its check with a copy that names its worker, and keeps it.
LEMMA ChecksHold ==
    ASSUME TypeInv, CopyInv, [Next]_vars, NEW r \in Slots, pc'[r] \in {"task", "mark"}
    PROVE  Held(found'[r], IdOf[r])
<1> DEFINE Kept == pc[r] \in {"task", "mark"} /\ found'[r] = found[r]
<1>0. Kept => Held(found'[r], IdOf[r])
  BY DEF CopyInv
<1>1. ASSUME NEW s \in Slots, ByCall(s) PROVE Held(found'[r], IdOf[r])
  <2>1. CASE r # s
    BY <1>0, <1>1, <2>1, CallFrame
  <2>2. CASE r = s
    <3>0. TypeOK
      BY DEF TypeInv
    <3>1. ~Throw(s) /\ ~Leave(s)
      BY <2>2, <3>0, Throws, Leaves DEF Moved
    <3>2. \A t \in Tasks : ~ClaimFind(s, t)
      BY <2>2, <3>0, Moves DEF ClaimFind, SlotStates, Moved
    <3>3. ~ClaimSave(s) /\ ~FinishHandler(s)
      BY <2>2, <3>0, <3>1, Moves DEF ClaimSave, FinishHandler, SlotStates, Working, Moved
    <3>4. CASE CompleteCheck(s)
      BY <2>2, <3>1, <3>4 DEF CompleteCheck, Completable
    <3>5. CASE CompleteTask(s)
      <4>1. pc[s] = "task" /\ found' = found
        BY <3>1, <3>5 DEF CompleteTask
      <4> QED
        BY <1>0, <2>2, <4>1
    <3> QED
      BY <1>1, <3>1, <3>2, <3>3, <3>4, <3>5
      DEF ByCall, Proceed, CompleteSave, RetrySave, RetryFails, ProcessFails
  <2> QED
    BY <2>1, <2>2
<1>2. ASSUME NEW c \in Callers, Call(c) PROVE pc' = pc /\ found' = found
  BY <1>2 DEF Call, EnqueueFind, EnqueueSave, SweepFind, SweepSave, slotVars
<1>3. ASSUME NEW w \in WorkerIds, Heartbeat(w) \/ Stop(w) PROVE pc' = pc /\ found' = found
  BY <1>3 DEF Heartbeat, HeartbeatFind, HeartbeatSave, Stop, slotVars
<1>4. ASSUME NEW w \in WorkerIds, Crash(w) PROVE pc'[r] = pc[r] /\ found'[r] = found[r]
  BY <1>4 DEF Crash
<1>5. Tick \/ UNCHANGED vars => pc' = pc /\ found' = found
  BY DEF Tick, vars, slotVars
<1> QED
  BY <1>0, <1>1, <1>2, <1>3, <1>4, <1>5 DEF Next, ByCall

\* A heartbeat copies a record of its worker.
LEMMA BeatsHold ==
    ASSUME TypeInv, CopyInv, [Next]_vars, NEW v \in WorkerIds, NEW u \in Tasks, beat'[v][u] # Absent
    PROVE  Held(beat'[v][u], v)
<1>0. TypeOK /\ (beat'[v][u] = beat[v][u] => Held(beat'[v][u], v))
  BY DEF CopyInv, TypeInv
<1>1. ASSUME NEW s \in Slots, ByCall(s) PROVE beat' = beat
  BY <1>1, CallFrame
<1>2. ASSUME NEW c \in Callers, Call(c) PROVE beat' = beat
  BY <1>2 DEF Call, EnqueueFind, EnqueueSave, SweepFind, SweepSave, timerVars
<1>3. ASSUME NEW w \in WorkerIds, NEW t \in Tasks, HeartbeatFind(w, t) PROVE Held(beat'[v][u], v)
  <2>1. beat' = [beat EXCEPT ![w][t] = item[t]] /\ Held(item[t], w)
    BY <1>3 DEF HeartbeatFind
  <2>2. CASE v = w /\ u = t
    BY <1>0, <2>1, <2>2 DEF TypeOK
  <2>3. CASE ~(v = w /\ u = t)
    BY <1>0, <2>1, <2>3 DEF TypeOK
  <2> QED
    BY <2>2, <2>3
<1>4. ASSUME NEW w \in WorkerIds, NEW t \in Tasks, HeartbeatSave(w, t) PROVE beat'[v][u] = beat[v][u]
  <2>1. beat' = [beat EXCEPT ![w][t] = Absent]
    BY <1>4 DEF HeartbeatSave
  <2> QED
    BY <1>0, <2>1 DEF TypeOK
<1>5. ASSUME NEW w \in WorkerIds, Crash(w) PROVE beat'[v][u] = beat[v][u]
  <2>1. beat' = [beat EXCEPT ![w] = [t \in Tasks |-> Absent]]
    BY <1>5 DEF Crash
  <2> QED
    BY <1>0, <2>1 DEF TypeOK
<1>6. ASSUME NEW w \in WorkerIds, Stop(w) PROVE beat' = beat
  BY <1>6 DEF Stop
<1>7. Tick \/ UNCHANGED vars => beat' = beat
  BY DEF Tick, vars, timerVars
<1> QED
  BY <1>0, <1>1, <1>2, <1>3, <1>4, <1>5, <1>6, <1>7 DEF Next, ByCall, Heartbeat

\* A sweep works on records whose lease had run out when it found them, and so has now.
LEMMA SweepsHold ==
    ASSUME TypeInv, CopyInv, [Next]_vars, NEW d \in Callers, caller'[d].op = "sweep",
           NEW u \in caller'[d].left
    PROVE  OutBy(caller'[d].items[u], clock')
<1>0. caller \in [Callers -> CallerStates] /\ item \in [Tasks -> Items]
  BY DEF TypeInv, TypeOK, CallerStates, Enqueues, Sweeps
<1>1. \A i \in Items : OutBy(i, clock) => OutBy(i, clock')
  BY TimePasses
<1>2. ASSUME caller[d].op = "sweep", caller'[d].items = caller[d].items, u \in caller[d].left
      PROVE  OutBy(caller'[d].items[u], clock')
  <2>1. caller[d] \in Sweeps
    BY <1>0, <1>2 DEF CallerStates, Enqueues, Sweeps
  <2>2. caller[d].items[u] \in Items /\ OutBy(caller[d].items[u], clock)
    BY <1>2, <2>1 DEF CopyInv, Sweeps
  <2> QED
    BY <1>1, <1>2, <2>2
<1>3. ASSUME caller'[d] = caller[d] PROVE OutBy(caller'[d].items[u], clock')
  BY <1>2, <1>3
<1>4. ASSUME NEW s \in Slots, ByCall(s) PROVE caller' = caller
  BY <1>4, CallFrame
<1>5. ASSUME NEW w \in WorkerIds, Heartbeat(w) \/ Stop(w) \/ Crash(w) PROVE caller' = caller
  BY <1>5 DEF Heartbeat, HeartbeatFind, HeartbeatSave, Stop, Crash
<1>6. Tick \/ UNCHANGED vars => caller' = caller
  BY DEF Tick, vars
<1>7. ASSUME NEW c \in Callers, Call(c) PROVE OutBy(caller'[d].items[u], clock')
  <2>1. CASE c # d
    <3>1. caller'[d] = caller[d]
      BY <1>0, <1>7, <2>1 DEF Call, EnqueueFind, EnqueueSave, SweepFind, SweepSave
    <3> QED
      BY <1>3, <3>1
  <2>2. CASE c = d
    <3>1. ASSUME NEW t \in Tasks, EnqueueFind(d, t) PROVE FALSE
      <4>1. caller'[d] = [op |-> "enqueue", task |-> t, found |-> item[t]]
        BY <1>0, <3>1 DEF EnqueueFind
      <4> QED
        BY <4>1
    <3>2. ASSUME EnqueueSave(d) PROVE FALSE
      <4>1. caller'[d] = [op |-> "done"]
        BY <1>0, <3>2 DEF EnqueueSave
      <4> QED
        BY <4>1
    <3>3. ASSUME SweepFind(d) PROVE OutBy(caller'[d].items[u], clock')
      <4>1. caller'[d] = [op |-> "sweep", items |-> item, left |-> {t \in Tasks : Reclaimable(item[t])}]
        BY <1>0, <3>3 DEF SweepFind
      <4>2. u \in Tasks /\ caller'[d].items = item /\ Reclaimable(item[u])
        BY <4>1
      <4>3. item[u] \in Items /\ OutBy(item[u], clock)
        BY <1>0, <4>2 DEF Reclaimable, Expired, OutBy
      <4> QED
        BY <1>1, <4>2, <4>3
    <3>4. ASSUME NEW t \in Tasks, SweepSave(d, t) PROVE OutBy(caller'[d].items[u], clock')
      <4>1. caller[d].op = "sweep" /\ caller[d] \in Sweeps
        BY <1>0, <3>4 DEF SweepSave, CallerStates, Enqueues, Sweeps
      <4>2. CASE caller'[d] = [op |-> "done"]
        BY <4>2
      <4>3. CASE caller'[d] # [op |-> "done"]
        <5>1. caller'[d] = [caller[d] EXCEPT !.left = caller[d].left \ {t}]
          BY <1>0, <3>4, <4>3 DEF SweepSave
        <5>2. caller'[d].items = caller[d].items /\ u \in caller[d].left
          BY <4>1, <5>1 DEF Sweeps
        <5> QED
          BY <1>2, <4>1, <5>2
      <4> QED
        BY <4>2, <4>3
    <3> QED
      BY <1>7, <2>2, <3>1, <3>2, <3>3, <3>4 DEF Call
  <2> QED
    BY <2>1, <2>2
<1> QED
  BY <1>3, <1>4, <1>5, <1>6, <1>7 DEF Next, ByCall

LEMMA NextCopyInv == TypeInv /\ CopyInv /\ [Next]_vars => CopyInv'
<1> SUFFICES ASSUME TypeInv, CopyInv, [Next]_vars PROVE CopyInv'
  OBVIOUS
<1>1. \A r \in Slots : pc'[r] \in {"task", "mark"} => Held(found'[r], IdOf[r])
  BY ChecksHold
<1>2. \A v \in WorkerIds, u \in Tasks : beat'[v][u] # Absent => Held(beat'[v][u], v)
  BY BeatsHold
<1>3. \A d \in Callers : caller'[d].op = "sweep" =>
        \A u \in caller'[d].left : OutBy(caller'[d].items[u], clock')
  BY SweepsHold
<1> QED
  BY <1>1, <1>2, <1>3 DEF CopyInv, Held, OutBy, Absent

LEMMA CopyInvHolds == Spec => [](TypeInv /\ CopyInv)
<1> QED
  BY InitTypeInv, NextTypeInv, InitCopyInv, NextCopyInv, PTL DEF Spec

-----------------------------------------------------------------------------
(* What a save that loses no update does to a record *)

\* A caller enqueues a record that is neither queued nor processing, or a sweep releases one
\* whose lease has run out.
Requeued(t) ==
    /\ ~Enqueued(item[t]) \/ OutBy(item[t], clock)
    /\ item'[t].status = "queued"

\* A heartbeat renews the lease.
Renewed(t) == \E w \in WorkerIds : HeartbeatSave(w, t) /\ Held(item[t], w) /\ Held(item'[t], w)
                                    /\ item'[t].lease = clock + LeaseMs

\* A call claims the record.
Claimed(t) == \E s \in Slots : ClaimSave(s) /\ ~Throw(s) /\ taskOf[s] = t /\ ClaimableItem(item[t])

\* A call of the owner marks the record completed or hands it back as the call ends.
Ended(t) == \E s \in Slots : /\ taskOf[s] = t /\ pc[s] \in {"mark", "retry"} /\ pc'[s] = "idle"
                             /\ Held(item[t], IdOf[s])

LEMMA Changes ==
    ASSUME TypeInv, CopyInv, [Next]_vars, NEW t \in Tasks, item'[t] # item[t], ~stale'
    PROVE  Requeued(t) \/ Renewed(t) \/ Claimed(t) \/ Ended(t)
<1>0. TypeOK /\ item \in [Tasks -> Items] /\ caller \in [Callers -> CallerStates]
  BY DEF TypeInv, TypeOK, CallerStates, Enqueues, Sweeps
<1>s. ASSUME NEW u \in Tasks, NEW copy, NEW i, Save(u, copy, i)
      PROVE  t = u /\ copy = item[t] /\ item'[t] = i
  BY <1>0, <1>s DEF Save, TypeOK
<1>n. ~NoSave /\ item' # item
  BY DEF NoSave
<1>1. ASSUME NEW c \in Callers, NEW u \in Tasks, EnqueueFind(c, u) PROVE FALSE
  BY <1>1, <1>n DEF EnqueueFind, queueVars
<1>2. ASSUME NEW c \in Callers, EnqueueSave(c) PROVE Requeued(t)
  <2>1. ~Enqueued(caller[c].found) /\ Save(caller[c].task, caller[c].found, Fresh)
    BY <1>2, <1>n DEF EnqueueSave
  <2>2. caller[c].task \in Tasks
    BY <1>0, <1>2 DEF EnqueueSave, CallerStates, Enqueues, Sweeps
  <2>3. caller[c].found = item[t] /\ item'[t] = Fresh
    BY <1>s, <2>1, <2>2
  <2>4. Fresh.status = "queued"
    BY DEF Fresh, Absent
  <2> QED
    BY <2>1, <2>3, <2>4 DEF Requeued
<1>3. ASSUME NEW c \in Callers, SweepFind(c) PROVE FALSE
  BY <1>3, <1>n DEF SweepFind, queueVars
<1>4. ASSUME NEW c \in Callers, NEW u \in Tasks, SweepSave(c, u) PROVE Requeued(t)
  <2>1. Save(u, caller[c].items[u], Release(caller[c].items[u], "queued"))
        /\ OutBy(caller[c].items[u], clock)
    BY <1>4 DEF SweepSave, CopyInv
  <2>2. t = u /\ caller[c].items[u] = item[t] /\ item'[t] = Release(item[t], "queued")
    BY <1>s, <2>1
  <2> QED
    BY <2>1, <2>2 DEF Requeued, Release
<1>5. ASSUME NEW w \in WorkerIds, NEW u \in Tasks, HeartbeatFind(w, u) PROVE FALSE
  BY <1>5, <1>n DEF HeartbeatFind, queueVars
<1>6. ASSUME NEW w \in WorkerIds, NEW u \in Tasks, HeartbeatSave(w, u) PROVE Renewed(t)
  <2>1. /\ Save(u, beat[w][u], [beat[w][u] EXCEPT !.lease = clock + LeaseMs])
        /\ Held(beat[w][u], w)
    BY <1>6 DEF HeartbeatSave, CopyInv
  <2>2. t = u /\ beat[w][u] = item[t] /\ item'[t] = [item[t] EXCEPT !.lease = clock + LeaseMs]
    BY <1>s, <2>1
  <2>3. item[t] \in Items
    BY <1>0
  <2>4. item'[t].status = item[t].status /\ item'[t].worker = item[t].worker
        /\ item'[t].lease = clock + LeaseMs
    BY <2>2, <2>3 DEF Items
  <2> QED
    BY <1>6, <2>1, <2>2, <2>4 DEF Renewed, Held
<1>7. ASSUME NEW w \in WorkerIds, Stop(w) \/ Crash(w) PROVE FALSE
  BY <1>7, <1>n DEF Stop, Crash, queueVars
<1>8. Tick \/ UNCHANGED vars => FALSE
  BY <1>n DEF Tick, vars, queueVars
<1>9. ASSUME NEW s \in Slots, ByCall(s) PROVE Claimed(t) \/ Ended(t)
  <2>0. taskOf[s] \in Tasks
    BY <1>0 DEF TypeOK
  <2>1. ~Throw(s) /\ ~RetryFails(s) /\ ~ProcessFails(s)
    BY <1>n DEF Throw, RetryFails, ProcessFails
  <2>2. ~FinishHandler(s) /\ \A u \in Tasks : ~ClaimFind(s, u)
    BY <1>n DEF FinishHandler, ClaimFind, queueVars
  <2>3. ~CompleteCheck(s) /\ ~CompleteTask(s)
    BY <1>n, <2>1 DEF CompleteCheck, CompleteTask
  <2>4. CASE ClaimSave(s)
    <3> DEFINE i == [status |-> "processing", attempts |-> Bump(found[s].attempts),
                     worker |-> IdOf[s], lease |-> clock + LeaseMs]
    <3>1. ClaimableItem(found[s]) /\ Save(taskOf[s], found[s], i)
      BY <2>1, <2>4 DEF ClaimSave
    <3>2. t = taskOf[s] /\ found[s] = item[t]
      <4> HIDE DEF i
      <4> QED
        BY <1>s, <2>0, <3>1
    <3> QED
      BY <2>1, <2>4, <3>1, <3>2 DEF Claimed
  <2>5. CASE CompleteSave(s)
    <3>1. /\ pc[s] = "mark" /\ Save(taskOf[s], found[s], Release(found[s], "completed")) /\ Leave(s)
          /\ Held(found[s], IdOf[s])
      BY <2>5 DEF CompleteSave, CopyInv
    <3>2. t = taskOf[s] /\ found[s] = item[t]
      BY <1>s, <2>0, <3>1
    <3>3. pc'[s] = "idle"
      BY <3>1, Leaves DEF Moved
    <3> QED
      BY <3>1, <3>2, <3>3 DEF Ended
  <2>6. CASE RetrySave(s)
    <3>1. /\ pc[s] = "retry" /\ Save(taskOf[s], found[s], Release(found[s], "queued")) /\ Leave(s)
          /\ Held(found[s], IdOf[s])
      BY <1>n, <2>6 DEF RetrySave, RetryableBy
    <3>2. t = taskOf[s] /\ found[s] = item[t]
      BY <1>s, <2>0, <3>1
    <3>3. pc'[s] = "idle"
      BY <3>1, Leaves DEF Moved
    <3> QED
      BY <3>1, <3>2, <3>3 DEF Ended
  <2> QED
    BY <1>9, <2>1, <2>2, <2>3, <2>4, <2>5, <2>6 DEF ByCall, Proceed
<1> QED
  BY <1>1, <1>2, <1>3, <1>4, <1>5, <1>6, <1>7, <1>8, <1>9 DEF Next, ByCall, Call, Heartbeat

\* A live lease is not taken away: a record under an unexpired lease is renewed by its owner or
\* changed as a call of the owner ends.
THEOREM LiveLeasesAreKept == Spec => LiveLeaseKept
<1> DEFINE Kept(t) ==
        /\ item[t].status = "processing" /\ item[t].lease > clock /\ item'[t] # item[t] /\ ~stale'
        => \/ item'[t].worker = item[t].worker
           \/ \E s \in Slots : /\ IdOf[s] = item[t].worker /\ taskOf[s] = t
                               /\ pc[s] # "idle" /\ pc'[s] = "idle"
<1>1. TypeInv /\ CopyInv /\ [Next]_vars => \A t \in Tasks : Kept(t)
  <2> SUFFICES ASSUME TypeInv, CopyInv, [Next]_vars, NEW t \in Tasks,
                      item[t].status = "processing", item[t].lease > clock, item'[t] # item[t], ~stale'
               PROVE  \/ item'[t].worker = item[t].worker
                      \/ \E s \in Slots : /\ IdOf[s] = item[t].worker /\ taskOf[s] = t
                                          /\ pc[s] # "idle" /\ pc'[s] = "idle"
    OBVIOUS
  <2>1. Enqueued(item[t]) /\ ~OutBy(item[t], clock) /\ ~ClaimableItem(item[t])
    <3>1. item[t].lease \in Nat /\ clock \in Nat
      BY QueueAssumption DEF TypeInv, TypeOK, Items
    <3>2. ~(item[t].lease <= clock)
      BY <3>1
    <3> QED
      BY <3>2 DEF Enqueued, OutBy, ClaimableItem, Expired
  <2>2. Renewed(t) \/ Ended(t)
    BY <2>1, Changes DEF Requeued, Claimed
  <2>3. CASE Renewed(t)
    BY <2>3 DEF Renewed, Held
  <2>4. CASE Ended(t)
    BY <2>4 DEF Ended, Held
  <2> QED
    BY <2>2, <2>3, <2>4
<1>2. TypeInv /\ CopyInv /\ [Next]_vars =>
        [\A t \in Tasks :
         /\ item[t].status = "processing" /\ item[t].lease > clock
         /\ item'[t] # item[t] /\ ~stale'
         => \/ item'[t].worker = item[t].worker
            \/ \E s \in Slots : /\ IdOf[s] = item[t].worker /\ taskOf[s] = t
                                /\ pc[s] # "idle" /\ pc'[s] = "idle"]_vars
  BY <1>1
<1> QED
  BY <1>2, CopyInvHolds, PTL DEF Spec, LiveLeaseKept

-----------------------------------------------------------------------------
(* Lease exclusion *)

\* A call that works under a lease that has not run out is the one the record names.
Granted(s) ==
    Single(IdOf[s]) /\ pc[s] \in Working /\ granted[s] > clock /\ ~stale
    => Held(item[taskOf[s]], IdOf[s]) /\ item[taskOf[s]].lease = granted[s]

LeaseInv == \A s \in Slots : Granted(s)

LEMMA InitLeaseInv == Init => LeaseInv
<1> SUFFICES ASSUME Init, NEW s \in Slots PROVE Granted(s)
  BY DEF LeaseInv
<1>1. pc[s] = "idle"
  BY DEF Init
<1> QED
  BY <1>1 DEF Granted, Working

\* A call that works has been working under the same lease, or claims, or is renewed.
LEMMA Grants ==
    ASSUME TypeInv, [Next]_vars, NEW s \in Slots, pc'[s] \in Working
    PROVE  \/ pc[s] \in Working /\ taskOf'[s] = taskOf[s] /\ granted'[s] = granted[s]
           \/ ClaimSave(s) /\ ~Throw(s)
           \/ /\ HeartbeatSave(IdOf[s], taskOf[s])
              /\ pc[s] \in Working /\ taskOf'[s] = taskOf[s]
<1> DEFINE Same == pc[s] \in Working /\ taskOf'[s] = taskOf[s] /\ granted'[s] = granted[s]
<1>0. TypeOK /\ "retry" \notin Working /\ "idle" \notin Working /\ "claim" \notin Working
  BY DEF TypeInv, Working
<1>1. ASSUME NEW r \in Slots, ByCall(r), r # s PROVE Same
  BY <1>1, CallFrame
<1>2. ASSUME ByCall(s) PROVE Same \/ (ClaimSave(s) /\ ~Throw(s))
  <2>1. ~Throw(s) /\ ~Leave(s)
    BY <1>0, Throws, Leaves DEF Moved
  <2>2. \A t \in Tasks : ~ClaimFind(s, t)
    BY <1>0, Moves DEF ClaimFind, SlotStates, Moved
  <2>3. CASE FinishHandler(s)
    BY <2>3 DEF FinishHandler, Working
  <2>4. CASE CompleteCheck(s)
    BY <2>1, <2>4 DEF CompleteCheck, Working
  <2>5. CASE CompleteTask(s)
    BY <2>1, <2>5 DEF CompleteTask, Working
  <2> QED
    BY <1>2, <2>1, <2>2, <2>3, <2>4, <2>5
    DEF ByCall, Proceed, CompleteSave, RetrySave, RetryFails, ProcessFails
<1>3. ASSUME NEW c \in Callers, Call(c) PROVE Same
  BY <1>3 DEF Call, EnqueueFind, EnqueueSave, SweepFind, SweepSave, slotVars
<1>4. ASSUME NEW w \in WorkerIds, NEW t \in Tasks, HeartbeatFind(w, t) PROVE Same
  BY <1>4 DEF HeartbeatFind, slotVars
<1>5. ASSUME NEW w \in WorkerIds, NEW t \in Tasks, HeartbeatSave(w, t)
      PROVE  Same \/ (w = IdOf[s] /\ t = taskOf[s] /\ pc[s] \in Working /\ taskOf'[s] = taskOf[s])
  BY <1>5 DEF HeartbeatSave
<1>6. ASSUME NEW w \in WorkerIds, Stop(w) PROVE Same
  BY <1>6 DEF Stop, slotVars
<1>7. ASSUME NEW w \in WorkerIds, Crash(w) PROVE Same
  BY <1>0, <1>7 DEF Crash
<1>8. Tick \/ UNCHANGED vars => Same
  BY DEF Tick, vars, slotVars
<1> QED
  BY <1>1, <1>2, <1>3, <1>4, <1>5, <1>6, <1>7, <1>8 DEF Next, ByCall, Heartbeat

LEMMA NextLeaseInv == TypeInv /\ CopyInv /\ LeaseInv /\ [Next]_vars => LeaseInv'
<1> SUFFICES ASSUME TypeInv, CopyInv, LeaseInv, [Next]_vars, NEW s \in Slots,
                    Single(IdOf[s]), pc'[s] \in Working, granted'[s] > clock', ~stale'
             PROVE  Held(item'[taskOf'[s]], IdOf[s]) /\ item'[taskOf'[s]].lease = granted'[s]
  BY DEF LeaseInv, Granted, Single, Held
<1> DEFINE t == taskOf[s]
<1>0. TypeOK /\ t \in Tasks /\ IdOf[s] \in WorkerIds
  BY QueueAssumption DEF TypeInv, TypeOK
<1>1. CASE ClaimSave(s) /\ ~Throw(s)
  <2> DEFINE i == [status |-> "processing", attempts |-> Bump(found[s].attempts),
                   worker |-> IdOf[s], lease |-> clock + LeaseMs]
  <2>1. Save(t, found[s], i) /\ taskOf' = taskOf /\ granted' = [granted EXCEPT ![s] = i.lease]
    BY <1>1 DEF ClaimSave
  <2>2. item'[t] = i /\ granted'[s] = i.lease
    <3> HIDE DEF i
    <3> QED
      BY <1>0, <2>1 DEF Save, TypeOK
  <2> QED
    BY <2>1, <2>2 DEF Held
<1>2. CASE HeartbeatSave(IdOf[s], t) /\ pc[s] \in Working /\ taskOf'[s] = t
  <2>1. Held(beat[IdOf[s]][t], IdOf[s]) /\ beat[IdOf[s]][t] \in Items
    BY <1>0, <1>2 DEF CopyInv, HeartbeatSave, TypeOK
  <2>2. item'[t] = [beat[IdOf[s]][t] EXCEPT !.lease = clock + LeaseMs] /\ granted'[s] = clock + LeaseMs
    BY <1>0, <1>2 DEF HeartbeatSave, Save, TypeOK
  <2>3. /\ item'[t].status = beat[IdOf[s]][t].status /\ item'[t].worker = beat[IdOf[s]][t].worker
        /\ item'[t].lease = clock + LeaseMs
    BY <2>1, <2>2 DEF Items
  <2> QED
    BY <1>2, <2>1, <2>2, <2>3 DEF Held
<1>3. CASE ~HeartbeatSave(IdOf[s], t) /\ pc[s] \in Working /\ taskOf'[s] = t /\ granted'[s] = granted[s]
  <2>1. granted[s] > clock /\ ~stale
    <3>1. granted[s] \in Nat /\ clock \in Nat /\ clock' \in Nat /\ clock <= clock'
      BY <1>0, TimePasses, QueueAssumption DEF TypeOK
    <3>2. granted[s] > clock
      BY <1>3, <3>1
    <3>3. ~stale
      <4>1. ASSUME NEW r \in Slots, ByCall(r), stale PROVE stale'
        <5>1. ASSUME NEW u \in Tasks, NEW copy, NEW i, Save(u, copy, i) PROVE stale'
          BY <4>1, <5>1 DEF Save
        <5>2. NoSave => stale'
          BY <4>1 DEF NoSave
        <5>3. ~NoSave => (ClaimSave(r) /\ ~Throw(r)) \/ CompleteSave(r) \/ RetrySave(r)
          BY <4>1 DEF ByCall, Proceed, ClaimFind, FinishHandler, CompleteCheck, CompleteTask, RetryFails,
            ProcessFails, ClaimSave, Throw, NoSave, queueVars
        <5>4. taskOf[r] \in Tasks
          BY <1>0 DEF TypeOK
        <5>5. CASE ClaimSave(r) /\ ~Throw(r)
          BY <5>1, <5>4, <5>5 DEF ClaimSave
        <5>6. CASE CompleteSave(r) \/ RetrySave(r)
          BY <5>1, <5>2, <5>4, <5>6 DEF CompleteSave, RetrySave
        <5> QED
          BY <5>2, <5>3, <5>5, <5>6
      <4>2. ASSUME NEW c \in Callers, Call(c), stale PROVE stale'
        BY <4>2 DEF Call, EnqueueFind, EnqueueSave, SweepFind, SweepSave, Save, NoSave
      <4>3. ASSUME NEW w \in WorkerIds, Heartbeat(w) \/ Stop(w) \/ Crash(w), stale PROVE stale'
        BY <4>3 DEF Heartbeat, HeartbeatFind, HeartbeatSave, Save, Stop, Crash
      <4>4. Tick \/ UNCHANGED vars => stale' = stale
        BY DEF Tick, vars
      <4> QED
        BY <4>1, <4>2, <4>3, <4>4 DEF Next, ByCall
    <3> QED
      BY <3>2, <3>3
  <2>2. Held(item[t], IdOf[s]) /\ item[t].lease = granted[s]
    BY <1>3, <2>1 DEF LeaseInv, Granted
  <2>3. Enqueued(item[t]) /\ ~OutBy(item[t], clock) /\ ~ClaimableItem(item[t])
    <3>1. item[t].lease \in Nat /\ clock \in Nat
      BY <1>0, QueueAssumption DEF TypeOK, Items
    <3>2. ~(item[t].lease <= clock)
      BY <2>1, <2>2, <3>1
    <3> QED
      BY <2>2, <3>2 DEF Enqueued, OutBy, ClaimableItem, Expired, Held
  <2>4. ~Requeued(t) /\ ~Claimed(t)
    BY <2>3 DEF Requeued, Claimed
  <2>5. ~Renewed(t)
    BY <1>3, <2>2 DEF Renewed, Held
  <2>6. ~Ended(t)
    <3>1. ASSUME NEW r \in Slots, Held(item[t], IdOf[r]) PROVE r = s
      BY <2>2, <3>1 DEF Held, Single
    <3>2. pc'[s] # "idle"
      BY DEF Working
    <3> QED
      BY <3>1, <3>2 DEF Ended
  <2>7. item'[t] = item[t]
    BY <1>0, <2>4, <2>5, <2>6, Changes
  <2> QED
    BY <1>3, <2>2, <2>7
<1> QED
  BY <1>1, <1>2, <1>3, Grants

\* Up to lost updates, two runtimes that make one call at a time each work on one task at the
\* same time only after the lease of one of them has run out.
THEOREM LeasesExclude == Spec => []LeaseExclusion
<1>1. TypeInv /\ LeaseInv => LeaseExclusion
  <2> SUFFICES ASSUME TypeInv, LeaseInv, NEW r \in Slots, NEW s \in Slots,
                      IdOf[r] # IdOf[s], Single(IdOf[r]), Single(IdOf[s]), taskOf[r] = taskOf[s],
                      pc[r] \in Working, pc[s] \in Working, ~stale
               PROVE  granted[r] <= clock \/ granted[s] <= clock
    BY DEF LeaseExclusion
  <2>1. granted[r] \in Nat /\ granted[s] \in Nat /\ clock \in Nat
    BY QueueAssumption DEF TypeInv, TypeOK
  <2>2. ~(granted[r] > clock /\ granted[s] > clock)
    BY DEF LeaseInv, Granted, Held
  <2> QED
    BY <2>1, <2>2
<1> QED
  BY <1>1, CopyInvHolds, InitLeaseInv, NextLeaseInv, PTL DEF Spec

-----------------------------------------------------------------------------
(* Completion *)

CompletionInv ==
    /\ CompletionIsEarned
    /\ \A s \in Slots : /\ pc[s] \in {"check", "task", "mark"} => taskOf[s] \in handled
                        /\ pc[s] = "mark" => task[taskOf[s]] = "completed"

LEMMA InitCompletionInv == Init => CompletionInv
<1> SUFFICES ASSUME Init PROVE CompletionInv
  OBVIOUS
<1>1. \A s \in Slots : pc[s] = "idle"
  BY DEF Init
<1>2. \A t \in Tasks : task[t] = "pending" /\ item[t].status # "completed"
  <2>1. Absent.status = "absent" /\ Fresh.status = "queued"
    BY DEF Absent, Fresh
  <2>2. \A t \in Tasks : task[t] = "pending" /\ (item[t] = Absent \/ item[t] = Fresh)
    BY DEF Init
  <2> QED
    BY <2>1, <2>2
<1> QED
  BY <1>1, <1>2 DEF CompletionInv, CompletionIsEarned

\* Tasks are completed only by a call whose handler has returned, and stay completed.
LEMMA TasksComplete ==
    ASSUME TypeInv, CompletionInv, [Next]_vars
    PROVE  /\ \A t \in Tasks : /\ task[t] = "completed" => task'[t] = "completed"
                               /\ task'[t] = "completed" => t \in handled
           /\ handled \subseteq handled'
<1> DEFINE Good ==
        /\ \A t \in Tasks : /\ task[t] = "completed" => task'[t] = "completed"
                            /\ task'[t] = "completed" => t \in handled
        /\ handled \subseteq handled'
<1>0. TypeOK /\ \A t \in Tasks : task[t] = "completed" => t \in handled
  BY DEF TypeInv, CompletionInv, CompletionIsEarned
<1>1. ASSUME task' = task, handled' = handled PROVE Good
  BY <1>0, <1>1
<1>2. ASSUME NEW s \in Slots, FinishHandler(s) PROVE Good
  BY <1>0, <1>2 DEF FinishHandler, queueVars
<1>3. ASSUME NEW s \in Slots, CompleteTask(s), ~Throw(s) PROVE Good
  <2>1. task' = [task EXCEPT ![taskOf[s]] = "completed"] /\ handled' = handled /\ taskOf[s] \in handled
    BY <1>3 DEF CompleteTask, CompletionInv
  <2> QED
    BY <1>0, <2>1 DEF TypeOK
<1>4. ASSUME NEW s \in Slots, ByCall(s), ~FinishHandler(s), ~(CompleteTask(s) /\ ~Throw(s))
      PROVE  task' = task /\ handled' = handled
  BY <1>4 DEF ByCall, Proceed, ClaimFind, ClaimSave, CompleteCheck, CompleteTask, CompleteSave, RetrySave,
    RetryFails, ProcessFails, Throw, queueVars
<1>5. ASSUME NEW c \in Callers, Call(c) PROVE task' = task /\ handled' = handled
  BY <1>5 DEF Call, EnqueueFind, EnqueueSave, SweepFind, SweepSave, queueVars
<1>6. ASSUME NEW w \in WorkerIds, Heartbeat(w) \/ Stop(w) \/ Crash(w)
      PROVE  task' = task /\ handled' = handled
  BY <1>6 DEF Heartbeat, HeartbeatFind, HeartbeatSave, Stop, Crash, queueVars
<1>7. Tick \/ UNCHANGED vars => task' = task /\ handled' = handled
  BY DEF Tick, vars, queueVars
<1>8. Good
  BY <1>1, <1>2, <1>3, <1>4, <1>5, <1>6, <1>7 DEF Next, ByCall
<1> QED
  BY <1>8

\* A record is marked completed only by a call that has completed the task.
LEMMA ItemsComplete ==
    ASSUME TypeInv, CopyInv, CompletionInv, [Next]_vars, NEW t \in Tasks, item'[t].status = "completed"
    PROVE  task[t] = "completed"
<1>0. TypeOK /\ (item[t].status = "completed" => task[t] = "completed")
  BY DEF TypeInv, CompletionInv, CompletionIsEarned
<1>s. ASSUME NEW u \in Tasks, NEW copy, NEW i, Save(u, copy, i), i.status # "completed"
      PROVE  item'[t] = item[t]
  <2>1. item' = [item EXCEPT ![u] = i]
    BY <1>s DEF Save
  <2>2. CASE t = u
    BY <1>0, <1>s, <2>1, <2>2 DEF TypeOK
  <2>3. CASE t # u
    BY <1>0, <2>1, <2>3 DEF TypeOK
  <2> QED
    BY <2>2, <2>3
<1>n. NoSave => item' = item
  BY DEF NoSave
<1>r. \A i : Release(i, "queued").status # "completed" /\ Fresh.status # "completed"
  BY DEF Release, Fresh, Absent
<1>1. ASSUME NEW s \in Slots, ByCall(s), ~CompleteSave(s) PROVE item'[t] = item[t]
  <2>0. taskOf[s] \in Tasks
    BY <1>0 DEF TypeOK
  <2>1. Throw(s) => item' = item
    BY <1>n DEF Throw
  <2>2. ASSUME ClaimSave(s), ~Throw(s) PROVE item'[t] = item[t]
    <3> DEFINE i == [status |-> "processing", attempts |-> Bump(found[s].attempts),
                     worker |-> IdOf[s], lease |-> clock + LeaseMs]
    <3>1. Save(taskOf[s], found[s], i) /\ i.status # "completed"
      BY <2>2 DEF ClaimSave
    <3> HIDE DEF i
    <3> QED
      BY <1>s, <2>0, <3>1
  <2>3. ASSUME RetrySave(s) PROVE item'[t] = item[t]
    BY <1>n, <1>r, <1>s, <2>0, <2>3 DEF RetrySave
  <2>4. ASSUME RetryFails(s) \/ ProcessFails(s) PROVE item' = item
    BY <1>n, <2>1, <2>4 DEF RetryFails, ProcessFails
  <2>5. ASSUME FinishHandler(s) \/ \E u \in Tasks : ClaimFind(s, u) PROVE item' = item
    BY <2>5 DEF FinishHandler, ClaimFind, queueVars
  <2>6. ASSUME CompleteCheck(s) \/ CompleteTask(s) PROVE item' = item
    BY <1>n, <2>1, <2>6 DEF CompleteCheck, CompleteTask
  <2> QED
    BY <1>1, <2>1, <2>2, <2>3, <2>4, <2>5, <2>6 DEF ByCall, Proceed
<1>2. ASSUME NEW s \in Slots, CompleteSave(s) PROVE task[t] = "completed"
  <2>1. /\ pc[s] = "mark" /\ taskOf[s] \in Tasks
        /\ item' = [item EXCEPT ![taskOf[s]] = Release(found[s], "completed")]
    BY <1>0, <1>2 DEF CompleteSave, Save, TypeOK
  <2>2. CASE t = taskOf[s]
    BY <2>1, <2>2 DEF CompletionInv
  <2>3. CASE t # taskOf[s]
    BY <1>0, <2>1, <2>3 DEF TypeOK
  <2> QED
    BY <2>2, <2>3
<1>3. ASSUME NEW c \in Callers, Call(c) PROVE item'[t] = item[t]
  <2>0. caller \in [Callers -> CallerStates]
    BY <1>0 DEF TypeOK, CallerStates, Enqueues, Sweeps
  <2>1. ASSUME NEW u \in Tasks, EnqueueFind(c, u) \/ SweepFind(c) PROVE item' = item
    BY <2>1 DEF EnqueueFind, SweepFind, queueVars
  <2>2. ASSUME EnqueueSave(c) PROVE item'[t] = item[t]
    <3>1. caller[c].task \in Tasks
      BY <2>0, <2>2 DEF EnqueueSave, CallerStates, Enqueues, Sweeps
    <3> QED
      BY <1>n, <1>r, <1>s, <2>2, <3>1 DEF EnqueueSave
  <2>3. ASSUME NEW u \in Tasks, SweepSave(c, u) PROVE item'[t] = item[t]
    BY <1>r, <1>s, <2>3 DEF SweepSave
  <2> QED
    BY <1>3, <2>1, <2>2, <2>3 DEF Call
<1>4. ASSUME NEW w \in WorkerIds, Heartbeat(w) \/ Stop(w) \/ Crash(w) PROVE item'[t] = item[t]
  <2>1. ASSUME NEW u \in Tasks, HeartbeatFind(w, u) \/ Stop(w) \/ Crash(w) PROVE item' = item
    BY <2>1 DEF HeartbeatFind, Stop, Crash, queueVars
  <2>2. ASSUME NEW u \in Tasks, HeartbeatSave(w, u) PROVE item'[t] = item[t]
    <3> DEFINE i == [beat[w][u] EXCEPT !.lease = clock + LeaseMs]
    <3>1. Held(beat[w][u], w) /\ beat[w][u] \in Items
      BY <1>0, <2>2 DEF HeartbeatSave, CopyInv, TypeOK
    <3>2. i.status # "completed"
      BY <3>1 DEF Items, Held
    <3>3. Save(u, beat[w][u], i)
      BY <2>2 DEF HeartbeatSave
    <3> HIDE DEF i
    <3> QED
      BY <1>s, <3>2, <3>3
  <2> QED
    BY <1>4, <2>1, <2>2 DEF Heartbeat, Stop, Crash, queueVars
<1>5. Tick \/ UNCHANGED vars => item' = item
  BY DEF Tick, vars, queueVars
<1> QED
  BY <1>0, <1>1, <1>2, <1>3, <1>4, <1>5 DEF Next, ByCall

\* What a call knows of its task where it is.
LEMMA CallsKnow ==
    ASSUME TypeInv, CompletionInv, [Next]_vars, NEW r \in Slots
    PROVE  /\ pc'[r] \in {"check", "task", "mark"} => taskOf'[r] \in handled'
           /\ pc'[r] = "mark" => task'[taskOf'[r]] = "completed"
<1> DEFINE Known == /\ pc'[r] \in {"check", "task", "mark"} => taskOf'[r] \in handled'
                    /\ pc'[r] = "mark" => task'[taskOf'[r]] = "completed"
<1>0. /\ TypeOK /\ taskOf[r] \in Tasks /\ handled \subseteq handled'
      /\ \A t \in Tasks : task[t] = "completed" => task'[t] = "completed"
  BY TasksComplete DEF TypeInv, TypeOK
<1>1. ASSUME pc'[r] = pc[r], taskOf'[r] = taskOf[r] PROVE Known
  BY <1>0, <1>1 DEF CompletionInv
<1>2. ASSUME pc'[r] \in {"idle", "claim", "handle", "retry"} PROVE Known
  BY <1>2
<1>3. ASSUME NEW s \in Slots, ByCall(s), s # r PROVE Known
  BY <1>1, <1>3, CallFrame
<1>4. ASSUME ByCall(r) PROVE Known
  <2>1. CASE Throw(r) \/ Leave(r)
    BY <1>0, <1>2, <2>1, Throws, Leaves DEF Moved
  <2>2. CASE (\E t \in Tasks : ClaimFind(r, t)) \/ (ClaimSave(r) /\ ~Throw(r))
    <3>1. pc'[r] \in {"claim", "handle"}
      BY <1>0, <2>2 DEF ClaimFind, ClaimSave, GoTo, TypeOK
    <3> QED
      BY <1>2, <3>1
  <2>3. CASE FinishHandler(r)
    <3>1. pc'[r] = "check" /\ taskOf'[r] = taskOf[r] /\ taskOf[r] \in handled'
      BY <1>0, <2>3 DEF FinishHandler, GoTo, TypeOK
    <3> QED
      BY <3>1
  <2>4. CASE CompleteCheck(r) /\ ~Throw(r)
    <3>1. pc[r] = "check" /\ pc'[r] = "task" /\ taskOf'[r] = taskOf[r]
      BY <1>0, <2>4 DEF CompleteCheck, GoTo, TypeOK
    <3> QED
      BY <1>0, <3>1 DEF CompletionInv
  <2>5. CASE CompleteTask(r) /\ ~Throw(r)
    <3>1. /\ pc[r] = "task" /\ pc'[r] = "mark" /\ taskOf'[r] = taskOf[r]
          /\ task'[taskOf[r]] = "completed"
      BY <1>0, <2>5 DEF CompleteTask, GoTo, TypeOK
    <3> QED
      BY <1>0, <3>1 DEF CompletionInv
  <2> QED
    BY <1>4, <2>1, <2>2, <2>3, <2>4, <2>5
    DEF ByCall, Proceed, CompleteSave, RetrySave, RetryFails, ProcessFails
<1>5. ASSUME NEW c \in Callers, Call(c) PROVE pc' = pc /\ taskOf' = taskOf
  BY <1>5 DEF Call, EnqueueFind, EnqueueSave, SweepFind, SweepSave, slotVars
<1>6. ASSUME NEW w \in WorkerIds, Heartbeat(w) \/ Stop(w) PROVE pc' = pc /\ taskOf' = taskOf
  BY <1>6 DEF Heartbeat, HeartbeatFind, HeartbeatSave, Stop, slotVars
<1>7. ASSUME NEW w \in WorkerIds, Crash(w) PROVE Known
  <2>1. taskOf' = taskOf /\ pc'[r] \in {pc[r], "idle"}
    BY <1>7 DEF Crash
  <2> QED
    BY <1>1, <1>2, <2>1
<1>8. Tick \/ UNCHANGED vars => pc' = pc /\ taskOf' = taskOf
  BY DEF Tick, vars, slotVars
<1>9. Known
  BY <1>1, <1>3, <1>4, <1>5, <1>6, <1>7, <1>8 DEF Next, ByCall
<1> QED
  BY <1>9

\* No record says completed of a task that is not, and no task is completed whose handler
\* never returned.
THEOREM CompletionsAreEarned == Spec => []CompletionIsEarned
<1>1. TypeInv /\ CopyInv /\ CompletionInv /\ [Next]_vars => CompletionInv'
  <2> SUFFICES ASSUME TypeInv, CopyInv, CompletionInv, [Next]_vars PROVE CompletionInv'
    OBVIOUS
  <2>1. \A t \in Tasks : item'[t].status = "completed" => task'[t] = "completed"
    BY ItemsComplete, TasksComplete
  <2>2. \A t \in Tasks : task'[t] = "completed" => t \in handled'
    BY TasksComplete
  <2>3. \A r \in Slots : /\ pc'[r] \in {"check", "task", "mark"} => taskOf'[r] \in handled'
                         /\ pc'[r] = "mark" => task'[taskOf'[r]] = "completed"
    BY CallsKnow
  <2> QED
    BY <2>1, <2>2, <2>3 DEF CompletionInv, CompletionIsEarned
<1>2. CompletionInv => CompletionIsEarned
  BY DEF CompletionInv
<1> QED
  BY <1>1, <1>2, CopyInvHolds, InitCompletionInv, PTL DEF Spec

=============================================================================
