----------------------------- MODULE TaskEvents -----------------------------
(***************************************************************************)
(* One task of a process and the events about it.  startTask and           *)
(* completeTask find the task, save a changed copy and publish an event;   *)
(* the bus appends the event to the durable store, which is a find and a   *)
(* later save, and then calls the handlers one after the other; an error   *)
(* of any of them is the caller's.  Events with an id of their own come    *)
(* from other publishers, who may repeat them, and a consumer may ask the  *)
(* store to replay what it holds.                                          *)
(*                                                                         *)
(* The repository is that of one tenant; its saves may fail as statements  *)
(* on the pool do.  An event is named by the call that made it; its type,  *)
(* stamps and payload are left out, and so is the order of a replay.  Some *)
(* names differ from the usual ones because ProcessProofs extends this     *)
(* module beside Orchestration.                                            *)
(***************************************************************************)
EXTENDS Naturals, Sequences, FiniteSets

CONSTANTS
    Callers,     \* calls, each made once
    Plans,       \* bound: what the calls of a behaviour are
    Ids,         \* ids that publishers give their events
    IdOf,        \* the id each publisher gives
    Handlers,    \* number of handlers on the bus
    None,        \* no event
    FaultKinds,  \* which repository faults happen: subset of {"lost", "unacknowledged"}
    MaxFailures  \* bound: failing saves and handlers and crashes in a behaviour

ASSUME TaskEventsAssumption ==
    /\ Plans \subseteq [Callers -> {"start", "complete", "publish", "replay"}]
    /\ IdOf \in [Callers -> Ids] /\ Ids \cap Callers = {}
    /\ Handlers \in Nat /\ None \notin Callers
    /\ FaultKinds \subseteq {"lost", "unacknowledged"}
    /\ MaxFailures \in Nat

VARIABLES
    task,       \* status of the task record
    store,      \* the event record of each id
    op,         \* what each call is
    at,         \* where it is
    event,      \* the event it delivers, as the store answered
    todo,       \* handlers still to be called; of a replay, the events still to be given
    handled,    \* events each handler, and the consumer of a replay (0), has been given
    done,       \* history: calls whose save of the task took effect
    shown,      \* history: events each replay found in the store
    failures,
    raced,      \* history: two calls held copies of the task at a time
    racedIds    \* history: ids of which two appends ran side by side

deliveryVars == <<event, todo, handled>>
history == <<done, shown, raced, racedIds>>
taskVars == <<task, store, op, at, deliveryVars, failures, history>>

\* The engine publishes without an id, and the store makes one up.
Id(c) == IF op[c] = "publish" THEN IdOf[c] ELSE c

TaskInit ==
    /\ task \in {"pending", "in_progress"}
    /\ store = [i \in Ids \cup Callers |-> None]
    /\ op \in Plans
    /\ at = [c \in Callers |-> "start"]
    /\ event = [c \in Callers |-> None]
    /\ todo = [c \in Callers |-> <<>>]
    /\ handled = [h \in 0..Handlers |-> {}]
    /\ done = {} /\ shown = [c \in Callers |-> {}]
    /\ failures = 0
    /\ raced = FALSE /\ racedIds = {}

Over == {"ok", "refused", "failed"}
Goto(c, place) == at' = [at EXCEPT ![c] = place]
Outcomes == {"ok"} \cup FaultKinds
Applied(o) == o # "lost"

Statement(c, o, next) ==
    /\ o # "ok" => failures < MaxFailures
    /\ failures' = IF o = "ok" THEN failures ELSE failures + 1
    /\ Goto(c, IF o = "ok" THEN next ELSE "failed")
-----------------------------------------------------------------------------
(* startTask and completeTask *)

\* Mutant: a completed task is completed again.
RefusedStart(c) == op[c] = "start" /\ task = "completed"

Refused(c) == task = "completed"

FindTask(c) ==
    /\ op[c] \in {"start", "complete"} /\ at[c] = "start"
    /\ Goto(c, IF Refused(c) THEN "refused" ELSE "found")
    /\ raced' = (raced \/ (~Refused(c) /\ \E d \in Callers : at[d] = "found"))
    /\ UNCHANGED <<task, store, op, deliveryVars, failures, done, shown, racedIds>>

SaveTask(c) ==
    /\ at[c] = "found"
    /\ \E o \in Outcomes :
        /\ Statement(c, o, "publish")
        /\ IF Applied(o)
           THEN /\ task' = IF op[c] = "start" THEN "in_progress" ELSE "completed"
                /\ done' = done \cup {c}
           ELSE UNCHANGED <<task, done>>
    /\ UNCHANGED <<store, op, deliveryVars, shown, raced, racedIds>>
-----------------------------------------------------------------------------
(* publish, append and replay *)

Deliver(c, e) ==
    /\ event' = [event EXCEPT ![c] = e]
    /\ todo' = [todo EXCEPT ![c] = [h \in 1..Handlers |-> h]]

\* publish returns when there is no handler left.
Delivering == IF Handlers = 0 THEN "ok" ELSE "deliver"

\* Mutant: an event that is stored is stored again.
ExistsNever(c) == FALSE

Exists(c) == store[Id(c)] # None

AppendFind(c) ==
    /\ at[c] = "publish" \/ (op[c] = "publish" /\ at[c] = "start")
    /\ IF Exists(c)
       THEN Goto(c, Delivering) /\ Deliver(c, store[Id(c)]) /\ UNCHANGED racedIds
       ELSE /\ Goto(c, "append")
            /\ racedIds' = racedIds \cup {Id(d) : d \in {d \in Callers : at[d] = "append" /\ Id(d) = Id(c)}}
            /\ UNCHANGED <<event, todo>>
    /\ UNCHANGED <<task, store, op, handled, failures, done, shown, raced>>

AppendSave(c) ==
    /\ at[c] = "append"
    /\ \E o \in Outcomes :
        /\ Statement(c, o, Delivering)
        /\ store' = IF Applied(o) THEN [store EXCEPT ![Id(c)] = c] ELSE store
        /\ IF o = "ok" THEN Deliver(c, c) ELSE UNCHANGED <<event, todo>>
    /\ UNCHANGED <<task, op, handled, history>>

\* Handlers are called in the order they subscribed.
Handle(c) ==
    /\ at[c] = "deliver" /\ todo[c] # <<>>
    /\ \/ /\ handled' = [handled EXCEPT ![Head(todo[c])] = @ \cup {event[c]}]
          /\ todo' = [todo EXCEPT ![c] = Tail(@)]
          /\ Goto(c, IF Tail(todo[c]) = <<>> THEN "ok" ELSE "deliver")
          /\ UNCHANGED failures
       \/ /\ failures < MaxFailures /\ failures' = failures + 1
          /\ Goto(c, "failed")
          /\ UNCHANGED <<handled, todo>>
    /\ UNCHANGED <<task, store, op, event, history>>

\* repository.all
Stored == {store[i] : i \in DOMAIN store} \ {None}

\* replay takes all events there are and gives them one by one.
Replay(c) ==
    /\ op[c] = "replay" /\ at[c] = "start"
    /\ \E s \in [1..Cardinality(Stored) -> Stored] :
        /\ \A i, j \in DOMAIN s : s[i] = s[j] => i = j
        /\ todo' = [todo EXCEPT ![c] = s]
    /\ shown' = [shown EXCEPT ![c] = Stored]
    /\ Goto(c, "replay")
    /\ UNCHANGED <<task, store, op, event, handled, failures, done, raced, racedIds>>

Give(c) ==
    /\ at[c] = "replay"
    /\ IF todo[c] = <<>> THEN Goto(c, "ok") /\ UNCHANGED <<handled, todo, failures>>
       ELSE \/ /\ handled' = [handled EXCEPT ![0] = @ \cup {Head(todo[c])}]
               /\ todo' = [todo EXCEPT ![c] = Tail(@)]
               /\ UNCHANGED <<at, failures>>
            \/ /\ failures < MaxFailures /\ failures' = failures + 1
               /\ Goto(c, "failed")
               /\ UNCHANGED <<handled, todo>>
    /\ UNCHANGED <<task, store, op, event, history>>

ProcessDies ==
    /\ failures < MaxFailures
    /\ failures' = failures + 1
    /\ \E c \in Callers : at[c] \notin Over \cup {"start"}
    /\ at' = [c \in Callers |-> IF at[c] \in Over \cup {"start"} THEN at[c] ELSE "failed"]
    /\ UNCHANGED <<task, store, op, deliveryVars, history>>

TaskNext ==
    \/ \E c \in Callers :
        \/ FindTask(c) \/ SaveTask(c) \/ AppendFind(c) \/ AppendSave(c) \/ Handle(c)
        \/ Replay(c) \/ Give(c)
    \/ ProcessDies

TaskSpec == TaskInit /\ [][TaskNext]_taskVars
-----------------------------------------------------------------------------
TaskTypeOK ==
    /\ task \in {"pending", "in_progress", "completed"}
    /\ store \in [Ids \cup Callers -> Callers \cup {None}]
    /\ op \in [Callers -> {"start", "complete", "publish", "replay"}]
    /\ at \in [Callers -> {"start", "found", "publish", "append", "deliver", "replay"} \cup Over]
    /\ event \in [Callers -> Callers \cup {None}]
    /\ \A c \in Callers :
        /\ at[c] = "deliver" => event[c] \in Callers /\ todo[c] \in Seq(1..Handlers) \ {<<>>}
        /\ at[c] = "replay" => todo[c] \in Seq(Callers)
    /\ DOMAIN todo = Callers
    /\ handled \in [0..Handlers -> SUBSET Callers]
    /\ done \subseteq Callers /\ shown \in [Callers -> SUBSET Callers]
    /\ failures \in 0..MaxFailures
    /\ raced \in BOOLEAN /\ racedIds \subseteq Ids \cup Callers

Completing == {c \in done : op[c] = "complete"}

\* Unless two calls held copies of the task at a time, it is completed once and for good, and
\* when nothing is under way and nothing has failed, every handler has been told.
CompletedOnce ==
    ~raced =>
        /\ Cardinality(Completing) <= 1
        /\ task = "completed" <=> Completing # {}
        /\ \A c \in Completing : at[c] \in Over /\ failures = 0 => \A h \in 1..Handlers : c \in handled[h]

\* What a handler is given is in the store, and it is the first copy published under its id,
\* unless two appends of the id ran side by side; so a replay gives again all that any handler
\* had been given before it began, also when a later handler or a crash stopped the delivery.
HandledIsStored ==
    /\ \A h \in 0..Handlers : \A e \in handled[h] : Id(e) \in racedIds \/ store[Id(e)] = e
    /\ \A c \in Callers : op[c] = "replay" /\ at[c] = "ok" => shown[c] \subseteq handled[0]

=============================================================================
