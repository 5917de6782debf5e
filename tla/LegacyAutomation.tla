-------------------------- MODULE LegacyAutomation --------------------------
(***************************************************************************)
(* The serverless handlers under api/v1 that keep everything in            *)
(* bos_records: the webhook handler and the automation handler, which look *)
(* for an execution record under the key of the request, run the workflows *)
(* it asks for and save the record, and the handler that creates, changes  *)
(* and deletes workflows.  Every repository call is one statement on the   *)
(* pool; requests are served side by side.                                 *)
(*                                                                         *)
(* A workflow is its place in bos_records, whether it is enabled and its   *)
(* steps, which do not change; payloads, triggers and the three kinds of   *)
(* records the actions write are left out.                                 *)
(***************************************************************************)
EXTENDS Naturals, Sequences, FiniteSets

CONSTANTS
    Requests,    \* requests, each handled once
    Plans,       \* bound: operation, key and workflow of the requests of a behaviour
    Keys,        \* event ids and idempotency keys
    Flows,       \* workflow ids
    Matching,    \* the workflows whose trigger fits the event of each key
    StepsOf,     \* the steps of each workflow: "known" or "unknown" actions
    None,        \* no record
    FaultKinds,  \* which database faults happen: subset of {"lost", "unacknowledged"}
    MaxFaults    \* bound: faulty statements and crashes in a behaviour

ASSUME LegacyAssumption ==
    /\ Plans \subseteq [Requests -> [op : {"deliver", "run", "inline", "create", "patch", "delete"},
                                     key : Keys, flow : Flows]]
    /\ \A asked \in Plans, q, r \in Requests :   \* their records are of two types
        asked[q].op = "deliver" /\ asked[r].op \in {"run", "inline"} => asked[q].key # asked[r].key
    /\ Matching \in [Keys -> SUBSET Flows]
    /\ StepsOf \in [Flows -> Seq({"known", "unknown"})]
    /\ \A named \in SUBSET Flows : named # None
    /\ FaultKinds \subseteq {"lost", "unacknowledged"}
    /\ MaxFaults \in Nat

VARIABLES
    flows,       \* each workflow: "absent", "enabled", "disabled" or "deleted"
    record,      \* execution record of each key: the workflows it names, or None
    pc,          \* where each request is
    plan,        \* what each request asks for
    todo,        \* workflows a request still has to run
    matched,     \* workflows it has decided to run
    seen,        \* the copy a PATCH works on
    done,        \* how many steps of each workflow have taken effect for each request
    faults,
    overlapped   \* history: keys of which two requests ran side by side

runVars == <<todo, matched, done>>
vars == <<flows, record, pc, plan, runVars, seen, faults, overlapped>>

Init ==
    /\ flows \in [Flows -> {"absent", "enabled", "disabled"}]
    /\ record = [k \in Keys |-> None]
    /\ pc = [r \in Requests |-> "start"]
    /\ plan \in Plans
    /\ todo = [r \in Requests |-> {}]
    /\ matched = [r \in Requests |-> {}]
    /\ seen = [r \in Requests |-> "absent"]
    /\ done = [r \in Requests |-> [f \in Flows |-> 0]]
    /\ faults = 0
    /\ overlapped = {}

Over == {"ok", "replayed", "refused", "failed"}
Active(r) == pc[r] \notin Over \cup {"start"}
Key(r) == plan[r].key
Flow(r) == plan[r].flow
Runs(r) == plan[r].op \in {"deliver", "run", "inline"}
Goto(r, place) == pc' = [pc EXCEPT ![r] = place]

Outcomes == {"ok"} \cup FaultKinds
Applied(o) == o # "lost"

\* A statement of the repository; an error ends the handler unless it goes on to `onError`.
Statement(r, o, next, onError) ==
    /\ o # "ok" => faults < MaxFaults
    /\ faults' = IF o = "ok" THEN faults ELSE faults + 1
    /\ Goto(r, IF o = "ok" THEN next ELSE onError)
-----------------------------------------------------------------------------
(* Running workflows *)

\* Mutant: the record that was found does not answer the request.
ReplayedNever(k) == FALSE

Replayed(k) == record[k] # None

\* A run looks up its workflow before the record, unless it brings its own steps (those of its
\* flow, whatever has become of it); a delivery looks up the record first.
Find(r) ==
    /\ Runs(r) /\ pc[r] = "start"
    /\ LET ofKey == {q \in Requests \ {r} : Runs(q) /\ Key(q) = Key(r) /\ Active(q)} IN
       overlapped' = IF ofKey = {} THEN overlapped ELSE overlapped \cup {Key(r)}
    /\ IF plan[r].op # "deliver"
       THEN /\ Goto(r, IF plan[r].op = "inline" \/ flows[Flow(r)] = "enabled" THEN "look" ELSE "refused")
            /\ matched' = [matched EXCEPT ![r] = {Flow(r)}]
            /\ todo' = [todo EXCEPT ![r] = {Flow(r)}]
       ELSE /\ Goto(r, IF Replayed(Key(r)) THEN "replayed" ELSE "list")
            /\ UNCHANGED <<matched, todo>>
    /\ UNCHANGED <<flows, record, plan, done, seen, faults>>

\* A run without steps is refused before its key is looked up.
Look(r) ==
    /\ pc[r] = "look"
    /\ Goto(r, IF StepsOf[Flow(r)] = <<>> THEN "refused"
               ELSE IF Replayed(Key(r)) THEN "replayed" ELSE "run")
    /\ UNCHANGED <<flows, record, plan, runVars, seen, faults, overlapped>>

List(r) ==
    /\ pc[r] = "list"
    /\ LET fit == {f \in Matching[Key(r)] : flows[f] = "enabled"} IN
       /\ matched' = [matched EXCEPT ![r] = fit]
       /\ todo' = [todo EXCEPT ![r] = fit]
    /\ Goto(r, "run")
    /\ UNCHANGED <<flows, record, plan, done, seen, faults, overlapped>>

\* Mutant: an action that fails does not stop the workflow.
OnActionErrorGoesOn == "run"

OnActionError == "failed"

\* The next step of the workflow at hand; its last one ends the workflow.
Step(r, f) ==
    /\ pc[r] = "run" /\ f \in todo[r]
    /\ \A g \in todo[r] : done[r][g] > 0 => g = f
    /\ done[r][f] < Len(StepsOf[f])
    /\ LET last == done[r][f] + 1 = Len(StepsOf[f]) IN
       IF StepsOf[f][done[r][f] + 1] = "unknown"
       THEN Goto(r, "failed") /\ UNCHANGED <<runVars, faults>>
       ELSE \E o \in Outcomes :
            /\ Statement(r, o, "run", OnActionError)
            /\ done' = IF Applied(o) THEN [done EXCEPT ![r][f] = @ + 1] ELSE done
            /\ todo' = IF last THEN [todo EXCEPT ![r] = @ \ {f}] ELSE todo
            /\ UNCHANGED matched
    /\ UNCHANGED <<flows, record, plan, seen, overlapped>>

\* A workflow without steps has run at once.
SkipEmpty(r, f) ==
    /\ pc[r] = "run" /\ f \in todo[r] /\ StepsOf[f] = <<>>
    /\ \A g \in todo[r] : done[r][g] = 0
    /\ todo' = [todo EXCEPT ![r] = @ \ {f}]
    /\ UNCHANGED <<flows, record, pc, plan, matched, done, seen, faults, overlapped>>

SaveRecord(r) ==
    /\ pc[r] = "run" /\ todo[r] = {}
    /\ \E o \in Outcomes :
        /\ Statement(r, o, "ok", "failed")
        /\ record' = IF Applied(o) THEN [record EXCEPT ![Key(r)] = matched[r]] ELSE record
    /\ UNCHANGED <<flows, plan, runVars, seen, overlapped>>
-----------------------------------------------------------------------------
(* Creating, changing and deleting workflows *)

Save(r, value) ==
    \E o \in Outcomes :
        /\ Statement(r, o, "ok", "failed")
        /\ flows' = IF Applied(o) THEN [flows EXCEPT ![Flow(r)] = value] ELSE flows

\* The id is new.
Create(r) ==
    /\ plan[r].op = "create" /\ pc[r] = "start" /\ flows[Flow(r)] = "absent"
    /\ \E value \in {"enabled", "disabled"} : Save(r, value)
    /\ UNCHANGED <<record, plan, runVars, seen, overlapped>>

\* Mutant: the row of a deleted workflow is found.
FoundDeleted(f) == flows[f] # "absent"

Found(f) == flows[f] \in {"enabled", "disabled"}

PatchFind(r) ==
    /\ plan[r].op = "patch" /\ pc[r] = "start"
    /\ Goto(r, IF Found(Flow(r)) THEN "found" ELSE "refused")
    /\ seen' = [seen EXCEPT ![r] = flows[Flow(r)]]
    /\ UNCHANGED <<flows, record, plan, runVars, faults, overlapped>>

\* The body replaces what it names in the copy, and the copy replaces or inserts the row.
PatchSave(r) ==
    /\ pc[r] = "found"
    /\ \E value \in {seen[r], "enabled", "disabled"} : Save(r, value)
    /\ UNCHANGED <<record, plan, runVars, seen, overlapped>>

Delete(r) ==
    /\ plan[r].op = "delete" /\ pc[r] = "start"
    /\ IF Found(Flow(r)) THEN Save(r, "deleted") ELSE Goto(r, "refused") /\ UNCHANGED <<flows, faults>>
    /\ UNCHANGED <<record, plan, runVars, seen, overlapped>>

Crash ==
    /\ faults < MaxFaults
    /\ faults' = faults + 1
    /\ \E r \in Requests : Active(r)
    /\ pc' = [r \in Requests |-> IF Active(r) THEN "failed" ELSE pc[r]]
    /\ UNCHANGED <<flows, record, plan, runVars, seen, overlapped>>

Next ==
    \/ \E r \in Requests :
        \/ Find(r) \/ Look(r) \/ List(r) \/ SaveRecord(r)
        \/ \E f \in Flows : Step(r, f) \/ SkipEmpty(r, f)
        \/ Create(r) \/ PatchFind(r) \/ PatchSave(r) \/ Delete(r)
    \/ Crash

Spec == Init /\ [][Next]_vars
-----------------------------------------------------------------------------
TypeOK ==
    /\ flows \in [Flows -> {"absent", "enabled", "disabled", "deleted"}]
    /\ record \in [Keys -> (SUBSET Flows) \cup {None}]
    /\ pc \in [Requests -> Over \cup {"start", "look", "list", "run", "found"}]
    /\ plan \in Plans
    /\ todo \in [Requests -> SUBSET Flows] /\ matched \in [Requests -> SUBSET Flows]
    /\ seen \in [Requests -> {"absent", "enabled", "disabled", "deleted"}]
    /\ done \in [Requests -> [Flows -> Nat]]
    /\ faults \in 0..MaxFaults
    /\ overlapped \subseteq Keys

Ran(r, f) == done[r][f] = Len(StepsOf[f])

\* A request that was answered has a record, and what a record says has run: one request of its
\* key ran every step of every workflow the record names, whatever failed or crashed meanwhile.
RecordedRan ==
    /\ \A r \in Requests : Runs(r) /\ pc[r] \in {"ok", "replayed"} => record[Key(r)] # None
    /\ \A k \in Keys : record[k] # None =>
        \E r \in Requests : Runs(r) /\ Key(r) = k /\ \A f \in record[k] : Ran(r, f)

\* As long as no two requests of a key run side by side, repeating a request repeats nothing
\* but what a failed one has left: all requests that had an effect, but one, have failed.
OnceUnlessBeside ==
    \A k \in Keys \ overlapped :
        Cardinality({r \in Requests : /\ Runs(r) /\ Key(r) = k /\ pc[r] # "failed"
                                      /\ \E f \in Flows : done[r][f] > 0}) <= 1

\* A deleted workflow comes back only through a PATCH that had read it before: once none is under
\* way, it stays deleted.
Settled(f) == \A r \in Requests : pc[r] = "found" => Flow(r) # f
DeletedStays ==
    [][\A f \in Flows : LET final == flows[f] = "deleted" /\ Settled(f) IN final => final']_vars

=============================================================================
