---------------------------- MODULE AgentControls ----------------------------
(***************************************************************************)
(* What stands between an AI employee and its effects: the runtime with    *)
(* its policy, its audit callback and the execution pipeline as its        *)
(* executor, and the two approval gates.  Runs go on side by side; each    *)
(* awaits its audit, planner, steps and verifier in turn, any of which may *)
(* fail, before or after it has had its effect.                            *)
(*                                                                         *)
(* The repository wires these classes nowhere; they are joined here by the *)
(* interfaces they have.  Budgets, memory and the content of plans and     *)
(* results are left out.  Some names differ from the usual ones because     *)
(* AccessProofs extends this module beside Accounts.                       *)
(***************************************************************************)
EXTENDS Naturals, Sequences, FiniteSets

CONSTANTS
    Runs,       \* runs of the runtime, each made once
    Rules,      \* the rules of the policy: the runs each matches and whether it allows them
    MaxSteps,   \* bound: steps of a plan
    People,     \* who asks for approvals and decides them
    Nobody,     \* no person
    MaxCalls,   \* bound: calls of the gates
    MaxFailures \* bound: audits and steps that fail

ASSUME AgentAssumption ==
    /\ Rules \in Seq([when : SUBSET Runs, allow : BOOLEAN])
    /\ MaxSteps \in Nat /\ MaxCalls \in Nat /\ MaxFailures \in Nat
    /\ Nobody \notin People

Gates == {"ai", "governance"}

VARIABLES
    pc,        \* where each run is
    plan,      \* number of steps planned for each run
    effects,   \* history: how many steps of each run have had their effect
    audit,     \* what the audit callback has stored of each run
    verified,  \* history: runs whose results the verifier accepted
    failures,
    gate,      \* the record of one id at each gate
    asked,     \* history: who has asked for it
    decided,   \* history: number of decisions taken about it
    gateCalls

runVars == <<pc, plan, effects, audit, verified, failures>>
gateVars == <<gate, asked, decided, gateCalls>>
controlVars == <<runVars, gateVars>>

Absent == [status |-> "absent", requester |-> Nobody, approver |-> Nobody]

ControlsInit ==
    /\ pc = [r \in Runs |-> "start"]
    /\ plan = [r \in Runs |-> 0]
    /\ effects = [r \in Runs |-> 0]
    /\ audit = [r \in Runs |-> <<>>]
    /\ verified = {}
    /\ failures = 0
    /\ gate = [g \in Gates |-> Absent]
    /\ asked = [g \in Gates |-> {}]
    /\ decided = [g \in Gates |-> 0]
    /\ gateCalls = 0

Goto(r, place) == pc' = [pc EXCEPT ![r] = place]

\* A callback returns, or throws after it has had its effect, or before; bound: faults.
Await(r, o, next, onError) ==
    /\ o # "ok" => failures < MaxFailures
    /\ failures' = IF o = "ok" THEN failures ELSE failures + 1
    /\ Goto(r, IF o = "ok" THEN next ELSE onError)
Outcomes == {"ok", "lost", "unacknowledged"}
Applied(o) == o # "lost"

Audit(r, type, next, onError) ==
    \E o \in Outcomes :
        /\ Await(r, o, next, onError)
        /\ audit' = IF Applied(o) THEN [audit EXCEPT ![r] = Append(@, type)] ELSE audit
-----------------------------------------------------------------------------
(* The runtime *)

\* The first rule that matches decides; without one the request is denied.
Authorized(r) ==
    \E i \in DOMAIN Rules :
        /\ r \in Rules[i].when /\ Rules[i].allow
        /\ \A j \in 1..(i - 1) : r \notin Rules[j].when

Authorize(r) ==
    /\ pc[r] = "start"
    /\ Goto(r, IF Authorized(r) THEN "authorized" ELSE "denied")
    /\ UNCHANGED <<plan, effects, audit, verified, failures, gateVars>>

\* This audit is outside the try block: its error is the caller's and is not audited.
AuditStarted(r) ==
    /\ pc[r] = "authorized"
    /\ Audit(r, "started", "plan", "failed")
    /\ UNCHANGED <<plan, effects, verified, gateVars>>

AuditCompleted(r) ==
    /\ pc[r] = "verified"
    /\ Audit(r, "completed", "ok", "caught")
    /\ UNCHANGED <<plan, effects, verified, gateVars>>

AuditFailed(r) ==
    /\ pc[r] = "caught"
    /\ Audit(r, "failed", "failed", "failed")
    /\ UNCHANGED <<plan, effects, verified, gateVars>>
-----------------------------------------------------------------------------
(* The execution pipeline *)

\* The planner throws, returns no step, or a plan.
Plan(r) ==
    /\ pc[r] = "plan"
    /\ \E n \in 0..MaxSteps :
        /\ Goto(r, IF n = 0 THEN "caught" ELSE "steps")
        /\ plan' = [plan EXCEPT ![r] = n]
    /\ UNCHANGED <<effects, audit, verified, failures, gateVars>>

\* Mutant: the verifier is asked after the first step.
ExecutedFirst(r) == effects[r] > 0

Executed(r) == effects[r] = plan[r]

Step(r) ==
    /\ pc[r] = "steps" /\ ~Executed(r)
    /\ \E o \in Outcomes :
        /\ Await(r, o, "steps", "caught")
        /\ effects' = IF Applied(o) THEN [effects EXCEPT ![r] = @ + 1] ELSE effects
    /\ UNCHANGED <<plan, audit, verified, gateVars>>

Verify(r) ==
    /\ pc[r] = "steps" /\ Executed(r)
    /\ \/ Goto(r, "verified") /\ verified' = verified \cup {r}
       \/ Goto(r, "caught") /\ UNCHANGED verified
    /\ UNCHANGED <<plan, effects, audit, failures, gateVars>>
-----------------------------------------------------------------------------
(* The approval gates: one id of one tenant *)

Call ==
    /\ gateCalls < MaxCalls
    /\ gateCalls' = gateCalls + 1
    /\ UNCHANGED runVars

\* The gate of modules/ai replaces a record, that of modules/governance does not.
Request(g, p) ==
    /\ Call
    /\ g = "governance" => gate[g].status = "absent"
    /\ gate' = [gate EXCEPT ![g] = [status |-> "pending", requester |-> p, approver |-> Nobody]]
    /\ asked' = [asked EXCEPT ![g] = @ \cup {p}]
    /\ UNCHANGED decided

\* Mutant: the gate of modules/governance decides again too.
DecidableAgain(g, p) == gate[g].status # "absent" /\ gate[g].requester # p

Decidable(g, p) ==
    /\ gate[g].status # "absent"
    /\ gate[g].requester # p
    /\ g = "governance" => gate[g].status = "pending"

Decide(g, p) ==
    /\ Call
    /\ Decidable(g, p)
    /\ \E status \in {"approved", "rejected"} :
        gate' = [gate EXCEPT ![g].status = status, ![g].approver = p]
    /\ decided' = [decided EXCEPT ![g] = @ + 1]
    /\ UNCHANGED asked

ControlsNext ==
    \/ \E r \in Runs :
        \/ Authorize(r) \/ AuditStarted(r) \/ AuditCompleted(r) \/ AuditFailed(r)
        \/ Plan(r) \/ Step(r) \/ Verify(r)
    \/ \E g \in Gates, p \in People : Request(g, p) \/ Decide(g, p)

ControlsSpec == ControlsInit /\ [][ControlsNext]_controlVars
-----------------------------------------------------------------------------
ControlsTypeOK ==
    /\ pc \in [Runs -> {"start", "denied", "authorized", "plan", "steps", "verified", "caught", "ok",
                       "failed"}]
    /\ plan \in [Runs -> 0..MaxSteps]
    /\ effects \in [Runs -> 0..MaxSteps]
    /\ audit \in [Runs -> Seq({"started", "completed", "failed"})]
    /\ verified \subseteq Runs
    /\ failures \in 0..MaxFailures
    /\ gate \in [Gates -> [status : {"absent", "pending", "approved", "rejected"},
                          requester : People \cup {Nobody}, approver : People \cup {Nobody}]]
    /\ asked \in [Gates -> SUBSET People]
    /\ decided \in [Gates -> Nat]
    /\ gateCalls \in 0..MaxCalls

Stored(r, type) == \E i \in DOMAIN audit[r] : audit[r][i] = type

\* The audit trail tells what a run has done, however its callbacks fail: nothing takes effect
\* before the policy has allowed it and its start is on record; a run on record as completed, or
\* answered as such, has had every step of its plan accepted by the verifier; and a run that was
\* not answered is on record as failed, and not as completed, unless a callback failed.
AuditTellsEffects ==
    \A r \in Runs :
        /\ effects[r] > 0 => Authorized(r) /\ Stored(r, "started")
        /\ Stored(r, "completed") \/ pc[r] = "ok" => r \in verified /\ effects[r] = plan[r] /\ plan[r] > 0
        /\ pc[r] = "ok" => audit[r] = <<"started", "completed">>
        /\ pc[r] = "failed" /\ failures = 0 => audit[r] = <<"started", "failed">> /\ r \notin verified

\* What a gate has on record as decided was decided by someone who had not asked for it: always
\* and once at the gate of modules/governance, at the gate of modules/ai unless the request was
\* made again by another.
DecidedByAnother ==
    \A g \in Gates : gate[g].status \in {"approved", "rejected"} =>
        /\ gate[g].approver \notin asked[g] \/ (g = "ai" /\ Cardinality(asked[g]) > 1)
        /\ gate[g].approver # gate[g].requester
        /\ g = "governance" => decided[g] = 1

=============================================================================
