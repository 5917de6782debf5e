---------------------------- MODULE Orchestration ----------------------------
(***************************************************************************)
(* One durable orchestration execution: DurableOrchestrationState (create, *)
(* update, resume), DurableOrchestrationRecovery.recover and               *)
(* RecoveryAwareOrchestrator.execute.  A call is suspended at every await; *)
(* state.update is a find and a later save of the whole record, so a call  *)
(* decides on what it once read.  Checks on a call's own copy are joined   *)
(* with the repository access that follows them.                           *)
(***************************************************************************)
EXTENDS Naturals, FiniteSets

CONSTANTS
    Calls,         \* calls made to the three classes about one execution id
    OpsOf,         \* what each call may be: "create", "execute", "recover", "resume"
    KeyOf,         \* options.idempotencyKey (or the id) of each call
    NoKey,         \* idempotencyKey not set
    NoCall,        \* result not set
    MaxFaults,     \* bound: saves the repository rejects
    MaxCrashes     \* bound: crashes of the process

ASSUME OrchestrationAssumption ==
    /\ \A c \in Calls : KeyOf[c] # NoKey
    /\ NoCall \notin Calls
    /\ OpsOf \in [Calls -> SUBSET {"create", "execute", "recover", "resume"}]
    /\ MaxFaults \in Nat /\ MaxCrashes \in Nat

VARIABLES
    rec,        \* the stored 'orchestration_execution' record
    pc,         \* where each call is
    known,      \* the local `execution` of execute(), or the copy recover() decides on
    copy,       \* the copy the pending update has found
    answer,     \* how each call was answered; "reused" and "ran" carry a result
    runs,       \* history: calls that have invoked the operation
    succeeded,  \* history: calls whose operation returned
    overlapped, \* history: two calls have been in flight at once
    faults, crashes

vars == <<rec, pc, known, copy, answer, runs, succeeded, overlapped, faults, crashes>>

Statuses == {"absent", "pending", "retrying", "failed", "resuming", "running", "completed"}

Records == [status : Statuses, attempts : Nat, recoveryCount : Nat, key : {KeyOf[c] : c \in Calls}
            \cup {NoKey}, result : Calls \cup {NoCall}]

Absent == [status |-> "absent", attempts |-> 0, recoveryCount |-> 0, key |-> NoKey, result |-> NoCall]
Created == [Absent EXCEPT !.status = "pending"]

InFlight(c) == pc[c] \notin {"idle", "done"}

Init ==
    /\ rec \in {Absent, Created}
    /\ pc = [c \in Calls |-> "idle"]
    /\ known = [c \in Calls |-> Absent]
    /\ copy = [c \in Calls |-> Absent]
    /\ answer = [c \in Calls |-> [kind |-> "none", result |-> NoCall]]
    /\ runs = {}
    /\ succeeded = {}
    /\ overlapped = FALSE
    /\ faults = 0
    /\ crashes = 0

-----------------------------------------------------------------------------
GoTo(c, where) == pc' = [pc EXCEPT ![c] = where]

\* The next repository access of c is the find of an update or of recover().
Find(c, where) ==
    /\ copy' = [copy EXCEPT ![c] = rec]
    /\ GoTo(c, where)

Forget(c) ==
    /\ known' = [known EXCEPT ![c] = Absent]
    /\ copy' = [copy EXCEPT ![c] = Absent]

\* c is over: it returns or throws.
Finish(c, kind, result) ==
    /\ GoTo(c, "done")
    /\ Forget(c)
    /\ answer' = [answer EXCEPT ![c] = [kind |-> kind, result |-> result]]

Throw(c) == Finish(c, "error", NoCall)

\* The save of an update: the patch applied to the copy found.
Save(c, record, where) ==
    /\ rec' = record
    /\ known' = [known EXCEPT ![c] = record]
    /\ GoTo(c, where)

-----------------------------------------------------------------------------
(* The calls begin *)

Begin(c) ==
    /\ pc[c] = "idle"
    /\ \E op \in OpsOf[c] :
        /\ op # "create" => rec # Absent     \* else EXECUTION_NOT_FOUND, nothing changes
        /\ known' = [known EXCEPT ![c] = rec]
        /\ copy' = [copy EXCEPT ![c] = rec]
        /\ GoTo(c, op)
    /\ overlapped' = (overlapped \/ \E d \in Calls : InFlight(d))
    /\ UNCHANGED <<rec, answer, runs, succeeded, faults, crashes>>

\* create(): EXECUTION_ALREADY_EXISTS, or the fresh record is saved.  A caller may also give
\* status, attempts and result of a record; only tests do, and such records are left out.
Create(c) ==
    /\ pc[c] = "create"
    /\ rec' = IF copy[c] = Absent THEN Created ELSE rec
    /\ IF copy[c] = Absent THEN Finish(c, "created", NoCall) ELSE Throw(c)
    /\ UNCHANGED <<runs, succeeded, overlapped, faults, crashes>>

-----------------------------------------------------------------------------
(* recover() and resume(); recover() is also a part of execute() *)

\* Mutant: every known status is recoverable.
RecoverableAny(status) == status # "absent"

Recoverable(status) == status \in {"pending", "retrying", "failed", "resuming", "running"}
Resumable(status) == status \in {"pending", "retrying", "failed"}

Resumed(record) == [record EXCEPT !.status = "resuming"]

\* The status is checked on one copy, the record to patch is found anew.  recover()
\* answers recovered: false where execute() throws EXECUTION_NOT_RESUMABLE.
CheckRecoverable(c) ==
    /\ pc[c] \in {"recover", "recoverThenRun"}
    /\ IF Recoverable(copy[c].status)
       THEN /\ known' = [known EXCEPT ![c] = copy[c]]
            /\ Find(c, IF pc[c] = "recover" THEN "saveRecovered" ELSE "saveResuming")
            /\ UNCHANGED answer
       ELSE IF pc[c] = "recover" THEN Finish(c, "kept", NoCall) ELSE Throw(c)
    /\ UNCHANGED <<rec, runs, succeeded, overlapped, faults, crashes>>

SaveRecovered(c) ==
    /\ pc[c] \in {"saveRecovered", "saveResuming"}
    /\ LET record == [Resumed(copy[c]) EXCEPT !.recoveryCount = known[c].recoveryCount + 1]
       IN  IF pc[c] = "saveResuming" THEN Save(c, record, "start") /\ UNCHANGED <<copy, answer>>
           ELSE rec' = record /\ Finish(c, "recovered", NoCall)
    /\ UNCHANGED <<runs, succeeded, overlapped, faults, crashes>>

Resume(c) ==
    /\ pc[c] = "resume"
    /\ IF Resumable(copy[c].status)
       THEN Find(c, "saveResume") /\ UNCHANGED <<known, answer>>
       ELSE Throw(c)
    /\ UNCHANGED <<rec, runs, succeeded, overlapped, faults, crashes>>

SaveResume(c) ==
    /\ pc[c] = "saveResume"
    /\ rec' = Resumed(copy[c])
    /\ Finish(c, "resumed", NoCall)
    /\ UNCHANGED <<runs, succeeded, overlapped, faults, crashes>>

-----------------------------------------------------------------------------
(* execute() *)

\* IDEMPOTENCY_KEY_MISMATCH
Mismatch(c) == known[c].key # NoKey /\ known[c].key # KeyOf[c]

CheckKey(c) ==
    /\ pc[c] = "execute"
    /\ IF Mismatch(c) THEN Throw(c)
       ELSE /\ IF known[c].key = NoKey THEN Find(c, "saveKey")
               ELSE GoTo(c, "resolve") /\ UNCHANGED copy
            /\ UNCHANGED <<known, answer>>
    /\ UNCHANGED <<rec, runs, succeeded, overlapped, faults, crashes>>

SaveKey(c) ==
    /\ pc[c] = "saveKey"
    /\ Save(c, [copy[c] EXCEPT !.key = KeyOf[c]], "resolve")
    /\ UNCHANGED <<copy, answer, runs, succeeded, overlapped, faults, crashes>>

\* Mutant: any terminal record is answered with what it carries.
AlreadyEnded(c) == known[c].status \in {"completed", "failed"}

AlreadyCompleted(c) == known[c].status = "completed"

\* A completed execution is answered with its result; one that is not running is
\* recovered first.
Resolve(c) ==
    /\ pc[c] = "resolve"
    /\ IF AlreadyCompleted(c)
       THEN Finish(c, "reused", known[c].result)
       ELSE /\ Find(c, IF known[c].status \in {"running", "resuming"} THEN "saveRunning"
                       ELSE "recoverThenRun")
            /\ UNCHANGED <<known, answer>>
    /\ UNCHANGED <<rec, runs, succeeded, overlapped, faults, crashes>>

Start(c) ==
    /\ pc[c] = "start"
    /\ Find(c, "saveRunning")
    /\ UNCHANGED <<rec, known, answer, runs, succeeded, overlapped, faults, crashes>>

SaveRunning(c) ==
    /\ pc[c] = "saveRunning"
    /\ Save(c, [copy[c] EXCEPT !.status = "running", !.attempts = known[c].attempts + 1], "operate")
    /\ UNCHANGED <<copy, answer, runs, succeeded, overlapped, faults, crashes>>

\* operation(execution) returns or throws; the update that follows finds the record.
Operate(c) ==
    /\ pc[c] = "operate"
    /\ runs' = runs \cup {c}
    /\ \/ succeeded' = succeeded \cup {c} /\ Find(c, "saveCompleted")
       \/ UNCHANGED succeeded /\ Find(c, "saveFailed")
    /\ UNCHANGED <<rec, known, answer, overlapped, faults, crashes>>

\* Mutant: the result is stored, the status is not.
CompletedInName(record, c) == [record EXCEPT !.result = c, !.key = KeyOf[c]]

Completed(record, c) == [record EXCEPT !.status = "completed", !.result = c, !.key = KeyOf[c]]

SaveCompleted(c) ==
    /\ pc[c] = "saveCompleted"
    /\ rec' = Completed(copy[c], c)
    /\ Finish(c, "ran", c)
    /\ UNCHANGED <<runs, succeeded, overlapped, faults, crashes>>

\* The repository rejects that save: the catch clause takes it for a failure of
\* the operation.
SaveCompletedFails(c) ==
    /\ pc[c] = "saveCompleted"
    /\ faults < MaxFaults
    /\ faults' = faults + 1
    /\ Find(c, "saveFailed")
    /\ UNCHANGED <<rec, known, answer, runs, succeeded, overlapped, crashes>>

SaveFailed(c) ==
    /\ pc[c] = "saveFailed"
    /\ rec' = [copy[c] EXCEPT !.status = "failed", !.key = KeyOf[c]]
    /\ Throw(c)
    /\ UNCHANGED <<runs, succeeded, overlapped, faults, crashes>>

\* The repository rejects any other save, or the find it follows: the call ends with that error.
SaveRejected(c) ==
    /\ pc[c] \in {"create", "saveRecovered", "saveResuming", "saveResume", "saveKey", "saveRunning",
                  "saveFailed"}
    /\ faults < MaxFaults
    /\ faults' = faults + 1
    /\ Throw(c)
    /\ UNCHANGED <<rec, runs, succeeded, overlapped, crashes>>

-----------------------------------------------------------------------------
\* The process dies with every call in flight; the record stays.
Crash ==
    /\ crashes < MaxCrashes
    /\ \E c \in Calls : InFlight(c)
    /\ crashes' = crashes + 1
    /\ pc' = [c \in Calls |-> IF InFlight(c) THEN "done" ELSE pc[c]]
    /\ known' = [c \in Calls |-> Absent]
    /\ copy' = [c \in Calls |-> Absent]
    /\ UNCHANGED <<rec, answer, runs, succeeded, overlapped, faults>>

Execute(c) ==
    \/ CheckKey(c) \/ SaveKey(c) \/ Resolve(c) \/ Start(c) \/ SaveRunning(c)
    \/ Operate(c) \/ SaveCompleted(c) \/ SaveCompletedFails(c) \/ SaveFailed(c)

Next ==
    \/ \E c \in Calls :
        \/ Begin(c) \/ Create(c) \/ CheckRecoverable(c) \/ SaveRecovered(c)
        \/ Resume(c) \/ SaveResume(c) \/ Execute(c) \/ SaveRejected(c)
    \/ Crash

Spec == Init /\ [][Next]_vars

-----------------------------------------------------------------------------
(* Properties *)

PcStates == {"idle", "done", "create", "recover", "recoverThenRun", "saveRecovered",
             "saveResuming", "resume", "saveResume", "execute", "saveKey", "resolve", "start",
             "saveRunning", "operate", "saveCompleted", "saveFailed"}

AnswerKinds == {"none", "error", "created", "kept", "recovered", "resumed", "reused", "ran"}

\* Stored record and copies keep their form, and every result and every success
\* belongs to a call that was made (an operation succeeds only if it ran).
TypeOK ==
    /\ rec \in Records
    /\ pc \in [Calls -> PcStates]
    /\ known \in [Calls -> Records]
    /\ copy \in [Calls -> Records]
    /\ answer \in [Calls -> [kind : AnswerKinds, result : Calls \cup {NoCall}]]
    /\ succeeded \subseteq runs
    /\ runs \subseteq Calls
    /\ overlapped \in BOOLEAN
    /\ faults \in 0..MaxFaults
    /\ crashes \in 0..MaxCrashes

\* However calls interleave, fail and crash, a record that says completed carries the
\* result of an operation that returned, and so does every answer "reused".
ResultsAreReal ==
    /\ rec.status = "completed" => rec.result \in succeeded
    /\ \A c \in Calls : answer[c].kind = "reused" => answer[c].result \in succeeded

\* docs/EXACTLY_ONCE_IDEMPOTENCY.md, up to overlap, crashes and rejected saves: calls
\* made one after another make the operation succeed once, and count every run.
OnceWhenSequential ==
    ~overlapped /\ crashes = 0 /\ faults = 0 =>
        /\ Cardinality(succeeded) <= 1
        /\ Cardinality(runs) <= rec.attempts

\* A result that was recorded and then run over is run over by an overlapping call
\* only: calls made one after another never take a completed record back.
CompletedKeptWhenSequential ==
    [][rec.status = "completed" /\ ~overlapped' => rec' = rec]_vars

=============================================================================
