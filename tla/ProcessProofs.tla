---------------------------- MODULE ProcessProofs ----------------------------
(***************************************************************************)
(* Theorems about the processes of a tenant: about Orchestration, for any  *)
(* calls, keys, rejected saves and crashes, and about TaskEvents, for any  *)
(* calls, ids, handlers and faults.                                        *)
(***************************************************************************)
EXTENDS Orchestration, TaskEvents, FiniteSetTheorems, TLAPS

-----------------------------------------------------------------------------
(* Orchestration *)

\* The records a call can save are records.
LEMMA Patches ==
    ASSUME NEW r \in Records, NEW c \in Calls, NEW n \in Nat
    PROVE  /\ Resumed(r) \in Records
           /\ [Resumed(r) EXCEPT !.recoveryCount = n + 1] \in Records
           /\ [r EXCEPT !.key = KeyOf[c]] \in Records
           /\ [r EXCEPT !.status = "running", !.attempts = n + 1] \in Records
           /\ Completed(r, c) \in Records
           /\ [r EXCEPT !.status = "failed", !.key = KeyOf[c]] \in Records
<1>1. r = [status |-> r.status, attempts |-> r.attempts, recoveryCount |-> r.recoveryCount,
           key |-> r.key, result |-> r.result]
  BY DEF Records
<1>2. /\ r.status \in Statuses /\ r.attempts \in Nat /\ r.recoveryCount \in Nat
      /\ r.key \in {KeyOf[d] : d \in Calls} \cup {NoKey} /\ r.result \in Calls \cup {NoCall}
  BY DEF Records
<1>3. {"running", "completed", "failed", "resuming"} \subseteq Statuses /\ n + 1 \in Nat
  BY DEF Statuses
<1>4. KeyOf[c] \in {KeyOf[d] : d \in Calls} \cup {NoKey}
  OBVIOUS
<1> QED
  BY <1>1, <1>2, <1>3, <1>4 DEF Records, Resumed, Completed

\* So are those that are there at first.
LEMMA Firsts == Absent \in Records /\ Created \in Records /\ Created.status = "pending"
  BY DEF Absent, Created, Records, Statuses

LEMMA InitTypeOK == Init => TypeOK
<1> SUFFICES ASSUME Init PROVE TypeOK
  OBVIOUS
<1>1. answer \in [Calls -> [kind : AnswerKinds, result : Calls \cup {NoCall}]]
  BY DEF Init, AnswerKinds
<1>2. pc \in [Calls -> PcStates]
  BY DEF Init, PcStates
<1>3. rec \in Records /\ known \in [Calls -> Records] /\ copy \in [Calls -> Records]
  <2>1. Absent \in Records /\ Created \in Records
    BY Firsts
  <2> HIDE DEF Absent, Created
  <2>2. rec \in {Absent, Created} /\ known = [c \in Calls |-> Absent] /\ copy = [c \in Calls |-> Absent]
    BY DEF Init
  <2> QED
    BY <2>1, <2>2
<1>4. faults \in 0..MaxFaults /\ crashes \in 0..MaxCrashes
  BY OrchestrationAssumption DEF Init
<1>5. succeeded \subseteq runs /\ runs \subseteq Calls /\ overlapped \in BOOLEAN
  BY DEF Init
<1> QED
  BY <1>1, <1>2, <1>3, <1>4, <1>5 DEF TypeOK

\* Every repository access, rejected save and crash keeps records, copies and answers well formed.
LEMMA NextTypeOK == TypeOK /\ [Next]_vars => TypeOK'
<1> SUFFICES ASSUME TypeOK, [Next]_vars PROVE TypeOK'
  OBVIOUS
<1> USE OrchestrationAssumption, Firsts DEF TypeOK
<1> DEFINE Answers == [kind : AnswerKinds, result : Calls \cup {NoCall}]
<1>0. ASSUME NEW c \in Calls, NEW kind \in AnswerKinds, NEW result \in Calls \cup {NoCall},
             Finish(c, kind, result)
      PROVE  /\ pc' \in [Calls -> PcStates] /\ known' \in [Calls -> Records]
             /\ copy' \in [Calls -> Records] /\ answer' \in [Calls -> Answers]
  <2>1. [kind |-> kind, result |-> result] \in Answers
    BY <1>0
  <2> QED
    BY <1>0, <2>1 DEF Finish, Forget, GoTo, PcStates
<1> HIDE DEF Answers
<1>1. ASSUME NEW c \in Calls, Begin(c) PROVE TypeOK'
  <2>1. PICK o \in OpsOf[c] : GoTo(c, o)
    BY <1>1 DEF Begin
  <2>2. o \in PcStates
    BY DEF PcStates
  <2>3. pc' \in [Calls -> PcStates]
    BY <2>1, <2>2 DEF GoTo
  <2>4. overlapped' \in BOOLEAN
    BY <1>1 DEF Begin
  <2>5. known' \in [Calls -> Records] /\ copy' \in [Calls -> Records]
    BY <1>1 DEF Begin
  <2> QED
    BY <1>1, <2>3, <2>4, <2>5 DEF Begin
<1>2. ASSUME NEW c \in Calls, Create(c) PROVE TypeOK'
  <2>1. \E kind \in AnswerKinds : Finish(c, kind, NoCall)
    BY <1>2 DEF Create, Throw, AnswerKinds
  <2>2. rec' \in Records
    BY <1>2 DEF Create
  <2> QED
    BY <1>0, <1>2, <2>1, <2>2 DEF Create, Answers
<1>3. ASSUME NEW c \in Calls, CheckRecoverable(c) PROVE TypeOK'
  <2>1. CASE Recoverable(copy[c].status)
    BY <1>3, <2>1 DEF CheckRecoverable, Find, GoTo, PcStates
  <2>2. CASE ~Recoverable(copy[c].status)
    <3>1. \E kind \in AnswerKinds : Finish(c, kind, NoCall)
      BY <1>3, <2>2 DEF CheckRecoverable, Throw, AnswerKinds
    <3> QED
      BY <1>0, <1>3, <3>1 DEF CheckRecoverable, Answers
  <2> QED
    BY <2>1, <2>2
<1>4. ASSUME NEW c \in Calls, SaveRecovered(c) PROVE TypeOK'
  <2> DEFINE record == [Resumed(copy[c]) EXCEPT !.recoveryCount = known[c].recoveryCount + 1]
  <2>1. record \in Records
    <3>1. Resumed(copy[c]) \in Records
      BY Patches
    <3>2. known[c].recoveryCount + 1 \in Nat
      BY DEF Records
    <3>3. \A i \in Records, n \in Nat : [i EXCEPT !.recoveryCount = n] \in Records
      BY DEF Records
    <3> QED
      BY <3>1, <3>2, <3>3
  <2>2. CASE pc[c] = "saveResuming"
    BY <1>4, <2>1, <2>2 DEF SaveRecovered, Save, GoTo, PcStates
  <2>3. CASE pc[c] # "saveResuming"
    <3>1. Finish(c, "recovered", NoCall) /\ rec' = record
      BY <1>4, <2>3 DEF SaveRecovered
    <3> QED
      BY <1>0, <1>4, <2>1, <3>1 DEF SaveRecovered, AnswerKinds, Answers
  <2> QED
    BY <2>2, <2>3
<1>5. ASSUME NEW c \in Calls, Resume(c) PROVE TypeOK'
  <2>1. CASE Resumable(copy[c].status)
    BY <1>5, <2>1 DEF Resume, Find, GoTo, PcStates
  <2>2. CASE ~Resumable(copy[c].status)
    BY <1>0, <1>5, <2>2 DEF Resume, Throw, AnswerKinds, Answers
  <2> QED
    BY <2>1, <2>2
<1>6. ASSUME NEW c \in Calls, SaveResume(c) PROVE TypeOK'
  BY <1>0, <1>6, Patches DEF SaveResume, AnswerKinds, Answers
<1>7. ASSUME NEW c \in Calls, CheckKey(c) PROVE TypeOK'
  <2>1. CASE Mismatch(c)
    BY <1>0, <1>7, <2>1 DEF CheckKey, Throw, AnswerKinds, Answers
  <2>2. CASE ~Mismatch(c)
    BY <1>7, <2>2 DEF CheckKey, Find, GoTo, PcStates
  <2> QED
    BY <2>1, <2>2
<1>8. ASSUME NEW c \in Calls, SaveKey(c) PROVE TypeOK'
  <2>1. [copy[c] EXCEPT !.key = KeyOf[c]] \in Records
    BY Patches
  <2> QED
    BY <1>8, <2>1 DEF SaveKey, Save, GoTo, PcStates
<1>9. ASSUME NEW c \in Calls, Resolve(c) PROVE TypeOK'
  <2>1. CASE AlreadyCompleted(c)
    <3>1. known[c].result \in Calls \cup {NoCall}
      BY DEF Records
    <3> QED
      BY <1>0, <1>9, <2>1, <3>1 DEF Resolve, AnswerKinds, Answers
  <2>2. CASE ~AlreadyCompleted(c)
    BY <1>9, <2>2 DEF Resolve, Find, GoTo, PcStates
  <2> QED
    BY <2>1, <2>2
<1>10. ASSUME NEW c \in Calls, Start(c) PROVE TypeOK'
  BY <1>10 DEF Start, Find, GoTo, PcStates
<1>11. ASSUME NEW c \in Calls, SaveRunning(c) PROVE TypeOK'
  <2>1. [copy[c] EXCEPT !.status = "running", !.attempts = known[c].attempts + 1] \in Records
    <3>1. known[c].attempts \in Nat /\ copy[c] \in Records
      BY DEF Records
    <3> QED
      BY <3>1, Patches
  <2> QED
    BY <1>11, <2>1 DEF SaveRunning, Save, GoTo, PcStates
<1>12. ASSUME NEW c \in Calls, Operate(c) PROVE TypeOK'
  <2>1. pc' \in [Calls -> PcStates] /\ copy' \in [Calls -> Records]
    BY <1>12 DEF Operate, Find, GoTo, PcStates
  <2>2. succeeded' \subseteq runs' /\ runs' \subseteq Calls
    BY <1>12 DEF Operate
  <2> QED
    BY <1>12, <2>1, <2>2 DEF Operate
<1>13. ASSUME NEW c \in Calls, SaveCompleted(c) PROVE TypeOK'
  BY <1>0, <1>13, Patches DEF SaveCompleted, AnswerKinds, Answers
<1>14. ASSUME NEW c \in Calls, SaveCompletedFails(c) PROVE TypeOK'
  BY <1>14 DEF SaveCompletedFails, Find, GoTo, PcStates
<1>15. ASSUME NEW c \in Calls, SaveFailed(c) PROVE TypeOK'
  BY <1>0, <1>15, Patches DEF SaveFailed, Throw, AnswerKinds, Answers
<1>16. ASSUME NEW c \in Calls, SaveRejected(c) PROVE TypeOK'
  BY <1>0, <1>16, OrchestrationAssumption DEF SaveRejected, Throw, AnswerKinds, Answers
<1>17. ASSUME Crash PROVE TypeOK'
  BY <1>17 DEF Crash, PcStates
<1>18. CASE UNCHANGED vars
  BY <1>18 DEF vars
<1> QED
  BY <1>1, <1>2, <1>3, <1>4, <1>5, <1>6, <1>7, <1>8, <1>9, <1>10, <1>11, <1>12, <1>13, <1>14,
     <1>15, <1>16, <1>17, <1>18
  DEF Next, Execute

\* However calls interleave, fail and crash, the record, the copies and the answers keep their form.
THEOREM TypeCorrect == Spec => []TypeOK
  BY InitTypeOK, NextTypeOK, PTL DEF Spec

-----------------------------------------------------------------------------
(* Results are real *)

\* Not only the stored record but every copy a call may still save over it carries the result of
\* an operation that returned, and who is about to save a result has one.
Real(record) == record.status = "completed" => record.result \in succeeded
ResultInv ==
    /\ ResultsAreReal
    /\ \A c \in Calls : Real(known[c]) /\ Real(copy[c])
    /\ \A c \in Calls : pc[c] = "saveCompleted" => c \in succeeded

\* Nothing is completed at first.
LEMMA InitResultInv == Init => ResultInv
  BY DEF Init, ResultInv, ResultsAreReal, Real, Absent, Created

\* A save keeps the status and the result of the copy, or is that of a result, or writes another
\* status.
LEMMA NextResultInv == TypeOK /\ ResultInv /\ [Next]_vars => ResultInv'
<1> SUFFICES ASSUME TypeOK, ResultInv, [Next]_vars PROVE ResultInv'
  OBVIOUS
<1> USE DEF TypeOK, ResultInv, ResultsAreReal, Real
<1>1. ASSUME NEW c \in Calls, Begin(c) PROVE ResultInv'
  <2>1. PICK o \in OpsOf[c] : GoTo(c, o)
    BY <1>1 DEF Begin
  <2>2. o # "saveCompleted"
    BY OrchestrationAssumption
  <2> QED
    BY <1>1, <2>1, <2>2 DEF Begin, GoTo
<1>2. ASSUME NEW c \in Calls, Create(c) PROVE ResultInv'
  <2>1. \E kind \in {"created", "error"} : Finish(c, kind, NoCall)
    BY <1>2 DEF Create, Throw
  <2>2. rec' = rec \/ rec'.status = "pending"
    BY <1>2, Firsts DEF Create
  <2> QED
    BY <1>2, <2>1, <2>2 DEF Create, Finish, Forget, GoTo, Absent
<1>3. ASSUME NEW c \in Calls, CheckRecoverable(c) PROVE ResultInv'
  BY <1>3, SMTT(30) DEF CheckRecoverable, Find, Finish, Throw, Forget, GoTo, Absent
<1>4. ASSUME NEW c \in Calls, SaveRecovered(c) PROVE ResultInv'
  <2>1. /\ rec'.status = "resuming" /\ UNCHANGED succeeded
        /\ \A d \in Calls : known'[d] \in {known[d], rec', Absent} /\ copy'[d] \in {copy[d], Absent}
        /\ \A d \in Calls : answer'[d] = answer[d] \/ answer'[d].kind = "recovered"
        /\ \A d \in Calls : pc'[d] = pc[d] \/ pc'[d] \in {"start", "done"}
    <3> DEFINE record == [Resumed(copy[c]) EXCEPT !.recoveryCount = known[c].recoveryCount + 1]
    <3>1. record.status = "resuming"
      BY DEF Resumed, Records
    <3> HIDE DEF record
    <3>2. CASE pc[c] = "saveResuming"
      BY <1>4, <3>1, <3>2 DEF SaveRecovered, Save, GoTo, record
    <3>3. CASE pc[c] # "saveResuming"
      <4>1. rec' = record /\ Finish(c, "recovered", NoCall) /\ UNCHANGED succeeded
        BY <1>4, <3>3 DEF SaveRecovered, record
      <4> QED
        BY <3>1, <4>1 DEF Finish, Forget, GoTo
    <3> QED
      BY <3>2, <3>3
  <2> QED
    BY <2>1 DEF Absent
<1>5. ASSUME NEW c \in Calls, Resume(c) PROVE ResultInv'
  BY <1>5, SMTT(30) DEF Resume, Find, Finish, Throw, Forget, GoTo, Absent
<1>6. ASSUME NEW c \in Calls, SaveResume(c) PROVE ResultInv'
  BY <1>6 DEF SaveResume, Resumed, Records, Finish, Forget, GoTo, Absent
<1>7. ASSUME NEW c \in Calls, CheckKey(c) PROVE ResultInv'
  BY <1>7 DEF CheckKey, Find, Finish, Throw, Forget, GoTo, Absent
<1>8. ASSUME NEW c \in Calls, SaveKey(c) PROVE ResultInv'
  <2>1. rec'.status = copy[c].status /\ rec'.result = copy[c].result
    BY <1>8 DEF SaveKey, Save, Records
  <2> QED
    BY <1>8, <2>1 DEF SaveKey, Save, GoTo
<1>9. ASSUME NEW c \in Calls, Resolve(c) PROVE ResultInv'
  BY <1>9 DEF Resolve, AlreadyCompleted, Find, Finish, Forget, GoTo, Absent
<1>10. ASSUME NEW c \in Calls, Start(c) PROVE ResultInv'
  BY <1>10 DEF Start, Find, GoTo
<1>11. ASSUME NEW c \in Calls, SaveRunning(c) PROVE ResultInv'
  <2>1. rec'.status = "running"
    BY <1>11 DEF SaveRunning, Save, Records
  <2> QED
    BY <1>11, <2>1 DEF SaveRunning, Save, GoTo
<1>12. ASSUME NEW c \in Calls, Operate(c) PROVE ResultInv'
  BY <1>12 DEF Operate, Find, GoTo
<1>13. ASSUME NEW c \in Calls, SaveCompleted(c) PROVE ResultInv'
  <2>1. rec'.result = c /\ c \in succeeded /\ UNCHANGED succeeded
    BY <1>13 DEF SaveCompleted, Completed, Records
  <2> QED
    BY <1>13, <2>1 DEF SaveCompleted, Finish, Forget, GoTo, Absent
<1>14. ASSUME NEW c \in Calls, SaveCompletedFails(c) PROVE ResultInv'
  BY <1>14 DEF SaveCompletedFails, Find, GoTo
<1>15. ASSUME NEW c \in Calls, SaveFailed(c) PROVE ResultInv'
  <2>1. rec'.status = "failed"
    BY <1>15 DEF SaveFailed, Records
  <2> QED
    BY <1>15, <2>1 DEF SaveFailed, Finish, Throw, Forget, GoTo, Absent
<1>16. ASSUME NEW c \in Calls, SaveRejected(c) PROVE ResultInv'
  BY <1>16 DEF SaveRejected, Finish, Throw, Forget, GoTo, Absent
<1>17. ASSUME Crash PROVE ResultInv'
  BY <1>17 DEF Crash, Absent
<1>18. CASE UNCHANGED vars
  BY <1>18 DEF vars
<1> QED
  BY <1>1, <1>2, <1>3, <1>4, <1>5, <1>6, <1>7, <1>8, <1>9, <1>10, <1>11, <1>12, <1>13, <1>14,
     <1>15, <1>16, <1>17, <1>18
  DEF Next, Execute

\* A completed record, and an answer from one, carry the result of an operation that returned.
THEOREM ResultsAreAlwaysReal == Spec => []ResultsAreReal
<1>1. ResultInv => ResultsAreReal
  BY DEF ResultInv
<1> QED
  BY <1>1, TypeCorrect, InitResultInv, NextResultInv, PTL DEF Spec

-----------------------------------------------------------------------------
(* Calls made one after another *)

\* What a call under way knows of the record, as long as no other call is.
UpToDate(c) ==
    /\ known[c] = rec
    /\ pc[c] \notin {"resolve", "start", "operate"} => copy[c] = rec
    /\ pc[c] \in {"saveRecovered", "saveResuming"} => Recoverable(rec.status)
    /\ pc[c] = "saveResume" => Resumable(rec.status)
    /\ pc[c] = "saveKey" => rec.key = NoKey
    /\ pc[c] \in {"start", "saveRunning"} => rec.status \in {"resuming", "running"}
    /\ pc[c] \in {"operate", "saveCompleted", "saveFailed"} => rec.status = "running"

SequentialInv ==
    ~overlapped =>
        /\ rec.status = "completed" => rec.key # NoKey
        /\ \A c \in Calls : InFlight(c) =>
            /\ UpToDate(c)
            /\ \A d \in Calls : InFlight(d) => d = c

\* No call is under way at first.
LEMMA InitSequentialInv == Init => SequentialInv
  BY DEF Init, SequentialInv, InFlight, Absent, Created

\* A step of the only call under way leaves it up to date and takes no completed record back.
LEMMA StepSequential ==
    ASSUME TypeOK, SequentialInv, NEW c \in Calls, ~overlapped, InFlight(c),
           \/ Create(c) \/ CheckRecoverable(c) \/ SaveRecovered(c)
           \/ Resume(c) \/ SaveResume(c) \/ Execute(c) \/ SaveRejected(c)
    PROVE  /\ InFlight(c)' => UpToDate(c)'
           /\ \A d \in Calls \ {c} : pc'[d] = pc[d]
           /\ rec.status = "completed" => rec' = rec
           /\ rec'.status = "completed" => rec'.key # NoKey
           /\ rec'.attempts >= rec.attempts
<1> USE OrchestrationAssumption DEF InFlight, UpToDate
<1>0. /\ UpToDate(c)
      /\ rec.status = "completed" => rec.key # NoKey
      /\ rec \in Records /\ copy[c] \in Records /\ known[c] \in Records
  BY DEF SequentialInv, TypeOK
<1>1. rec.attempts \in Nat /\ KeyOf[c] # NoKey
  BY <1>0 DEF Records
<1> USE <1>0, <1>1 DEF TypeOK
<1>2. CASE Create(c)
  BY <1>2 DEF Create, Finish, Throw, Forget, GoTo, Absent, Created
<1>3. CASE CheckRecoverable(c)
  BY <1>3 DEF CheckRecoverable, Find, Finish, Throw, Forget, GoTo
<1>4. CASE SaveRecovered(c)
  <2>1. copy[c] = rec /\ known[c] = rec /\ rec.status # "completed"
    BY <1>4 DEF SaveRecovered, Recoverable
  <2> DEFINE record == [Resumed(copy[c]) EXCEPT !.recoveryCount = known[c].recoveryCount + 1]
  <2>2. record.status = "resuming" /\ record.attempts = rec.attempts
    BY <2>1 DEF Resumed, Records
  <2> HIDE DEF record
  <2>3. CASE pc[c] = "saveResuming"
    <3>1. Save(c, record, "start")
      BY <1>4, <2>3 DEF SaveRecovered, record
    <3> QED
      BY <2>1, <2>2, <2>3, <3>1 DEF Save, GoTo
  <2>4. CASE pc[c] # "saveResuming"
    <3>1. rec' = record /\ Finish(c, "recovered", NoCall)
      BY <1>4, <2>4 DEF SaveRecovered, record
    <3> QED
      BY <2>1, <2>2, <3>1 DEF Finish, Forget, GoTo
  <2> QED
    BY <2>3, <2>4
<1>5. CASE Resume(c)
  BY <1>5 DEF Resume, Find, Finish, Throw, Forget, GoTo
<1>6. CASE SaveResume(c)
  <2>1. copy[c] = rec /\ rec.status # "completed"
    BY <1>6 DEF SaveResume, Resumable
  <2>2. rec'.status = "resuming" /\ rec'.attempts = rec.attempts
    BY <1>6, <2>1 DEF SaveResume, Resumed, Records
  <2> QED
    BY <1>6, <2>1, <2>2 DEF SaveResume, Finish, Forget, GoTo
<1>7. CASE CheckKey(c)
  BY <1>7 DEF CheckKey, Find, Finish, Throw, Forget, GoTo
<1>8. CASE SaveKey(c)
  <2>1. copy[c] = rec /\ rec.status # "completed"
    BY <1>8 DEF SaveKey
  <2>2. rec'.status = rec.status /\ rec'.attempts = rec.attempts /\ known'[c] = rec'
    BY <1>8, <2>1 DEF SaveKey, Save, Records
  <2> QED
    BY <1>8, <2>1, <2>2 DEF SaveKey, Save, GoTo
<1>9. CASE Resolve(c)
  BY <1>9 DEF Resolve, Find, Finish, Forget, GoTo
<1>10. CASE Start(c)
  BY <1>10 DEF Start, Find, GoTo
<1>11. CASE SaveRunning(c)
  <2>1. copy[c] = rec /\ known[c] = rec /\ rec.status # "completed"
    BY <1>11 DEF SaveRunning
  <2>2. rec'.status = "running" /\ rec'.attempts = rec.attempts + 1 /\ known'[c] = rec'
    BY <1>11, <2>1 DEF SaveRunning, Save, Records
  <2> QED
    BY <1>11, <2>1, <2>2 DEF SaveRunning, Save, GoTo
<1>12. CASE Operate(c)
  BY <1>12 DEF Operate, Find, GoTo
<1>13. CASE SaveCompleted(c)
  <2>1. copy[c] = rec /\ rec.status # "completed"
    BY <1>13 DEF SaveCompleted
  <2>2. rec'.key = KeyOf[c] /\ rec'.attempts = rec.attempts
    BY <1>13, <2>1 DEF SaveCompleted, Completed, Records
  <2> QED
    BY <1>13, <2>1, <2>2 DEF SaveCompleted, Finish, Forget, GoTo
<1>14. CASE SaveCompletedFails(c)
  BY <1>14 DEF SaveCompletedFails, Find, GoTo
<1>15. CASE SaveFailed(c)
  <2>1. copy[c] = rec /\ rec.status # "completed"
    BY <1>15 DEF SaveFailed
  <2>2. rec'.status = "failed" /\ rec'.attempts = rec.attempts
    BY <1>15, <2>1 DEF SaveFailed, Records
  <2> QED
    BY <1>15, <2>1, <2>2 DEF SaveFailed, Finish, Throw, Forget, GoTo
<1>16. CASE SaveRejected(c)
  BY <1>16 DEF SaveRejected, Finish, Throw, Forget, GoTo
<1> QED
  BY <1>2, <1>3, <1>4, <1>5, <1>6, <1>7, <1>8, <1>9, <1>10, <1>11, <1>12, <1>13, <1>14, <1>15, <1>16
  DEF Execute

\* A call that begins beside another ends the claim; one that begins alone is up to date.
LEMMA NextSequentialInv == TypeOK /\ SequentialInv /\ [Next]_vars => SequentialInv'
<1> SUFFICES ASSUME TypeOK, SequentialInv, [Next]_vars, ~overlapped'
             PROVE  /\ rec'.status = "completed" => rec'.key # NoKey
                    /\ \A c \in Calls : InFlight(c)' =>
                        UpToDate(c)' /\ \A d \in Calls : InFlight(d)' => d = c
  BY DEF SequentialInv
<1> DEFINE Goal == /\ rec'.status = "completed" => rec'.key # NoKey
                   /\ \A c \in Calls : InFlight(c)' =>
                        UpToDate(c)' /\ \A d \in Calls : InFlight(d)' => d = c
<1>1. ASSUME NEW c \in Calls, Begin(c) PROVE Goal
  <2>1. ~overlapped /\ \A d \in Calls : ~InFlight(d)
    BY <1>1 DEF Begin
  <2>2. PICK o \in {"create", "execute", "recover", "resume"} : GoTo(c, o)
    BY <1>1, OrchestrationAssumption DEF Begin
  <2>3. \A d \in Calls \ {c} : ~InFlight(d)'
    BY <2>1, <2>2 DEF InFlight, GoTo
  <2>4. UpToDate(c)'
    BY <1>1, <2>2 DEF Begin, UpToDate, GoTo, TypeOK
  <2> QED
    BY <1>1, <2>1, <2>3, <2>4 DEF Begin, SequentialInv
<1>2. ASSUME NEW c \in Calls,
             \/ Create(c) \/ CheckRecoverable(c) \/ SaveRecovered(c)
             \/ Resume(c) \/ SaveResume(c) \/ Execute(c) \/ SaveRejected(c)
      PROVE Goal
  <2>1. ~overlapped
    BY <1>2 DEF Create, CheckRecoverable, SaveRecovered, Resume, SaveResume, Execute, CheckKey, SaveKey,
                Resolve, Start, SaveRunning, Operate, SaveCompleted, SaveCompletedFails, SaveFailed, SaveRejected
  <2>2. InFlight(c)
    BY <1>2 DEF InFlight, Create, CheckRecoverable, SaveRecovered, Resume, SaveResume, Execute, CheckKey,
                SaveKey, Resolve, Start, SaveRunning, Operate, SaveCompleted, SaveCompletedFails, SaveFailed, SaveRejected
  <2>3. \A d \in Calls \ {c} : ~InFlight(d)
    BY <2>1, <2>2 DEF SequentialInv
  <2>4. /\ InFlight(c)' => UpToDate(c)'
        /\ \A d \in Calls \ {c} : pc'[d] = pc[d]
        /\ rec'.status = "completed" => rec'.key # NoKey
    BY <1>2, <2>1, <2>2, StepSequential
  <2>5. \A d \in Calls \ {c} : ~InFlight(d)'
    BY <2>3, <2>4 DEF InFlight
  <2> QED
    BY <2>4, <2>5
<1>3. ASSUME Crash PROVE Goal
  <2>1. \A c \in Calls : ~InFlight(c)'
    BY <1>3 DEF Crash, InFlight
  <2> QED
    BY <1>3, <2>1 DEF Crash, SequentialInv
<1>4. CASE UNCHANGED vars
  BY <1>4 DEF vars, SequentialInv, InFlight, UpToDate
<1> QED
  BY <1>1, <1>2, <1>3, <1>4 DEF Next

\* Calls made one after another never take a completed record back.
THEOREM CompletedIsKept == Spec => CompletedKeptWhenSequential
<1>1. ASSUME TypeOK, SequentialInv, [Next]_vars
      PROVE  [rec.status = "completed" /\ ~overlapped' => rec' = rec]_vars
  <2> SUFFICES ASSUME Next, rec.status = "completed", ~overlapped' PROVE rec' = rec
    BY <1>1
  <2>1. ASSUME NEW c \in Calls,
               \/ Create(c) \/ CheckRecoverable(c) \/ SaveRecovered(c)
               \/ Resume(c) \/ SaveResume(c) \/ Execute(c) \/ SaveRejected(c)
        PROVE rec' = rec
    <3>1. ~overlapped /\ InFlight(c)
      BY <2>1 DEF InFlight, Create, CheckRecoverable, SaveRecovered, Resume, SaveResume, Execute,
                  CheckKey, SaveKey, Resolve, Start, SaveRunning, Operate, SaveCompleted,
                  SaveCompletedFails, SaveFailed, SaveRejected
    <3> QED
      BY <1>1, <2>1, <3>1, StepSequential
  <2> QED
    BY <2>1 DEF Next, Begin, Crash
<1> QED
  BY <1>1, TypeCorrect, InitSequentialInv, NextSequentialInv, PTL
  DEF Spec, CompletedKeptWhenSequential

-----------------------------------------------------------------------------
(* The operation succeeds once *)

\* A run was counted before it began, and the only success there is is recorded or about to be.
OnceInv ==
    /\ IsFiniteSet(runs)
    /\ ~overlapped /\ crashes = 0 /\ faults = 0 =>
        /\ Cardinality(runs) <= rec.attempts
        /\ \A c \in Calls : pc[c] = "operate" => Cardinality(runs) + 1 <= rec.attempts
        /\ \A c, d \in succeeded : c = d
        /\ \A c \in succeeded : rec.status = "completed" \/ pc[c] = "saveCompleted"

\* There is no run at first.
LEMMA InitOnceInv == Init => OnceInv
<1> SUFFICES ASSUME Init PROVE OnceInv
  OBVIOUS
<1>1. IsFiniteSet(runs) /\ Cardinality(runs) = 0
  BY FS_EmptySet DEF Init
<1>2. rec.attempts = 0
  BY DEF Init, Absent, Created
<1> QED
  BY <1>1, <1>2 DEF Init, OnceInv

\* A run of the operation is the only one under way, on a record that says running.
LEMMA OperateOnce ==
    ASSUME TypeOK, SequentialInv, OnceInv, NEW c \in Calls, Operate(c)
    PROVE  OnceInv'
<1>1. /\ IsFiniteSet(runs') /\ Cardinality(runs') <= Cardinality(runs) + 1
      /\ Cardinality(runs) \in Nat /\ Cardinality(runs') \in Nat
  <2>1. IsFiniteSet(runs) /\ runs' = runs \cup {c}
    BY DEF Operate, OnceInv
  <2>2. /\ IsFiniteSet(runs \cup {c})
        /\ Cardinality(runs \cup {c}) \in {Cardinality(runs), Cardinality(runs) + 1}
    BY <2>1, FS_AddElement, Zenon
  <2>3. Cardinality(runs) \in Nat
    BY <2>1, FS_CardinalityType
  <2> QED
    BY <2>1, <2>2, <2>3
<1> SUFFICES ASSUME ~overlapped, crashes = 0, faults = 0
             PROVE  /\ Cardinality(runs') <= rec.attempts
                    /\ \A d \in Calls : pc'[d] # "operate"
                    /\ \A s, d \in succeeded' : s = d
                    /\ \A s \in succeeded' : pc'[s] = "saveCompleted"
  BY <1>1 DEF OnceInv, Operate
<1>2. InFlight(c) /\ pc[c] = "operate" /\ rec.attempts \in Nat
  BY DEF Operate, InFlight, TypeOK, Records
<1>3. rec.status = "running" /\ \A d \in Calls : InFlight(d) => d = c
  BY <1>2 DEF SequentialInv, UpToDate
<1>4. succeeded = {}
  BY <1>2, <1>3 DEF OnceInv, InFlight, TypeOK
<1>5. \A d \in Calls : pc'[d] # "operate"
  BY <1>2, <1>3 DEF Operate, Find, GoTo, TypeOK, InFlight
<1>6. \A s \in succeeded' : s = c /\ pc'[s] = "saveCompleted"
  BY <1>4 DEF Operate, Find, GoTo, TypeOK
<1> QED
  BY <1>1, <1>2, <1>5, <1>6 DEF OnceInv

\* Other steps run nothing; the save of a success records it unless it is rejected.
LEMMA OtherOnce ==
    ASSUME TypeOK, SequentialInv, OnceInv, NEW c \in Calls, ~Operate(c),
           \/ Create(c) \/ CheckRecoverable(c) \/ SaveRecovered(c)
           \/ Resume(c) \/ SaveResume(c) \/ Execute(c) \/ SaveRejected(c)
    PROVE  OnceInv'
<1>1. UNCHANGED <<runs, succeeded, overlapped, crashes>> /\ InFlight(c) /\ (faults' = 0 => faults = 0)
  BY OrchestrationAssumption
  DEF TypeOK, InFlight, Create, CheckRecoverable, SaveRecovered, Resume, SaveResume, Execute, CheckKey,
      SaveKey, Resolve, Start, SaveRunning, SaveCompleted, SaveCompletedFails, SaveFailed, SaveRejected
<1> SUFFICES ASSUME ~overlapped, crashes = 0, faults = 0, faults' = 0
             PROVE  /\ Cardinality(runs) <= rec'.attempts
                    /\ \A d \in Calls : pc'[d] = "operate" => Cardinality(runs) + 1 <= rec'.attempts
                    /\ \A s \in succeeded : rec'.status = "completed" \/ pc'[s] = "saveCompleted"
  BY <1>1 DEF OnceInv
<1>2. /\ \A d \in Calls \ {c} : pc'[d] = pc[d]
      /\ rec.status = "completed" => rec' = rec
      /\ rec'.attempts >= rec.attempts
  BY <1>1, StepSequential
<1>3. rec.attempts \in Nat /\ rec'.attempts \in Nat /\ Cardinality(runs) \in Nat
  <2>1. TypeOK'
    BY NextTypeOK DEF Next
  <2> QED
    BY <2>1, FS_CardinalityType DEF TypeOK, Records, OnceInv
<1>4. ASSUME NEW d \in Calls, pc'[d] = "operate" PROVE Cardinality(runs) + 1 <= rec'.attempts
  <2>1. CASE d # c
    BY <1>2, <1>3, <1>4, <2>1 DEF OnceInv
  <2>2. CASE d = c
    <3>1. SaveRunning(c)
      BY <1>4, <2>2, <1>1
      DEF TypeOK, Create, CheckRecoverable, SaveRecovered, Resume, SaveResume, Execute, CheckKey, SaveKey,
          Resolve, Start, SaveCompleted, SaveCompletedFails, SaveFailed, SaveRejected, Save, Find, Finish, Throw, GoTo
    <3>2. known[c] = rec /\ copy[c] = rec /\ rec \in Records
      BY <1>1, <3>1 DEF SequentialInv, UpToDate, SaveRunning, TypeOK
    <3>3. rec'.attempts = rec.attempts + 1
      BY <3>1, <3>2 DEF SaveRunning, Save, Records
    <3> QED
      BY <1>3, <3>3 DEF OnceInv
  <2> QED
    BY <2>1, <2>2
<1>5. ASSUME NEW s \in succeeded PROVE rec'.status = "completed" \/ pc'[s] = "saveCompleted"
  <2>1. CASE rec.status = "completed"
    BY <1>2, <2>1
  <2>2. CASE rec.status # "completed" /\ s # c
    BY <1>2, <2>2 DEF OnceInv, TypeOK
  <2>3. CASE rec.status # "completed" /\ s = c
    <3>1. pc[c] = "saveCompleted"
      BY <2>3 DEF OnceInv
    <3>2. SaveCompleted(c)
      BY <3>1, OrchestrationAssumption
      DEF TypeOK, Create, CheckRecoverable, SaveRecovered, Resume, SaveResume, Execute, CheckKey, SaveKey,
          Resolve, Start, SaveRunning, SaveCompletedFails, SaveFailed, SaveRejected
    <3>3. rec'.status = "completed"
      BY <3>2 DEF SaveCompleted, Completed, TypeOK, Records
    <3> QED
      BY <3>3
  <2> QED
    BY <2>1, <2>2, <2>3
<1> QED
  BY <1>2, <1>3, <1>4, <1>5 DEF OnceInv

\* A call that begins changes nothing but its own place; a crash ends the claim.
LEMMA NextOnceInv == TypeOK /\ SequentialInv /\ OnceInv /\ [Next]_vars => OnceInv'
<1> SUFFICES ASSUME TypeOK, SequentialInv, OnceInv, [Next]_vars PROVE OnceInv'
  OBVIOUS
<1>1. ASSUME NEW c \in Calls, Begin(c) PROVE OnceInv'
  <2>1. PICK o \in {"create", "execute", "recover", "resume"} : GoTo(c, o)
    BY <1>1, OrchestrationAssumption DEF Begin
  <2> QED
    BY <1>1, <2>1 DEF Begin, GoTo, OnceInv, TypeOK
<1>2. ASSUME Crash PROVE OnceInv'
  BY <1>2, OrchestrationAssumption DEF Crash, OnceInv, TypeOK
<1>3. CASE UNCHANGED vars
  BY <1>3 DEF vars, OnceInv
<1> QED
  BY <1>1, <1>2, <1>3, OperateOnce, OtherOnce DEF Next

\* Calls made one after another, without a crash or a rejected save, make the operation succeed
\* once, and every run of it is counted.
THEOREM OnceInSequence == Spec => []OnceWhenSequential
<1>1. OnceInv /\ TypeOK => OnceWhenSequential
  <2> SUFFICES ASSUME OnceInv, ~overlapped, crashes = 0, faults = 0 PROVE Cardinality(succeeded) <= 1
    BY DEF OnceInv, OnceWhenSequential
  <2>1. CASE succeeded = {}
    BY <2>1, FS_EmptySet
  <2>2. CASE succeeded # {}
    <3>1. PICK s \in succeeded : TRUE
      BY <2>2
    <3>2. succeeded = {s}
      <4>1. \A d \in succeeded : d = s
        BY <3>1 DEF OnceInv
      <4> QED
        BY <3>1, <4>1
    <3> QED
      <4>1. Cardinality({s}) = 1
        BY FS_Singleton, Zenon
      <4> QED
        BY <3>2, <4>1
  <2> QED
    BY <2>1, <2>2
<1> QED
  BY <1>1, TypeCorrect, InitSequentialInv, NextSequentialInv, InitOnceInv, NextOnceInv, PTL DEF Spec

-----------------------------------------------------------------------------
(* Tasks and events: types *)

\* An event has the id it was published with, or that of its call.
LEMMA IdType == ASSUME TaskTypeOK, NEW c \in Callers PROVE Id(c) \in Ids \cup Callers
  BY TaskEventsAssumption DEF Id, TaskTypeOK

\* Nothing is under way at first.
LEMMA InitTaskTypes == TaskInit => TaskTypeOK
<1> SUFFICES ASSUME TaskInit PROVE TaskTypeOK
  OBVIOUS
<1>1. op \in [Callers -> {"start", "complete", "publish", "replay"}]
  BY TaskEventsAssumption DEF TaskInit
<1>2. \A c \in Callers : at[c] = "start"
  BY DEF TaskInit
<1>3. /\ at \in [Callers -> {"start", "found", "publish", "append", "deliver", "replay"} \cup Over]
      /\ task \in {"pending", "in_progress", "completed"}
      /\ store \in [Ids \cup Callers -> Callers \cup {None}]
      /\ event \in [Callers -> Callers \cup {None}] /\ DOMAIN todo = Callers
      /\ handled \in [0..Handlers -> SUBSET Callers] /\ shown \in [Callers -> SUBSET Callers]
  BY DEF TaskInit
<1>4. done \subseteq Callers /\ failures \in 0..MaxFailures /\ raced \in BOOLEAN
      /\ racedIds \subseteq Ids \cup Callers
  BY TaskEventsAssumption DEF TaskInit
<1> QED
  BY <1>1, <1>2, <1>3, <1>4 DEF TaskTypeOK

\* The handlers of the bus, in the order they subscribed.
LEMMA AllHandlers ==
    ASSUME NEW n \in Nat
    PROVE  /\ [h \in 1..n |-> h] \in Seq(1..n)
           /\ n # 0 => [h \in 1..n |-> h] # <<>>
           /\ \A h \in 1..n : \E i \in DOMAIN [k \in 1..n |-> k] : [k \in 1..n |-> k][i] = h
<1>1. /\ [h \in 1..n |-> h] \in [1..n -> 1..n]
  OBVIOUS
<1>2. [h \in 1..n |-> h] \in Seq(1..n) /\ Len([h \in 1..n |-> h]) = n
  BY <1>1
<1>3. n # 0 => [h \in 1..n |-> h] # <<>>
  BY <1>2
<1> QED
  BY <1>2, <1>3

\* The store holds finitely many events.
FiniteStore == IsFiniteSet(Stored)

\* The store is empty at first.
LEMMA InitFiniteStore == TaskInit => FiniteStore
<1> SUFFICES ASSUME TaskInit PROVE FiniteStore
  OBVIOUS
<1>1. Stored = {}
  BY DEF TaskInit, Stored
<1> QED
  BY <1>1, FS_EmptySet DEF FiniteStore

\* A save adds one event.
LEMMA NextFiniteStore == TaskTypeOK /\ FiniteStore /\ [TaskNext]_taskVars => FiniteStore'
<1> SUFFICES ASSUME TaskTypeOK, FiniteStore, [TaskNext]_taskVars PROVE FiniteStore'
  OBVIOUS
<1>1. ASSUME NEW c \in Callers, AppendSave(c) PROVE FiniteStore'
  <2>1. Stored' \subseteq Stored \cup {c}
    BY <1>1, IdType DEF AppendSave, Stored, TaskTypeOK
  <2>2. IsFiniteSet(Stored \cup {c})
    BY FS_AddElement DEF FiniteStore
  <2> QED
    BY <2>1, <2>2, FS_Subset DEF FiniteStore
<1>2. CASE UNCHANGED store
  BY <1>2 DEF FiniteStore, Stored
<1> QED
  BY <1>1, <1>2 DEF TaskNext, taskVars, FindTask, SaveTask, AppendFind, Handle, Replay, Give, ProcessDies

\* A delivery that goes on has handlers left to call.
LEMMA NextTaskTypes == TaskTypeOK /\ FiniteStore /\ [TaskNext]_taskVars => TaskTypeOK'
<1> SUFFICES ASSUME TaskTypeOK, FiniteStore, [TaskNext]_taskVars PROVE TaskTypeOK'
  OBVIOUS
<1> USE TaskEventsAssumption DEF TaskTypeOK, Over, Goto, deliveryVars, history
<1>1. ASSUME NEW c \in Callers, FindTask(c) PROVE TaskTypeOK'
  BY <1>1 DEF FindTask, Refused
<1>2. ASSUME NEW c \in Callers, SaveTask(c) PROVE TaskTypeOK'
  BY <1>2 DEF SaveTask, Statement, Applied, Outcomes
<1>3. ASSUME NEW c \in Callers, AppendFind(c) PROVE TaskTypeOK'
  <2>1. Id(c) \in Ids \cup Callers /\ UNCHANGED <<task, store, op, handled, failures, done, shown, raced>>
    BY <1>3, IdType DEF AppendFind
  <2>2. CASE Exists(c)
    <3>1. Goto(c, Delivering) /\ Deliver(c, store[Id(c)]) /\ UNCHANGED racedIds
      BY <1>3, <2>2 DEF AppendFind
    <3>2. store[Id(c)] \in Callers
      BY <2>1, <2>2 DEF Exists
    <3>3. /\ at' \in [Callers -> {"start", "found", "publish", "append", "deliver", "replay"} \cup Over]
          /\ event' \in [Callers -> Callers \cup {None}] /\ DOMAIN todo' = Callers
      BY <3>1, <3>2 DEF Deliver, Delivering
    <3>4. ASSUME NEW d \in Callers
          PROVE  /\ at'[d] = "deliver" => event'[d] \in Callers /\ todo'[d] \in Seq(1..Handlers) \ {<<>>}
                 /\ at'[d] = "replay" => todo'[d] \in Seq(Callers)
      <4>1. CASE d # c
        BY <3>1, <4>1 DEF Deliver
      <4>2. CASE d = c
        BY <3>1, <3>2, <4>2, AllHandlers DEF Deliver, Delivering
      <4> QED
        BY <4>1, <4>2
    <3> QED
      BY <2>1, <3>1, <3>3, <3>4
  <2>3. CASE ~Exists(c)
    <3>1. /\ Goto(c, "append") /\ UNCHANGED <<event, todo>>
          /\ racedIds' = racedIds \cup {Id(d) : d \in {d \in Callers : at[d] = "append" /\ Id(d) = Id(c)}}
      BY <1>3, <2>3 DEF AppendFind
    <3>2. racedIds' \subseteq Ids \cup Callers
      BY <2>1, <3>1
    <3> QED
      BY <2>1, <3>1, <3>2
  <2> QED
    BY <2>2, <2>3
<1>4. ASSUME NEW c \in Callers, AppendSave(c) PROVE TaskTypeOK'
  <2>1. PICK o \in Outcomes :
            /\ Statement(c, o, Delivering)
            /\ store' = IF Applied(o) THEN [store EXCEPT ![Id(c)] = c] ELSE store
            /\ IF o = "ok" THEN Deliver(c, c) ELSE UNCHANGED <<event, todo>>
    BY <1>4 DEF AppendSave
  <2>2. at[c] = "append" /\ UNCHANGED <<task, op, handled, history>> /\ Id(c) \in Ids \cup Callers
    BY <1>4, IdType DEF AppendSave
  <2>3. store' \in [Ids \cup Callers -> Callers \cup {None}] /\ failures' \in 0..MaxFailures
    BY <2>1, <2>2 DEF Statement
  <2>4. /\ at' \in [Callers -> {"start", "found", "publish", "append", "deliver", "replay"} \cup Over]
        /\ event' \in [Callers -> Callers \cup {None}] /\ DOMAIN todo' = Callers
    BY <2>1 DEF Statement, Deliver, Delivering
  <2>5. ASSUME NEW d \in Callers
        PROVE  /\ at'[d] = "deliver" => event'[d] \in Callers /\ todo'[d] \in Seq(1..Handlers) \ {<<>>}
               /\ at'[d] = "replay" => todo'[d] \in Seq(Callers)
    <3>1. CASE d # c
      BY <2>1, <3>1 DEF Statement, Deliver
    <3>2. CASE d = c /\ o = "ok"
      BY <2>1, <3>2, AllHandlers DEF Statement, Deliver, Delivering
    <3>3. CASE d = c /\ o # "ok"
      BY <2>1, <3>3 DEF Statement
    <3> QED
      BY <3>1, <3>2, <3>3
  <2> QED
    BY <2>2, <2>3, <2>4, <2>5
<1>5. ASSUME NEW c \in Callers, Handle(c) PROVE TaskTypeOK'
  <2>1. /\ at[c] = "deliver" /\ todo[c] # <<>> /\ todo[c] \in Seq(1..Handlers) /\ event[c] \in Callers
        /\ UNCHANGED <<task, store, op, event, history>>
    BY <1>5 DEF Handle
  <2>2. Head(todo[c]) \in 1..Handlers /\ Tail(todo[c]) \in Seq(1..Handlers)
    BY <2>1
  <2>3. CASE /\ handled' = [handled EXCEPT ![Head(todo[c])] = @ \cup {event[c]}]
             /\ todo' = [todo EXCEPT ![c] = Tail(@)]
             /\ Goto(c, IF Tail(todo[c]) = <<>> THEN "ok" ELSE "deliver")
             /\ UNCHANGED failures
    <3>1. handled' \in [0..Handlers -> SUBSET Callers]
      BY <2>1, <2>2, <2>3
    <3>2. ASSUME NEW d \in Callers
          PROVE  /\ at'[d] = "deliver" => event'[d] \in Callers /\ todo'[d] \in Seq(1..Handlers) \ {<<>>}
                 /\ at'[d] = "replay" => todo'[d] \in Seq(Callers)
      <4>1. CASE d = c
        BY <2>1, <2>2, <2>3, <4>1
      <4>2. CASE d # c
        BY <2>1, <2>3, <4>2
      <4> QED
        BY <4>1, <4>2
    <3> QED
      BY <2>1, <2>3, <3>1, <3>2
  <2>4. CASE /\ failures < MaxFailures
             /\ failures' = failures + 1
             /\ Goto(c, "failed")
             /\ UNCHANGED <<handled, todo>>
    BY <2>1, <2>4
  <2> QED
    BY <1>5, <2>3, <2>4 DEF Handle
<1>6. ASSUME NEW c \in Callers, Replay(c) PROVE TaskTypeOK'
  <2>1. PICK s \in [1..Cardinality(Stored) -> Stored] : todo' = [todo EXCEPT ![c] = s]
    BY <1>6 DEF Replay
  <2>2. Stored \subseteq Callers
    BY DEF Stored
  <2>3. Cardinality(Stored) \in Nat
    BY FS_CardinalityType DEF FiniteStore
  <2>4. s \in Seq(Callers)
    BY <2>1, <2>2, <2>3, SMTT(30)
  <2> QED
    BY <1>6, <2>1, <2>2, <2>4 DEF Replay
<1>7. ASSUME NEW c \in Callers, Give(c) PROVE TaskTypeOK'
  <2>1. at[c] = "replay" /\ todo[c] \in Seq(Callers) /\ UNCHANGED <<task, store, op, event, history>>
    BY <1>7 DEF Give
  <2>2. CASE todo[c] = <<>>
    BY <1>7, <2>1, <2>2 DEF Give
  <2>3. CASE todo[c] # <<>>
    <3>1. Head(todo[c]) \in Callers /\ Tail(todo[c]) \in Seq(Callers)
      BY <2>1, <2>3
    <3>2. CASE /\ handled' = [handled EXCEPT ![0] = @ \cup {Head(todo[c])}]
               /\ todo' = [todo EXCEPT ![c] = Tail(@)]
               /\ UNCHANGED <<at, failures>>
      <4>1. handled' \in [0..Handlers -> SUBSET Callers]
        BY <3>1, <3>2
      <4> QED
        BY <2>1, <3>1, <3>2, <4>1
    <3>3. CASE /\ failures < MaxFailures
               /\ failures' = failures + 1
               /\ Goto(c, "failed")
               /\ UNCHANGED <<handled, todo>>
      BY <2>1, <3>3
    <3> QED
      BY <1>7, <2>3, <3>2, <3>3 DEF Give
  <2> QED
    BY <2>2, <2>3
<1>8. CASE ProcessDies
  BY <1>8 DEF ProcessDies
<1>9. CASE UNCHANGED taskVars
  BY <1>9 DEF taskVars
<1> QED
  BY <1>1, <1>2, <1>3, <1>4, <1>5, <1>6, <1>7, <1>8, <1>9 DEF TaskNext

\* Rows, places and the lists of handlers and of events still to be served keep their types.
THEOREM TaskTypeCorrect == TaskSpec => []TaskTypeOK
<1>1. TaskInit => TaskTypeOK /\ FiniteStore
  BY InitTaskTypes, InitFiniteStore
<1>2. TaskTypeOK /\ FiniteStore /\ [TaskNext]_taskVars => (TaskTypeOK /\ FiniteStore)'
  BY NextTaskTypes, NextFiniteStore
<1> QED
  BY <1>1, <1>2, PTL DEF TaskSpec

-----------------------------------------------------------------------------
(* Tasks and events: a task is completed once *)

\* What the place of a call tells: its operation, whether it has saved the task, and that a
\* call fails by a fault.
InPlace(c) ==
    /\ c \in done => at[c] \in {"publish", "append", "deliver", "ok", "failed"}
    /\ c \in done \/ at[c] = "found" => op[c] \in {"start", "complete"}
    /\ at[c] \in {"publish", "append", "deliver"} => op[c] # "replay"
    /\ at[c] = "replay" => op[c] = "replay"
    /\ at[c] = "failed" => failures > 0
PlaceInv == \A c \in Callers : InPlace(c)

\* Every call is yet to be made.
LEMMA InitPlaceInv == TaskInit => PlaceInv
  BY DEF TaskInit, PlaceInv, InPlace

\* Each step leads to the place that follows.
LEMMA NextPlaceInv == TaskTypeOK /\ PlaceInv /\ [TaskNext]_taskVars => PlaceInv'
<1> SUFFICES ASSUME TaskTypeOK, PlaceInv, [TaskNext]_taskVars PROVE PlaceInv'
  OBVIOUS
<1> USE TaskEventsAssumption DEF TaskTypeOK, PlaceInv, InPlace, Over, Goto, deliveryVars, history
<1>1. ASSUME NEW c \in Callers, FindTask(c) PROVE PlaceInv'
  BY <1>1 DEF FindTask, Refused
<1>2. ASSUME NEW c \in Callers, SaveTask(c) PROVE PlaceInv'
  BY <1>2 DEF SaveTask, Statement, Applied, Outcomes
<1>3. ASSUME NEW c \in Callers, AppendFind(c) PROVE PlaceInv'
  BY <1>3 DEF AppendFind, Exists, Deliver, Delivering
<1>4. ASSUME NEW c \in Callers, AppendSave(c) PROVE PlaceInv'
  BY <1>4 DEF AppendSave, Statement, Applied, Outcomes, Deliver, Delivering
<1>5. ASSUME NEW c \in Callers, Handle(c) PROVE PlaceInv'
  BY <1>5 DEF Handle
<1>6. ASSUME NEW c \in Callers, Replay(c) PROVE PlaceInv'
  BY <1>6 DEF Replay
<1>7. ASSUME NEW c \in Callers, Give(c) PROVE PlaceInv'
  BY <1>7 DEF Give
<1>8. CASE ProcessDies
  BY <1>8 DEF ProcessDies
<1>9. CASE UNCHANGED taskVars
  BY <1>9 DEF taskVars
<1> QED
  BY <1>1, <1>2, <1>3, <1>4, <1>5, <1>6, <1>7, <1>8, <1>9 DEF TaskNext

\* As long as two calls did not hold copies of the task at a time, a copy is as good as the
\* record, and one completion has taken effect at most.
OneCopy ==
    ~raced =>
        /\ \A c, d \in Callers : at[c] = "found" /\ at[d] = "found" => c = d
        /\ \A c \in Callers : at[c] = "found" => task # "completed"
        /\ \A c, d \in Completing : c = d
        /\ task = "completed" <=> Completing # {}

\* Nobody holds a copy at first.
LEMMA InitOneCopy == TaskInit => OneCopy
  BY DEF TaskInit, OneCopy, Completing

\* Only the calls about the task take copies and save them.
LEMMA OneCopyStays ==
    ASSUME OneCopy, UNCHANGED <<task, done, op, raced>>, \A c \in Callers : at'[c] = "found" => at[c] = "found"
    PROVE  OneCopy'
  BY DEF OneCopy, Completing

\* A copy is made when no other is held, and the record changes by the save of its holder.
LEMMA NextOneCopy == TaskTypeOK /\ PlaceInv /\ OneCopy /\ [TaskNext]_taskVars => OneCopy'
<1> SUFFICES ASSUME TaskTypeOK, PlaceInv, OneCopy, [TaskNext]_taskVars PROVE OneCopy'
  OBVIOUS
<1> USE TaskEventsAssumption DEF TaskTypeOK, PlaceInv, InPlace, OneCopy, Completing, Over, Goto,
       deliveryVars, history
<1>1. ASSUME NEW c \in Callers, FindTask(c) PROVE OneCopy'
  <2>1. UNCHANGED <<task, done, op>> /\ at' = [at EXCEPT ![c] = IF Refused(c) THEN "refused" ELSE "found"]
        /\ raced' = (raced \/ (~Refused(c) /\ \E d \in Callers : at[d] = "found"))
    BY <1>1 DEF FindTask
  <2>2. CASE Refused(c)
    <3>1. raced' = raced /\ \A d \in Callers : at'[d] = "found" => at[d] = "found"
      BY <2>1, <2>2
    <3> QED
      BY <2>1, <3>1, OneCopyStays
  <2>3. CASE ~Refused(c)
    <3>1. \A d \in Callers : at'[d] = "found" => d = c \/ at[d] = "found"
      BY <2>1
    <3>2. Completing' = Completing
      BY <2>1
    <3>3. raced' = (raced \/ \E d \in Callers : at[d] = "found") /\ task # "completed"
      BY <2>1, <2>3 DEF Refused
    <3> HIDE DEF Completing
    <3> QED
      BY <2>1, <3>1, <3>2, <3>3, ZenonT(40)
  <2> QED
    BY <2>2, <2>3
<1>2. ASSUME NEW c \in Callers, SaveTask(c) PROVE OneCopy'
  <2>1. /\ at[c] = "found" /\ UNCHANGED <<op, raced>> /\ at'[c] # "found"
        /\ \A d \in Callers : at'[d] = "found" => at[d] = "found" /\ d # c
    BY <1>2 DEF SaveTask, Statement
  <2>2. SUFFICES ASSUME ~raced PROVE OneCopy'
    BY <2>1
  <2>3. Completing = {} /\ \A d \in Callers : at'[d] # "found"
    BY <2>1, <2>2
  <2>4. CASE UNCHANGED <<task, done>>
    BY <2>1, <2>2, <2>3, <2>4
  <2>5. CASE /\ task' = IF op[c] = "start" THEN "in_progress" ELSE "completed"
             /\ done' = done \cup {c}
    <3>1. op[c] \in {"start", "complete"} /\ \A d \in done : op[d] # "complete"
      BY <2>1, <2>3
    <3>2. Completing' = IF op[c] = "complete" THEN {c} ELSE {}
      BY <2>1, <2>5, <3>1
    <3> HIDE DEF Completing
    <3> QED
      BY <2>1, <2>2, <2>3, <2>5, <3>1, <3>2
  <2> QED
    BY <1>2, <2>4, <2>5 DEF SaveTask
<1>3. ASSUME NEW c \in Callers, AppendFind(c) PROVE OneCopy'
  <2>1. UNCHANGED <<task, done, op, raced>> /\ \A d \in Callers : at'[d] = "found" => at[d] = "found"
    BY <1>3 DEF AppendFind, Statement, Delivering
  <2> QED
    BY <2>1, OneCopyStays
<1>4. ASSUME NEW c \in Callers, AppendSave(c) PROVE OneCopy'
  <2>1. UNCHANGED <<task, done, op, raced>> /\ \A d \in Callers : at'[d] = "found" => at[d] = "found"
    BY <1>4 DEF AppendSave, Statement, Delivering
  <2> QED
    BY <2>1, OneCopyStays
<1>5. ASSUME NEW c \in Callers, Handle(c) PROVE OneCopy'
  <2>1. UNCHANGED <<task, done, op, raced>> /\ \A d \in Callers : at'[d] = "found" => at[d] = "found"
    BY <1>5 DEF Handle, Statement, Delivering
  <2> QED
    BY <2>1, OneCopyStays
<1>6. ASSUME NEW c \in Callers, Replay(c) PROVE OneCopy'
  <2>1. UNCHANGED <<task, done, op, raced>> /\ \A d \in Callers : at'[d] = "found" => at[d] = "found"
    BY <1>6 DEF Replay, Statement, Delivering
  <2> QED
    BY <2>1, OneCopyStays
<1>7. ASSUME NEW c \in Callers, Give(c) PROVE OneCopy'
  <2>1. UNCHANGED <<task, done, op, raced>> /\ \A d \in Callers : at'[d] = "found" => at[d] = "found"
    BY <1>7 DEF Give, Statement, Delivering
  <2> QED
    BY <2>1, OneCopyStays
<1>8. CASE ProcessDies
  <2>1. UNCHANGED <<task, done, op, raced>> /\ \A d \in Callers : at'[d] = "found" => at[d] = "found"
    BY <1>8 DEF ProcessDies, Statement, Delivering
  <2> QED
    BY <2>1, OneCopyStays
<1>9. CASE UNCHANGED taskVars
  BY <1>9 DEF taskVars
<1> QED
  BY <1>1, <1>2, <1>3, <1>4, <1>5, <1>6, <1>7, <1>8, <1>9 DEF TaskNext

\* An event is stored under its own id.
OwnInv == \A i \in Ids \cup Callers : store[i] # None => Id(store[i]) = i

\* The store is empty at first.
LEMMA InitOwnInv == TaskInit => OwnInv
  BY DEF TaskInit, OwnInv

\* An append saves what its call publishes.
LEMMA NextOwnInv == TaskTypeOK /\ OwnInv /\ [TaskNext]_taskVars => OwnInv'
<1> SUFFICES ASSUME TaskTypeOK, OwnInv, [TaskNext]_taskVars PROVE OwnInv'
  OBVIOUS
<1>1. ASSUME NEW c \in Callers, AppendSave(c) PROVE OwnInv'
  <2>1. UNCHANGED op /\ (UNCHANGED store \/ store' = [store EXCEPT ![Id(c)] = c])
    BY <1>1 DEF AppendSave
  <2>2. \A d \in Callers : Id(d)' = Id(d)
    BY <2>1 DEF Id
  <2>3. ASSUME NEW i \in Ids \cup Callers, store'[i] # None PROVE Id(store'[i]) = i
    BY <2>1, <2>3 DEF TaskTypeOK, OwnInv
  <2>4. \A i \in Ids \cup Callers : store'[i] # None => store'[i] \in Callers
    BY <2>1 DEF TaskTypeOK
  <2> QED
    BY <2>2, <2>3, <2>4 DEF OwnInv
<1>2. CASE UNCHANGED <<store, op>>
  <2>1. \A d : Id(d)' = Id(d)
    BY <1>2 DEF Id
  <2> QED
    BY <1>2, <2>1 DEF OwnInv
<1> QED
  BY <1>1, <1>2 DEF TaskNext, taskVars, FindTask, SaveTask, AppendFind, Handle, Replay, Give, ProcessDies

\* A call that delivers gives handlers what is stored under the id it publishes; those it has
\* not to call any more have been given it.
Tells(c) ==
    /\ at[c] \in {"deliver", "ok"} /\ op[c] # "replay" => event[c] \in Callers /\ Id(event[c]) = Id(c)
    /\ at[c] = "deliver" => \A h \in 1..Handlers :
            event[c] \in handled[h] \/ \E i \in 1..Len(todo[c]) : todo[c][i] = h
    /\ at[c] = "ok" /\ op[c] # "replay" => \A h \in 1..Handlers : event[c] \in handled[h]
ToldInv == \A c \in Callers : Tells(c)

\* Nobody delivers at first.
LEMMA InitToldInv == TaskInit => ToldInv
  BY DEF TaskInit, ToldInv, Tells

\* What follows for a call from its delivery beginning or going on.
LEMMA BeginsToTell ==
    ASSUME TaskTypeOK, NEW c \in Callers, NEW e \in Callers, Id(e) = Id(c), Goto(c, Delivering), Deliver(c, e),
           UNCHANGED <<op, handled>>
    PROVE  Tells(c)'
<1>1. /\ event'[c] = e /\ todo'[c] = [h \in 1..Handlers |-> h] /\ at'[c] = Delivering
  BY DEF TaskTypeOK, Goto, Deliver
<1>2. Id(c)' = Id(c) /\ Id(e)' = Id(e)
  BY DEF Id
<1>3. Len([h \in 1..Handlers |-> h]) = Handlers
  BY TaskEventsAssumption
<1>4. Handlers = 0 => 1..Handlers = {}
  OBVIOUS
<1>5. \A h \in 1..Handlers : \E i \in 1..Len(todo'[c]) : todo'[c][i] = h
  BY <1>1, <1>3
<1>6. at'[c] = "ok" => Handlers = 0
  BY <1>1 DEF Delivering
<1> QED
  BY <1>1, <1>2, <1>4, <1>5, <1>6 DEF Tells

\* A call other than the one that steps tells what it told.
LEMMA GoesOnTelling ==
    ASSUME TaskTypeOK, ToldInv, NEW d \in Callers,
           UNCHANGED <<op, at[d], event[d], todo[d]>> \/ (UNCHANGED op /\ at'[d] \in {"start", "failed"}),
           \A h \in 0..Handlers : handled[h] \subseteq handled'[h]
    PROVE  Tells(d)'
<1>1. UNCHANGED op
  OBVIOUS
<1>2. \A e : Id(e)' = Id(e)
  BY <1>1 DEF Id
<1>3. 1..Handlers \subseteq 0..Handlers
  BY TaskEventsAssumption
<1> QED
  BY <1>1, <1>2, <1>3 DEF ToldInv, Tells

\* A delivery begins with all handlers and goes on to the next when one has returned.
LEMMA NextToldInv == TaskTypeOK /\ PlaceInv /\ OwnInv /\ ToldInv /\ [TaskNext]_taskVars => ToldInv'
<1> SUFFICES ASSUME TaskTypeOK, PlaceInv, OwnInv, ToldInv, [TaskNext]_taskVars PROVE ToldInv'
  OBVIOUS
<1> USE TaskEventsAssumption
<1>1. ASSUME NEW c \in Callers, FindTask(c) PROVE ToldInv'
  <2>1. ASSUME NEW d \in Callers \ {c} PROVE Tells(d)'
    BY <1>1, GoesOnTelling DEF FindTask, Goto, deliveryVars, Statement, Deliver, TaskTypeOK
  <2>2. UNCHANGED op /\ at'[c] \notin {"deliver"} /\ (at'[c] = "ok" => op[c] = "replay")
    BY <1>1 DEF FindTask, Goto, deliveryVars, Statement, Deliver, TaskTypeOK, InPlace, PlaceInv, Over
  <2> QED
    BY <2>1, <2>2 DEF ToldInv, Tells
<1>2. ASSUME NEW c \in Callers, SaveTask(c) PROVE ToldInv'
  <2>1. ASSUME NEW d \in Callers \ {c} PROVE Tells(d)'
    BY <1>2, GoesOnTelling DEF SaveTask, Goto, deliveryVars, Statement, Deliver, TaskTypeOK
  <2>2. UNCHANGED op /\ at'[c] \notin {"deliver"} /\ (at'[c] = "ok" => op[c] = "replay")
    BY <1>2 DEF SaveTask, Goto, deliveryVars, Statement, Deliver, TaskTypeOK, InPlace, PlaceInv, Over
  <2> QED
    BY <2>1, <2>2 DEF ToldInv, Tells
<1>3. ASSUME NEW c \in Callers, AppendFind(c) PROVE ToldInv'
  <2>1. ASSUME NEW d \in Callers \ {c} PROVE Tells(d)'
    BY <1>3, GoesOnTelling DEF AppendFind, Goto, deliveryVars, Statement, Deliver, TaskTypeOK
  <2>2. CASE Exists(c)
    <3>1. store[Id(c)] \in Callers /\ Id(store[Id(c)]) = Id(c)
      BY <2>2, IdType DEF Exists, TaskTypeOK, OwnInv
    <3> QED
      BY <1>3, <2>1, <2>2, <3>1, BeginsToTell DEF AppendFind, ToldInv
  <2>3. CASE ~Exists(c)
    <3>1. UNCHANGED op /\ at'[c] = "append"
      BY <1>3, <2>3 DEF AppendFind, Goto, TaskTypeOK
    <3> QED
      BY <2>1, <3>1 DEF ToldInv, Tells
  <2> QED
    BY <2>2, <2>3
<1>4. ASSUME NEW c \in Callers, AppendSave(c) PROVE ToldInv'
  <2>1. PICK o \in Outcomes :
            /\ Statement(c, o, Delivering)
            /\ IF o = "ok" THEN Deliver(c, c) ELSE UNCHANGED <<event, todo>>
    BY <1>4 DEF AppendSave
  <2>2. UNCHANGED <<op, handled>>
    BY <1>4 DEF AppendSave
  <2>3. ASSUME NEW d \in Callers \ {c} PROVE Tells(d)'
    BY <2>1, <2>2, GoesOnTelling DEF Goto, Statement, Deliver, TaskTypeOK
  <2>4. CASE o = "ok"
    BY <2>1, <2>2, <2>3, <2>4, BeginsToTell DEF Statement, ToldInv
  <2>5. CASE o # "ok"
    <3>1. at'[c] = "failed"
      BY <2>1, <2>5 DEF Statement, Goto, TaskTypeOK
    <3> QED
      BY <2>3, <3>1 DEF ToldInv, Tells
  <2> QED
    BY <2>4, <2>5
<1>5. ASSUME NEW c \in Callers, Handle(c) PROVE ToldInv'
  <2>1. /\ at[c] = "deliver" /\ todo[c] # <<>> /\ todo[c] \in Seq(1..Handlers) /\ event[c] \in Callers
        /\ UNCHANGED <<op, event>> /\ op[c] # "replay"
        /\ \A h \in 0..Handlers : handled[h] \subseteq handled'[h]
    <3>1. at[c] = "deliver" /\ todo[c] # <<>> /\ UNCHANGED <<op, event>>
      BY <1>5 DEF Handle
    <3>2. todo[c] \in Seq(1..Handlers) /\ event[c] \in Callers /\ op[c] # "replay"
      BY <3>1 DEF TaskTypeOK, PlaceInv, InPlace
    <3>3. handled' = handled \/ handled' = [handled EXCEPT ![Head(todo[c])] = @ \cup {event[c]}]
      BY <1>5 DEF Handle
    <3>4. ASSUME NEW h \in 0..Handlers PROVE handled[h] \subseteq handled'[h]
      <4>1. CASE handled' = [handled EXCEPT ![Head(todo[c])] = @ \cup {event[c]}]
        BY <4>1, TaskTypeOK DEF TaskTypeOK
      <4> QED
        BY <3>3, <4>1
    <3> QED
      BY <3>1, <3>2, <3>4
  <2>2. ASSUME NEW d \in Callers \ {c} PROVE Tells(d)'
    BY <1>5, <2>1, GoesOnTelling DEF Handle, Goto, TaskTypeOK
  <2>3. \A e : Id(e)' = Id(e)
    BY <2>1 DEF Id
  <2>4. CASE /\ handled' = [handled EXCEPT ![Head(todo[c])] = @ \cup {event[c]}]
             /\ todo' = [todo EXCEPT ![c] = Tail(@)]
             /\ Goto(c, IF Tail(todo[c]) = <<>> THEN "ok" ELSE "deliver")
    <3>1. Head(todo[c]) = todo[c][1] /\ todo[c][1] \in 1..Handlers /\ 1..Handlers \subseteq 0..Handlers
      BY <2>1
    <3>2. /\ Len(Tail(todo[c])) = Len(todo[c]) - 1 /\ Len(todo[c]) \in Nat
          /\ \A i \in 1..Len(todo[c]) : i # 1 => i - 1 \in 1..Len(Tail(todo[c])) /\ Tail(todo[c])[i - 1] = todo[c][i]
      BY <2>1
    <3>3. ASSUME NEW h \in 1..Handlers
          PROVE  event[c] \in handled'[h] \/ \E i \in 1..Len(Tail(todo[c])) : Tail(todo[c])[i] = h
      <4>1. CASE event[c] \in handled[h]
        BY <2>1, <3>1, <4>1
      <4>2. CASE h = todo[c][1]
        BY <2>4, <3>1, <4>2 DEF TaskTypeOK
      <4>3. CASE \E i \in 1..Len(todo[c]) : i # 1 /\ todo[c][i] = h
        BY <3>2, <4>3
      <4> QED
        BY <2>1, <4>1, <4>2, <4>3 DEF ToldInv, Tells
    <3>4. Tail(todo[c]) = <<>> => 1..Len(Tail(todo[c])) = {}
      BY <3>2
    <3>5. /\ todo'[c] = Tail(todo[c]) /\ at'[c] \in {"ok", "deliver"}
          /\ at'[c] = "ok" => Tail(todo[c]) = <<>>
      BY <2>4 DEF TaskTypeOK, Goto
    <3>6. Id(event[c]) = Id(c)
      BY <2>1 DEF ToldInv, Tells
    <3>7. Tells(c)'
      BY <2>1, <2>3, <3>3, <3>4, <3>5, <3>6 DEF Tells
    <3> QED
      BY <2>2, <3>7 DEF ToldInv
  <2>5. CASE Goto(c, "failed")
    <3>1. at'[c] = "failed"
      BY <2>5 DEF Goto, TaskTypeOK
    <3> QED
      BY <2>2, <3>1 DEF ToldInv, Tells
  <2> QED
    BY <1>5, <2>4, <2>5 DEF Handle
<1>6. ASSUME NEW c \in Callers, Replay(c) PROVE ToldInv'
  <2>1. ASSUME NEW d \in Callers \ {c} PROVE Tells(d)'
    BY <1>6, GoesOnTelling DEF Replay, Goto, deliveryVars, Statement, Deliver, TaskTypeOK
  <2>2. UNCHANGED op /\ at'[c] \notin {"deliver"} /\ (at'[c] = "ok" => op[c] = "replay")
    BY <1>6 DEF Replay, Goto, deliveryVars, Statement, Deliver, TaskTypeOK, InPlace, PlaceInv, Over
  <2> QED
    BY <2>1, <2>2 DEF ToldInv, Tells
<1>7. ASSUME NEW c \in Callers, Give(c) PROVE ToldInv'
  <2>1. \A h \in 0..Handlers : handled[h] \subseteq handled'[h]
    BY <1>7 DEF Give, TaskTypeOK
  <2>2. ASSUME NEW d \in Callers \ {c} PROVE Tells(d)'
    BY <1>7, <2>1, GoesOnTelling DEF Give, Goto, TaskTypeOK
  <2>3. UNCHANGED op /\ at'[c] # "deliver" /\ op[c] = "replay"
    BY <1>7 DEF Give, Goto, TaskTypeOK, InPlace, PlaceInv
  <2> QED
    BY <2>2, <2>3 DEF ToldInv, Tells
<1>8. CASE ProcessDies
  <2>1. ASSUME NEW d \in Callers PROVE Tells(d)'
    BY <1>8, GoesOnTelling DEF ProcessDies, deliveryVars, TaskTypeOK
  <2> QED
    BY <2>1 DEF ToldInv
<1>9. CASE UNCHANGED taskVars
  <2>1. ASSUME NEW d \in Callers PROVE Tells(d)'
    BY <1>9, GoesOnTelling DEF taskVars, deliveryVars
  <2> QED
    BY <2>1 DEF ToldInv
<1> QED
  BY <1>1, <1>2, <1>3, <1>4, <1>5, <1>6, <1>7, <1>8, <1>9 DEF TaskNext

\* The id of a call is no publisher's.
LEMMA OwnId == ASSUME NEW c \in Callers, NEW e \in Callers, Id(e) = c PROVE e = c
<1>1. IdOf[e] \in Ids /\ IdOf[e] # c
  BY TaskEventsAssumption
<1> QED
  BY <1>1 DEF Id

\* What is told of a task's completion is told to every handler, and it is completed once and
\* for good, unless two calls held copies of the task at a time.
THEOREM TaskCompletedOnce == TaskSpec => []CompletedOnce
<1> DEFINE TaskInv == TaskTypeOK /\ FiniteStore /\ PlaceInv /\ OneCopy /\ OwnInv /\ ToldInv
<1>1. TaskInit => TaskInv
  BY InitTaskTypes, InitFiniteStore, InitPlaceInv, InitOneCopy, InitOwnInv, InitToldInv
<1>2. TaskInv /\ [TaskNext]_taskVars => TaskInv'
  BY NextTaskTypes, NextFiniteStore, NextPlaceInv, NextOneCopy, NextOwnInv, NextToldInv
<1>3. TaskInv => CompletedOnce
  <2> SUFFICES ASSUME TaskInv, ~raced PROVE CompletedOnce
    BY DEF CompletedOnce
  <2>1. Cardinality(Completing) <= 1
    <3>1. CASE Completing = {}
      BY <3>1, FS_EmptySet
    <3>2. CASE Completing # {}
      <4>1. PICK c \in Completing : Completing = {c}
        <5>1. \A e, d \in Completing : e = d
          BY DEF OneCopy
        <5>2. PICK e : e \in Completing
          BY <3>2
        <5>3. Completing = {e}
          BY <5>1, <5>2
        <5> QED
          BY <5>2, <5>3
      <4>2. Cardinality({c}) = 1
        BY FS_Singleton
      <4> QED
        BY <4>1, <4>2
    <3> QED
      BY <3>1, <3>2
  <2>2. ASSUME NEW c \in Completing, at[c] \in Over, failures = 0 PROVE \A h \in 1..Handlers : c \in handled[h]
    <3>1. c \in Callers /\ op[c] = "complete" /\ InPlace(c)
      BY <2>2 DEF Completing, TaskTypeOK, PlaceInv
    <3>4. at[c] = "ok"
      BY <2>2, <3>1 DEF Completing, TaskTypeOK, InPlace, Over
    <3>2. Id(c) = c /\ event[c] \in Callers /\ Id(event[c]) = c
      BY <3>1, <3>4 DEF Id, ToldInv, Tells
    <3>3. event[c] = c
      <4>1. \A e \in Callers : Id(e) = c => e = c
        BY <3>1, OwnId
      <4> QED
        BY <3>2, <4>1
    <3> QED
      BY <3>1, <3>3, <3>4 DEF ToldInv, Tells
  <2> QED
    BY <2>1, <2>2 DEF CompletedOnce, OneCopy
<1> QED
  BY <1>1, <1>2, <1>3, PTL DEF TaskSpec

-----------------------------------------------------------------------------
(* Tasks and events: what is handled is stored *)

\* The event is what the store answers for its id, unless two appends of the id ran side by side.
Sound(e) == Id(e) \in racedIds \/ store[Id(e)] = e

\* As long as two appends of an id did not run side by side, nothing is stored under it when
\* one saves.
AppendInv ==
    /\ \A c, d \in Callers : at[c] = "append" /\ at[d] = "append" /\ Id(c) = Id(d) => c = d \/ Id(c) \in racedIds
    /\ \A c \in Callers : at[c] = "append" => store[Id(c)] = None \/ Id(c) \in racedIds

\* Nobody appends at first.
LEMMA InitAppendInv == TaskInit => AppendInv
  BY DEF TaskInit, AppendInv

\* A step that neither begins nor ends an append leaves the ids of the appends as they are.
LEMMA AppendsStay ==
    ASSUME AppendInv, UNCHANGED <<op, store>>, racedIds \subseteq racedIds',
           \A c \in Callers : at'[c] = "append" => at[c] = "append"
    PROVE  AppendInv'
<1>1. \A c \in Callers : Id(c)' = Id(c)
  BY DEF Id
<1> QED
  BY <1>1 DEF AppendInv

\* An append begins when nothing is stored, and it ends by saving.
LEMMA NextAppendInv == TaskTypeOK /\ AppendInv /\ [TaskNext]_taskVars => AppendInv'
<1> SUFFICES ASSUME TaskTypeOK, AppendInv, [TaskNext]_taskVars PROVE AppendInv'
  OBVIOUS
<1>1. ASSUME NEW c \in Callers, AppendFind(c) PROVE AppendInv'
  <2>1. UNCHANGED <<store, op>> /\ \A d \in Callers : Id(d)' = Id(d)
    BY <1>1 DEF AppendFind, Id
  <2>2. CASE Exists(c)
    <3>1. UNCHANGED racedIds /\ \A d \in Callers : at'[d] = "append" => at[d] = "append"
      BY <1>1, <2>2 DEF AppendFind, Goto, Delivering, TaskTypeOK
    <3> QED
      BY <2>1, <3>1, AppendsStay
  <2>3. CASE ~Exists(c)
    <3>1. racedIds' = racedIds \cup {Id(d) : d \in {d \in Callers : at[d] = "append" /\ Id(d) = Id(c)}}
      BY <1>1, <2>3 DEF AppendFind
    <3>2. /\ racedIds \subseteq racedIds'
          /\ \A d \in Callers : at[d] = "append" /\ Id(d) = Id(c) => Id(c) \in racedIds'
      BY <3>1
    <3>3. store[Id(c)] = None /\ \A d \in Callers : at'[d] = "append" => d = c \/ at[d] = "append"
      BY <1>1, <2>3 DEF AppendFind, Exists, Goto, TaskTypeOK
    <3> QED
      BY <2>1, <3>2, <3>3 DEF AppendInv
  <2> QED
    BY <2>2, <2>3
<1>2. ASSUME NEW c \in Callers, AppendSave(c) PROVE AppendInv'
  <2>1. /\ at[c] = "append" /\ UNCHANGED <<op, racedIds>>
        /\ store' = [store EXCEPT ![Id(c)] = c] \/ UNCHANGED store
    BY <1>2 DEF AppendSave, history
  <2>2. \A d \in Callers : at'[d] = "append" => at[d] = "append" /\ d # c
    BY <1>2 DEF AppendSave, Statement, Goto, Delivering, TaskTypeOK
  <2>3. \A d \in Callers : Id(d)' = Id(d)
    BY <2>1 DEF Id
  <2>4. ASSUME NEW d \in Callers, at'[d] = "append" PROVE store'[Id(d)] = None \/ Id(d) \in racedIds
    BY <2>1, <2>2, <2>4, IdType DEF AppendInv, TaskTypeOK
  <2> QED
    BY <2>1, <2>2, <2>3, <2>4 DEF AppendInv
<1>3. CASE UNCHANGED <<store, op, racedIds>> /\ \A d \in Callers : at'[d] = "append" => at[d] = "append"
  BY <1>3, AppendsStay
<1>4. ASSUME NEW c \in Callers, FindTask(c) \/ SaveTask(c) \/ Handle(c) \/ Replay(c) \/ Give(c)
      PROVE  UNCHANGED <<store, op, racedIds>> /\ \A d \in Callers : at'[d] = "append" => at[d] = "append"
  <2> USE DEF TaskTypeOK, Goto, Statement, history
  <2>1. CASE FindTask(c)
    BY <2>1 DEF FindTask
  <2>2. CASE SaveTask(c)
    BY <2>2 DEF SaveTask
  <2>3. CASE Handle(c)
    BY <2>3 DEF Handle
  <2>4. CASE Replay(c)
    BY <2>4 DEF Replay
  <2>5. CASE Give(c)
    BY <2>5 DEF Give
  <2> QED
    BY <1>4, <2>1, <2>2, <2>3, <2>4, <2>5
<1>5. CASE ProcessDies \/ UNCHANGED taskVars
  BY <1>3, <1>5 DEF ProcessDies, history, taskVars
<1> QED
  BY <1>1, <1>2, <1>3, <1>4, <1>5 DEF TaskNext

\* What is given, is to be given or has been given is sound.
Gives(c) ==
    /\ at[c] = "deliver" => Sound(event[c])
    /\ at[c] = "replay" => \A i \in 1..Len(todo[c]) : Sound(todo[c][i])
SoundInv ==
    /\ \A c \in Callers : Gives(c)
    /\ \A h \in 0..Handlers : \A e \in handled[h] : Sound(e)

\* Nothing has been given at first.
LEMMA InitSoundInv == TaskInit => SoundInv
  BY DEF TaskInit, SoundInv, Gives

\* An event that is stored is sound.
LEMMA StoredIsSound == ASSUME TaskTypeOK, OwnInv, NEW e \in Stored PROVE Sound(e) /\ e \in Callers
<1>1. PICK i \in Ids \cup Callers : store[i] = e /\ e # None
  BY DEF Stored, TaskTypeOK
<1> QED
  BY <1>1 DEF Sound, OwnInv, TaskTypeOK

\* What is sound stays so, because a save that would overwrite it runs beside another.
LEMMA SoundStays ==
    ASSUME TaskTypeOK, AppendInv, [TaskNext]_taskVars, NEW e \in Callers, Sound(e)
    PROVE  Id(e) \in racedIds' \/ store'[Id(e)] = e
<1>1. racedIds \subseteq racedIds'
  BY DEF TaskNext, taskVars, FindTask, SaveTask, AppendFind, AppendSave, Handle, Replay, Give,
     ProcessDies, history
<1>2. CASE UNCHANGED store
  BY <1>1, <1>2 DEF Sound
<1>3. ASSUME NEW c \in Callers, AppendSave(c) PROVE Id(e) \in racedIds' \/ store'[Id(e)] = e
  <2>1. /\ at[c] = "append"
        /\ store' = [store EXCEPT ![Id(c)] = c] \/ UNCHANGED store
    BY <1>3 DEF AppendSave
  <2>2. store[Id(c)] = None \/ Id(c) \in racedIds
    BY <2>1 DEF AppendInv
  <2>3. e # None
    BY TaskEventsAssumption
  <2>4. CASE Id(e) = Id(c)
    BY <1>1, <2>2, <2>3, <2>4 DEF Sound
  <2>5. CASE Id(e) # Id(c)
    <3>1. Id(e) \in DOMAIN store
      BY IdType DEF TaskTypeOK
    <3>2. store'[Id(e)] = store[Id(e)]
      BY <2>1, <2>5, <3>1
    <3> QED
      BY <1>1, <3>2 DEF Sound
  <2> QED
    BY <2>4, <2>5
<1> QED
  BY <1>2, <1>3 DEF TaskNext, taskVars, FindTask, SaveTask, AppendFind, Handle, Replay, Give, ProcessDies

\* What calls that do not step give stays sound.
LEMMA GivesStay ==
    ASSUME TaskTypeOK, AppendInv, SoundInv, [TaskNext]_taskVars, NEW d \in Callers,
           UNCHANGED <<op, event[d], todo[d]>>,
           at'[d] = "deliver" => at[d] = "deliver", at'[d] = "replay" => at[d] = "replay"
    PROVE  Gives(d)'
<1>1. Gives(d)
  BY DEF SoundInv
<1>2. ASSUME at'[d] = "deliver" PROVE Id(event[d]) \in racedIds' \/ store'[Id(event[d])] = event[d]
  <2>1. event[d] \in Callers /\ Sound(event[d])
    BY <1>1, <1>2 DEF Gives, TaskTypeOK
  <2> QED
    BY <2>1, SoundStays
<1>3. ASSUME at'[d] = "replay", NEW i \in 1..Len(todo[d])
      PROVE  Id(todo[d][i]) \in racedIds' \/ store'[Id(todo[d][i])] = todo[d][i]
  <2>1. todo[d][i] \in Callers /\ Sound(todo[d][i])
    BY <1>1, <1>3 DEF Gives, TaskTypeOK
  <2> QED
    BY <2>1, SoundStays
<1> QED
  BY <1>2, <1>3 DEF Gives, Sound, Id

\* So does what has been given.
LEMMA GivenStays ==
    ASSUME TaskTypeOK, AppendInv, SoundInv, [TaskNext]_taskVars, NEW h \in 0..Handlers, NEW e \in handled[h]
    PROVE  Id(e) \in racedIds' \/ store'[Id(e)] = e
<1>1. e \in Callers /\ Sound(e)
  BY DEF SoundInv, TaskTypeOK
<1> QED
  BY <1>1, SoundStays

\* Events come from the store or have just been stored.
LEMMA NextSoundInv == TaskTypeOK /\ FiniteStore /\ OwnInv /\ AppendInv /\ SoundInv /\ [TaskNext]_taskVars => SoundInv'
<1> SUFFICES ASSUME TaskTypeOK, FiniteStore, OwnInv, AppendInv, SoundInv, [TaskNext]_taskVars PROVE SoundInv'
  OBVIOUS
<1>1. ASSUME UNCHANGED <<op, handled>>, \A d \in Callers : Gives(d)' PROVE SoundInv'
  <2>1. \A h \in 0..Handlers : \A e \in handled[h] : Id(e) \in racedIds' \/ store'[Id(e)] = e
    BY GivenStays
  <2> QED
    BY <1>1, <2>1 DEF SoundInv, Sound, Id
<1>2. ASSUME NEW c \in Callers, FindTask(c) PROVE SoundInv'
  <2>1. UNCHANGED <<op, handled>>
    BY <1>2 DEF FindTask, deliveryVars
  <2>2. ASSUME NEW d \in Callers PROVE Gives(d)'
    <3>1. /\ UNCHANGED <<event[d], todo[d]>>
          /\ at'[d] = "deliver" => at[d] = "deliver"
          /\ at'[d] = "replay" => at[d] = "replay"
      BY <1>2 DEF FindTask, deliveryVars, Goto, Statement, TaskTypeOK
    <3> QED
      BY <2>1, <3>1, GivesStay
  <2> QED
    BY <1>1, <2>1, <2>2
<1>3. ASSUME NEW c \in Callers, SaveTask(c) PROVE SoundInv'
  <2>1. UNCHANGED <<op, handled>>
    BY <1>3 DEF SaveTask, deliveryVars
  <2>2. ASSUME NEW d \in Callers PROVE Gives(d)'
    <3>1. /\ UNCHANGED <<event[d], todo[d]>>
          /\ at'[d] = "deliver" => at[d] = "deliver"
          /\ at'[d] = "replay" => at[d] = "replay"
      BY <1>3 DEF SaveTask, deliveryVars, Goto, Statement, TaskTypeOK
    <3> QED
      BY <2>1, <3>1, GivesStay
  <2> QED
    BY <1>1, <2>1, <2>2
<1>4. ASSUME NEW c \in Callers, AppendFind(c) PROVE SoundInv'
  <2>1. UNCHANGED <<op, store, handled>>
    BY <1>4 DEF AppendFind
  <2>2. ASSUME NEW d \in Callers \ {c} PROVE Gives(d)'
    <3>1. UNCHANGED <<op, event[d], todo[d], at[d]>>
      BY <1>4 DEF AppendFind, Deliver, Goto, Statement, TaskTypeOK
    <3> QED
      BY <3>1, GivesStay
  <2>3. CASE Exists(c)
    <3>1. store[Id(c)] \in Stored
      BY <2>3, IdType DEF Exists, Stored, TaskTypeOK
    <3>2. Sound(store[Id(c)])
      BY <3>1, StoredIsSound
    <3>3. event'[c] = store[Id(c)] /\ at'[c] # "replay" /\ racedIds' = racedIds
      BY <1>4, <2>3 DEF AppendFind, Deliver, Goto, Delivering, TaskTypeOK
    <3>4. Gives(c)'
      BY <2>1, <3>2, <3>3 DEF Gives, Sound, Id
    <3> QED
      BY <1>1, <2>1, <2>2, <3>4
  <2>4. CASE ~Exists(c)
    <3>1. at'[c] = "append"
      BY <1>4, <2>4 DEF AppendFind, Goto, TaskTypeOK
    <3> QED
      BY <1>1, <2>1, <2>2, <3>1 DEF Gives
  <2> QED
    BY <2>3, <2>4
<1>5. ASSUME NEW c \in Callers, AppendSave(c) PROVE SoundInv'
  <2>1. UNCHANGED <<op, racedIds, handled>>
    BY <1>5 DEF AppendSave, history
  <2>2. ASSUME NEW d \in Callers \ {c} PROVE Gives(d)'
    <3>1. UNCHANGED <<op, event[d], todo[d], at[d]>>
      BY <1>5 DEF AppendSave, Deliver, Goto, Statement, TaskTypeOK
    <3> QED
      BY <3>1, GivesStay
  <2>3. PICK o \in Outcomes :
            /\ Statement(c, o, Delivering)
            /\ store' = IF Applied(o) THEN [store EXCEPT ![Id(c)] = c] ELSE store
            /\ IF o = "ok" THEN Deliver(c, c) ELSE UNCHANGED <<event, todo>>
    BY <1>5 DEF AppendSave
  <2>4. at'[c] = "deliver" => o = "ok"
    BY <2>3 DEF Statement, Goto, Delivering, TaskTypeOK
  <2>5. ASSUME o = "ok" PROVE event'[c] = c /\ store'[Id(c)] = c
    BY <2>3, <2>5, IdType DEF Deliver, Applied, TaskTypeOK
  <2>6. at'[c] # "replay"
    BY <2>3 DEF Statement, Goto, Delivering, TaskTypeOK
  <2>7. Gives(c)'
    BY <2>1, <2>4, <2>5, <2>6 DEF Gives, Sound, Id
  <2> QED
    BY <1>1, <2>1, <2>2, <2>7
<1>6. ASSUME NEW c \in Callers, Handle(c) PROVE SoundInv'
  <2>1. ASSUME NEW d \in Callers \ {c} PROVE Gives(d)'
    <3>1. UNCHANGED <<op, event[d], todo[d], at[d]>>
      BY <1>6 DEF Handle, Deliver, Goto, Statement, TaskTypeOK
    <3> QED
      BY <3>1, GivesStay
  <2>2. at[c] = "deliver" /\ UNCHANGED <<op, event>> /\ todo[c] \in Seq(1..Handlers) /\ event[c] \in Callers
        /\ todo[c] # <<>>
    BY <1>6 DEF Handle, TaskTypeOK
  <2>3. Id(event[c]) \in racedIds' \/ store'[Id(event[c])] = event[c]
    BY <2>2, SoundStays DEF SoundInv, Gives
  <2>4. at'[c] # "replay"
    BY <1>6 DEF Handle, Goto, TaskTypeOK
  <2>5. Gives(c)'
    BY <2>2, <2>3, <2>4 DEF Gives, Sound, Id
  <2>6. handled' = handled \/ handled' = [handled EXCEPT ![Head(todo[c])] = @ \cup {event[c]}]
    BY <1>6 DEF Handle
  <2>7. ASSUME NEW h \in 0..Handlers, NEW e \in handled'[h] PROVE e \in handled[h] \/ e = event[c]
    <3>1. handled \in [0..Handlers -> SUBSET Callers]
      BY DEF TaskTypeOK
    <3>2. handled'[h] \in {handled[h], handled[h] \cup {event[c]}}
      BY <2>6, <3>1
    <3> QED
      BY <2>7, <3>2
  <2>8. \A h \in 0..Handlers : \A e \in handled'[h] : Id(e) \in racedIds' \/ store'[Id(e)] = e
    BY <2>3, <2>7, GivenStays
  <2> QED
    BY <2>1, <2>2, <2>5, <2>8 DEF SoundInv, Sound, Id
<1>7. ASSUME NEW c \in Callers, Replay(c) PROVE SoundInv'
  <2>1. ASSUME NEW d \in Callers \ {c} PROVE Gives(d)'
    <3>1. UNCHANGED <<op, event[d], todo[d], at[d]>>
      BY <1>7 DEF Replay, Deliver, Goto, Statement, TaskTypeOK
    <3> QED
      BY <3>1, GivesStay
  <2>2. UNCHANGED <<op, store, racedIds, handled>> /\ at'[c] = "replay"
    BY <1>7 DEF Replay, Goto, TaskTypeOK
  <2>3. PICK s \in [1..Cardinality(Stored) -> Stored] : todo' = [todo EXCEPT ![c] = s]
    BY <1>7 DEF Replay
  <2>4. todo'[c] = s /\ Cardinality(Stored) \in Nat
    BY <2>3, FS_CardinalityType DEF FiniteStore, TaskTypeOK
  <2>5. ASSUME NEW i \in 1..Len(s) PROVE Sound(s[i])
    BY <2>3, <2>4, <2>5, StoredIsSound
  <2>6. Gives(c)'
    BY <2>2, <2>4, <2>5 DEF Gives, Sound, Id
  <2> QED
    BY <1>1, <2>1, <2>2, <2>6
<1>8. ASSUME NEW c \in Callers, Give(c) PROVE SoundInv'
  <2>1. ASSUME NEW d \in Callers \ {c} PROVE Gives(d)'
    <3>1. UNCHANGED <<op, event[d], todo[d], at[d]>>
      BY <1>8 DEF Give, Deliver, Goto, Statement, TaskTypeOK
    <3> QED
      BY <3>1, GivesStay
  <2>2. at[c] = "replay" /\ UNCHANGED <<op, event>> /\ todo[c] \in Seq(Callers)
    BY <1>8 DEF Give, TaskTypeOK
  <2>3. ASSUME NEW i \in 1..Len(todo[c])
        PROVE  todo[c][i] \in Callers /\ (Id(todo[c][i]) \in racedIds' \/ store'[Id(todo[c][i])] = todo[c][i])
    <3>1. todo[c][i] \in Callers /\ Sound(todo[c][i])
      BY <2>2 DEF SoundInv, Gives
    <3> QED
      BY <3>1, SoundStays
  <2>4. CASE UNCHANGED <<handled, todo>>
    <3>1. Gives(c)'
      <4>1. at'[c] # "deliver"
        BY <1>8 DEF Give, Goto, TaskTypeOK
      <4>2. todo'[c] = todo[c] /\ op' = op
        BY <2>2, <2>4
      <4>3. \A i \in 1..Len(todo[c]) : Id(todo[c][i]) \in racedIds' \/ store'[Id(todo[c][i])] = todo[c][i]
        BY <2>3
      <4> QED
        BY <4>1, <4>2, <4>3 DEF Gives, Sound, Id
    <3> QED
      BY <1>1, <2>1, <2>2, <2>4, <3>1
  <2>5. CASE /\ todo[c] # <<>> /\ UNCHANGED at
             /\ handled' = [handled EXCEPT ![0] = @ \cup {Head(todo[c])}]
             /\ todo' = [todo EXCEPT ![c] = Tail(@)]
    <3>1. /\ Head(todo[c]) = todo[c][1] /\ 1 \in 1..Len(todo[c])
          /\ \A i \in 1..Len(Tail(todo[c])) : i + 1 \in 1..Len(todo[c]) /\ Tail(todo[c])[i] = todo[c][i + 1]
      BY <2>2, <2>5
    <3>2. ASSUME NEW h \in 0..Handlers, NEW e \in handled'[h] PROVE e \in handled[h] \/ e = Head(todo[c])
      BY <2>5 DEF TaskTypeOK
    <3>3. \A h \in 0..Handlers : \A e \in handled'[h] : Id(e) \in racedIds' \/ store'[Id(e)] = e
      BY <2>3, <3>1, <3>2, GivenStays
    <3>4. todo'[c] = Tail(todo[c])
      BY <2>5 DEF TaskTypeOK
    <3>5. Gives(c)'
      BY <2>2, <2>3, <2>5, <3>1, <3>4 DEF Gives, Sound, Id
    <3> QED
      BY <2>1, <2>2, <3>3, <3>5 DEF SoundInv, Sound, Id
  <2> QED
    BY <1>8, <2>4, <2>5 DEF Give
<1>9. CASE ProcessDies
  <2>1. UNCHANGED <<op, handled>>
    BY <1>9 DEF ProcessDies, deliveryVars
  <2>2. ASSUME NEW d \in Callers PROVE Gives(d)'
    <3>1. /\ UNCHANGED <<event[d], todo[d]>>
          /\ at'[d] = "deliver" => at[d] = "deliver"
          /\ at'[d] = "replay" => at[d] = "replay"
      BY <1>9 DEF ProcessDies, deliveryVars, Goto, Statement, TaskTypeOK
    <3> QED
      BY <2>1, <3>1, GivesStay
  <2> QED
    BY <1>1, <2>1, <2>2
<1>10. CASE UNCHANGED taskVars
  <2>1. UNCHANGED <<op, handled>>
    BY <1>10 DEF taskVars, deliveryVars
  <2>2. ASSUME NEW d \in Callers PROVE Gives(d)'
    <3>1. /\ UNCHANGED <<event[d], todo[d]>>
          /\ at'[d] = "deliver" => at[d] = "deliver"
          /\ at'[d] = "replay" => at[d] = "replay"
      BY <1>10 DEF taskVars, deliveryVars, Goto, Statement, TaskTypeOK
    <3> QED
      BY <2>1, <3>1, GivesStay
  <2> QED
    BY <1>1, <2>1, <2>2
<1> QED
  BY <1>2, <1>3, <1>4, <1>5, <1>6, <1>7, <1>8, <1>9, <1>10 DEF TaskNext

\* What a replay found in the store it has given or is still to give.
Shows(c) ==
    op[c] = "replay" =>
        /\ at[c] = "replay" => \A e \in shown[c] : e \in handled[0] \/ \E i \in 1..Len(todo[c]) : todo[c][i] = e
        /\ at[c] = "ok" => shown[c] \subseteq handled[0]
ShownInv == \A c \in Callers : Shows(c)

\* Nothing has been found at first.
LEMMA InitShownInv == TaskInit => ShownInv
  BY DEF TaskInit, ShownInv, Shows

\* A list of all events that are stored, each once, leaves none of them out.
LEMMA AllStored ==
    ASSUME FiniteStore, NEW s \in [1..Cardinality(Stored) -> Stored],
           \A i, j \in DOMAIN s : s[i] = s[j] => i = j
    PROVE  \A e \in Stored : \E i \in 1..Cardinality(Stored) : s[i] = e
<1>1. Cardinality(Stored) \in Nat
  BY FS_CardinalityType DEF FiniteStore
<1>2. Cardinality(1..Cardinality(Stored)) = Cardinality(Stored)
  BY <1>1, FS_Interval
<1>3. s \in Injection(1..Cardinality(Stored), Stored)
  BY DEF Injection, IsInjective
<1>4. s \in Surjection(1..Cardinality(Stored), Stored)
  BY <1>2, <1>3, FS_Injection DEF FiniteStore
<1> QED
  BY <1>4 DEF Surjection

\* A call goes on showing when it does not step, or it is no replay, and what has been given
\* stays given.
LEMMA ShowsStay ==
    ASSUME TaskTypeOK, ShownInv, NEW d \in Callers, UNCHANGED op,
           op[d] # "replay" \/ UNCHANGED <<at[d], shown[d], todo[d]>> \/ at'[d] \notin {"replay", "ok"},
           handled[0] \subseteq handled'[0]
    PROVE  Shows(d)'
  BY DEF ShownInv, Shows

\* A replay takes all there is, gives one after the other and ends when there is none left.
LEMMA NextShownInv == TaskTypeOK /\ FiniteStore /\ PlaceInv /\ ShownInv /\ [TaskNext]_taskVars => ShownInv'
<1> SUFFICES ASSUME TaskTypeOK, FiniteStore, PlaceInv, ShownInv, [TaskNext]_taskVars PROVE ShownInv'
  OBVIOUS
<1>1. 0 \in 0..Handlers
  BY TaskEventsAssumption
<1>2. ASSUME NEW c \in Callers, FindTask(c) \/ SaveTask(c) \/ AppendFind(c) \/ AppendSave(c) \/ Handle(c)
      PROVE  ShownInv'
  <2>1. op[c] # "replay" /\ UNCHANGED op
    BY <1>2 DEF FindTask, SaveTask, AppendFind, AppendSave, Handle, PlaceInv, InPlace
  <2>2. handled[0] \subseteq handled'[0]
    <3>1. CASE Handle(c)
      <4>1. handled' = handled \/ handled' = [handled EXCEPT ![Head(todo[c])] = @ \cup {event[c]}]
        BY <3>1 DEF Handle
      <4> QED
        BY <1>1, <4>1 DEF TaskTypeOK
    <3>2. CASE UNCHANGED handled
      BY <3>2
    <3> QED
      BY <1>2, <3>1, <3>2 DEF FindTask, SaveTask, AppendFind, AppendSave, deliveryVars
  <2>3. ASSUME NEW d \in Callers, d # c PROVE UNCHANGED <<at[d], shown[d], todo[d]>>
    <3> USE DEF Goto, Statement, Deliver, deliveryVars, history, TaskTypeOK
    <3>1. UNCHANGED shown
      BY <1>2 DEF FindTask, SaveTask, AppendFind, AppendSave, Handle
    <3>2. UNCHANGED at[d]
      BY <1>2, <2>3 DEF FindTask, SaveTask, AppendFind, AppendSave, Handle
    <3>3. UNCHANGED todo[d]
      BY <1>2, <2>3 DEF FindTask, SaveTask, AppendFind, AppendSave, Handle
    <3> QED
      BY <3>1, <3>2, <3>3
  <2>4. ASSUME NEW d \in Callers PROVE Shows(d)'
    BY <2>1, <2>2, <2>3, ShowsStay
  <2> QED
    BY <2>4 DEF ShownInv
<1>3. ASSUME NEW c \in Callers, Replay(c) PROVE ShownInv'
  <2>1. PICK s \in [1..Cardinality(Stored) -> Stored] :
            /\ \A i, j \in DOMAIN s : s[i] = s[j] => i = j
            /\ todo' = [todo EXCEPT ![c] = s]
    BY <1>3 DEF Replay
  <2>2. /\ at' = [at EXCEPT ![c] = "replay"] /\ shown' = [shown EXCEPT ![c] = Stored]
        /\ UNCHANGED <<op, handled>>
    BY <1>3 DEF Replay, Goto
  <2>3. ASSUME NEW d \in Callers, d # c PROVE Shows(d)'
    <3>1. UNCHANGED <<at[d], shown[d], todo[d]>>
      BY <2>1, <2>2, <2>3 DEF TaskTypeOK
    <3> QED
      BY <2>2, <3>1, ShowsStay
  <2>4. at'[c] = "replay" /\ shown'[c] = Stored /\ todo'[c] = s
    BY <2>1, <2>2 DEF TaskTypeOK
  <2>5. Len(s) = Cardinality(Stored)
    <3>1. Cardinality(Stored) \in Nat
      BY FS_CardinalityType DEF FiniteStore
    <3> QED
      BY <2>1, <3>1
  <2>6. \A e \in Stored : \E i \in 1..Len(s) : s[i] = e
    BY <2>1, <2>5, AllStored
  <2>7. Shows(c)'
    BY <2>4, <2>6 DEF Shows
  <2> QED
    BY <2>3, <2>7 DEF ShownInv
<1>4. ASSUME NEW c \in Callers, Give(c) PROVE ShownInv'
  <2>1. at[c] = "replay" /\ op[c] = "replay" /\ todo[c] \in Seq(Callers) /\ UNCHANGED <<op, shown>>
    BY <1>4 DEF Give, TaskTypeOK, PlaceInv, InPlace, history
  <2>2. handled[0] \subseteq handled'[0]
    <3>1. handled' = handled \/ handled' = [handled EXCEPT ![0] = @ \cup {Head(todo[c])}]
      BY <1>4 DEF Give
    <3> QED
      BY <1>1, <3>1 DEF TaskTypeOK
  <2>3. ASSUME NEW d \in Callers, d # c PROVE Shows(d)'
    <3>1. UNCHANGED <<at[d], shown[d], todo[d]>>
      BY <1>4, <2>3 DEF Give, Goto, TaskTypeOK, history
    <3> QED
      BY <2>1, <2>2, <3>1, ShowsStay
  <2>4. \A e \in shown[c] : e \in handled[0] \/ \E i \in 1..Len(todo[c]) : todo[c][i] = e
    BY <2>1 DEF ShownInv, Shows
  <2>5. CASE todo[c] = <<>>
    <3>1. shown[c] \subseteq handled[0]
      BY <2>4, <2>5
    <3>2. at'[c] = "ok" /\ UNCHANGED handled
      BY <1>4, <2>5 DEF Give, Goto, TaskTypeOK
    <3>3. Shows(c)'
      BY <2>1, <3>1, <3>2 DEF Shows
    <3> QED
      BY <2>3, <3>3 DEF ShownInv
  <2>6. CASE /\ todo[c] # <<>> /\ UNCHANGED at
             /\ handled' = [handled EXCEPT ![0] = @ \cup {Head(todo[c])}]
             /\ todo' = [todo EXCEPT ![c] = Tail(@)]
    <3>1. /\ Head(todo[c]) = todo[c][1]
          /\ \A i \in 1..Len(todo[c]) : i # 1 => i - 1 \in 1..Len(Tail(todo[c])) /\ Tail(todo[c])[i - 1] = todo[c][i]
      BY <2>1, <2>6
    <3>2. todo'[c] = Tail(todo[c]) /\ handled'[0] = handled[0] \cup {todo[c][1]}
      BY <1>1, <2>6, <3>1 DEF TaskTypeOK
    <3>3. ASSUME NEW e \in shown[c]
          PROVE  e \in handled'[0] \/ \E i \in 1..Len(todo'[c]) : todo'[c][i] = e
      <4>1. CASE e \in handled[0]
        BY <3>2, <4>1
      <4>2. CASE e = todo[c][1]
        BY <3>2, <4>2
      <4>3. CASE \E i \in 1..Len(todo[c]) : i # 1 /\ todo[c][i] = e
        BY <3>1, <3>2, <4>3
      <4> QED
        BY <2>4, <4>1, <4>2, <4>3
    <3>4. Shows(c)'
      BY <2>1, <2>6, <3>3 DEF Shows
    <3> QED
      BY <2>3, <3>4 DEF ShownInv
  <2>7. CASE Goto(c, "failed")
    <3>1. Shows(c)'
      BY <2>1, <2>7 DEF Goto, Shows, TaskTypeOK
    <3> QED
      BY <2>3, <3>1 DEF ShownInv
  <2> QED
    BY <1>4, <2>5, <2>6, <2>7 DEF Give
<1>5. CASE ProcessDies \/ UNCHANGED taskVars
  <2>1. UNCHANGED <<op, handled, shown, todo>>
    BY <1>5 DEF ProcessDies, taskVars, deliveryVars, history
  <2>2. ASSUME NEW d \in Callers PROVE UNCHANGED at[d] \/ at'[d] \notin {"replay", "ok"}
    BY <1>5 DEF ProcessDies, taskVars
  <2>3. ASSUME NEW d \in Callers PROVE Shows(d)'
    BY <2>1, <2>2, ShowsStay
  <2> QED
    BY <2>3 DEF ShownInv
<1> QED
  BY <1>2, <1>3, <1>4, <1>5 DEF TaskNext

\* What handlers are given is in the store, the first copy of each id unless two appends of it
\* ran side by side, and a replay that ends has given all it found.
THEOREM HandledStaysStored == TaskSpec => []HandledIsStored
<1> DEFINE EventInv ==
        TaskTypeOK /\ FiniteStore /\ PlaceInv /\ OwnInv /\ AppendInv /\ SoundInv /\ ShownInv
<1>1. TaskInit => EventInv
  BY InitTaskTypes, InitFiniteStore, InitPlaceInv, InitOwnInv, InitAppendInv, InitSoundInv, InitShownInv
<1>2. EventInv /\ [TaskNext]_taskVars => EventInv'
  BY NextTaskTypes, NextFiniteStore, NextPlaceInv, NextOwnInv, NextAppendInv, NextSoundInv, NextShownInv
<1>3. EventInv => HandledIsStored
  BY DEF HandledIsStored, SoundInv, Sound, ShownInv, Shows
<1> QED
  BY <1>1, <1>2, <1>3, PTL DEF TaskSpec

=============================================================================
