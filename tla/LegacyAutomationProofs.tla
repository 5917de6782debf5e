------------------------ MODULE LegacyAutomationProofs ------------------------
(***************************************************************************)
(* TLAPS proofs about LegacyAutomation, for any requests, keys, workflows  *)
(* and faults, however the requests overlap.                               *)
(***************************************************************************)
EXTENDS LegacyAutomation, FiniteSetTheorems, TLAPS

Places == Over \cup {"start", "look", "list", "run", "found"}

\* Only r goes on, to place.
Moved(r, place) ==
    /\ pc' \in [Requests -> Places] /\ pc'[r] = place
    /\ \A d \in Requests \ {r} : pc'[d] = pc[d]

LEMMA Moves ==
    ASSUME TypeOK, NEW r \in Requests, NEW place \in Places, Goto(r, place)
    PROVE  Moved(r, place)
  BY DEF TypeOK, Goto, Moved, Places

LEMMA Statements ==
    ASSUME TypeOK, NEW r \in Requests, NEW o \in Outcomes, NEW next \in Places, NEW onError \in Places,
           Statement(r, o, next, onError)
    PROVE  Moved(r, IF o = "ok" THEN next ELSE onError) /\ faults' \in 0..MaxFaults
<1>1. faults' \in 0..MaxFaults
  BY LegacyAssumption DEF Statement, TypeOK
<1> QED
  BY <1>1, Moves DEF Statement

\* What the requests ask for.
LEMMA Asked ==
    ASSUME TypeOK
    PROVE  /\ \A r \in Requests : Key(r) \in Keys /\ Flow(r) \in Flows
           /\ \A k \in Keys : Matching[k] \subseteq Flows
           /\ \A f \in Flows : StepsOf[f] \in Seq({"known", "unknown"}) /\ Len(StepsOf[f]) \in Nat
  BY LegacyAssumption DEF TypeOK, Key, Flow

\* Nothing has been asked for at first.
LEMMA InitTypeOK == Init => TypeOK
<1> SUFFICES ASSUME Init PROVE TypeOK
  OBVIOUS
<1>1. /\ flows \in [Flows -> {"absent", "enabled", "disabled", "deleted"}]
      /\ record \in [Keys -> (SUBSET Flows) \cup {None}]
  BY DEF Init
<1>2. /\ pc \in [Requests -> Over \cup {"start", "look", "list", "run", "found"}]
      /\ plan \in Plans
      /\ seen \in [Requests -> {"absent", "enabled", "disabled", "deleted"}]
  BY DEF Init
<1>3. /\ todo \in [Requests -> SUBSET Flows] /\ matched \in [Requests -> SUBSET Flows]
      /\ done \in [Requests -> [Flows -> Nat]]
  BY DEF Init
<1>4. faults \in 0..MaxFaults /\ overlapped \subseteq Keys
  BY LegacyAssumption DEF Init
<1> QED
  BY <1>1, <1>2, <1>3, <1>4 DEF TypeOK

\* A step of a request keeps the types.
LEMMA NextTypeOK == TypeOK /\ [Next]_vars => TypeOK'
<1> SUFFICES ASSUME TypeOK, [Next]_vars PROVE TypeOK'
  OBVIOUS
<1>0. /\ \A r \in Requests : Key(r) \in Keys /\ Flow(r) \in Flows
      /\ \A k \in Keys : Matching[k] \subseteq Flows
  BY Asked
<1>1. ASSUME NEW r \in Requests, Find(r) PROVE TypeOK'
  <2>1. PICK place \in Places : Goto(r, place)
    BY <1>1 DEF Find, Places, Over
  <2>2. pc' \in [Requests -> Places]
    BY <2>1, Moves DEF Moved
  <2>3. overlapped' \subseteq Keys
    BY <1>0, <1>1 DEF Find, TypeOK
  <2>4. matched' \in [Requests -> SUBSET Flows] /\ todo' \in [Requests -> SUBSET Flows]
    <3>1. {Flow(r)} \in SUBSET Flows
      BY <1>0
    <3> DEFINE one == {Flow(r)}
    <3> HIDE DEF one
    <3>2. CASE plan[r].op # "deliver"
      <4>1. matched' = [matched EXCEPT ![r] = one] /\ todo' = [todo EXCEPT ![r] = one]
        BY <1>1, <3>2 DEF Find, one
      <4> QED
        BY <3>1, <4>1 DEF TypeOK, one
    <3>3. CASE plan[r].op = "deliver"
      BY <1>1, <3>3 DEF Find, TypeOK
    <3> QED
      BY <3>2, <3>3
  <2> QED
    BY <1>1, <2>2, <2>3, <2>4 DEF Find, TypeOK, Places
<1>2. ASSUME NEW r \in Requests, Look(r) PROVE TypeOK'
  <2>1. PICK place \in Places : Goto(r, place)
    BY <1>2 DEF Look, Places, Over
  <2> QED
    BY <1>2, <2>1, Moves DEF Look, TypeOK, Moved, Places, runVars
<1>3. ASSUME NEW r \in Requests, List(r) PROVE TypeOK'
  <2>1. Moved(r, "run")
    BY <1>3, Moves DEF List, Places
  <2>2. matched' \in [Requests -> SUBSET Flows] /\ todo' \in [Requests -> SUBSET Flows]
    BY <1>0, <1>3 DEF List, TypeOK
  <2> QED
    BY <1>3, <2>1, <2>2 DEF List, TypeOK, Moved, Places
<1>4. ASSUME NEW r \in Requests, NEW f \in Flows, Step(r, f) PROVE TypeOK'
  <2>1. CASE StepsOf[f][done[r][f] + 1] = "unknown"
    <3>1. Goto(r, "failed") /\ UNCHANGED <<runVars, faults>>
      BY <1>4, <2>1 DEF Step
    <3> QED
      BY <1>4, <3>1, Moves DEF Step, TypeOK, Moved, Places, Over, runVars
  <2>2. CASE StepsOf[f][done[r][f] + 1] # "unknown"
    <3>1. PICK o \in Outcomes :
            /\ Statement(r, o, "run", OnActionError)
            /\ done' = IF Applied(o) THEN [done EXCEPT ![r][f] = @ + 1] ELSE done
            /\ todo' \in {[todo EXCEPT ![r] = @ \ {f}], todo}
            /\ UNCHANGED matched
      BY <1>4, <2>2 DEF Step
    <3>2. pc' \in [Requests -> Places] /\ faults' \in 0..MaxFaults
      BY <3>1, Statements DEF Moved, OnActionError, Places, Over
    <3>3. done' \in [Requests -> [Flows -> Nat]] /\ todo' \in [Requests -> SUBSET Flows]
      BY <3>1 DEF TypeOK
    <3> QED
      BY <1>4, <3>1, <3>2, <3>3 DEF Step, TypeOK, Places
  <2> QED
    BY <2>1, <2>2
<1>5. ASSUME NEW r \in Requests, NEW f \in Flows, SkipEmpty(r, f) PROVE TypeOK'
  BY <1>5 DEF SkipEmpty, TypeOK
<1>6. ASSUME NEW r \in Requests, SaveRecord(r) PROVE TypeOK'
  <2>1. PICK o \in Outcomes :
          /\ Statement(r, o, "ok", "failed")
          /\ record' = IF Applied(o) THEN [record EXCEPT ![Key(r)] = matched[r]] ELSE record
    BY <1>6 DEF SaveRecord
  <2>2. pc' \in [Requests -> Places] /\ faults' \in 0..MaxFaults
    BY <2>1, Statements DEF Moved, Places, Over
  <2>3. record' \in [Keys -> (SUBSET Flows) \cup {None}]
    BY <2>1 DEF TypeOK
  <2> QED
    BY <1>6, <2>2, <2>3 DEF SaveRecord, TypeOK, Places, runVars
<1>7. ASSUME NEW r \in Requests, NEW value \in {"absent", "enabled", "disabled", "deleted"},
             Save(r, value), UNCHANGED <<record, plan, runVars, seen, overlapped>>
      PROVE  TypeOK'
  <2>1. PICK o \in Outcomes :
          /\ Statement(r, o, "ok", "failed")
          /\ flows' = IF Applied(o) THEN [flows EXCEPT ![Flow(r)] = value] ELSE flows
    BY <1>7 DEF Save
  <2>2. pc' \in [Requests -> Places] /\ faults' \in 0..MaxFaults
    BY <2>1, Statements DEF Moved, Places, Over
  <2>3. flows' \in [Flows -> {"absent", "enabled", "disabled", "deleted"}]
    BY <2>1 DEF TypeOK
  <2> QED
    BY <1>7, <2>2, <2>3 DEF TypeOK, Places, runVars
<1>8. ASSUME NEW r \in Requests, Create(r) \/ PatchSave(r) \/ Delete(r) PROVE TypeOK'
  <2>1. CASE Create(r)
    BY <1>7, <2>1 DEF Create
  <2>2. CASE PatchSave(r)
    BY <1>7, <2>2 DEF PatchSave, TypeOK
  <2>3. CASE Delete(r) /\ Found(Flow(r))
    BY <1>7, <2>3 DEF Delete
  <2>4. CASE Delete(r) /\ ~Found(Flow(r))
    BY <2>4, Moves DEF Delete, TypeOK, Moved, Places, Over, runVars
  <2> QED
    BY <1>8, <2>1, <2>2, <2>3, <2>4
<1>9. ASSUME NEW r \in Requests, PatchFind(r) PROVE TypeOK'
  <2>1. PICK place \in Places : Goto(r, place)
    BY <1>9 DEF PatchFind, Places, Over
  <2>2. seen' \in [Requests -> {"absent", "enabled", "disabled", "deleted"}]
    BY <1>0, <1>9 DEF PatchFind, TypeOK
  <2> QED
    BY <1>9, <2>1, <2>2, Moves DEF PatchFind, TypeOK, Moved, Places, runVars
<1>10. CASE Crash
  BY <1>10, LegacyAssumption DEF Crash, TypeOK, Over, runVars
<1>11. CASE UNCHANGED vars
  BY <1>11 DEF TypeOK, vars, runVars
<1> QED
  BY <1>1, <1>2, <1>3, <1>4, <1>5, <1>6, <1>8, <1>9, <1>10, <1>11 DEF Next

\* Every variable has its type.
THEOREM TypeCorrect == Spec => []TypeOK
  BY InitTypeOK, NextTypeOK, PTL DEF Spec

-----------------------------------------------------------------------------
(* Deleted workflows *)

\* Only a PATCH that has read the row before can bring a deleted workflow back.
THEOREM DeletedStaysSo == Spec => DeletedStays
<1>1. ASSUME TypeOK, [Next]_vars, NEW f \in Flows, flows[f] = "deleted", Settled(f)
      PROVE  (flows[f] = "deleted" /\ Settled(f))'
  <2>1. plan' = plan
    BY <1>1 DEF Next, vars, Find, Look, List, Step, SkipEmpty, SaveRecord, Create, PatchFind, PatchSave,
       Delete, Crash
  <2>2. ASSUME NEW r \in Requests, NEW value \in {"absent", "enabled", "disabled", "deleted"},
               Save(r, value), Flow(r) # f \/ value = "deleted"
        PROVE  flows'[f] = "deleted" /\ Settled(f)'
    <3>1. PICK o \in Outcomes :
            /\ Statement(r, o, "ok", "failed")
            /\ flows' = IF Applied(o) THEN [flows EXCEPT ![Flow(r)] = value] ELSE flows
      BY <2>2 DEF Save
    <3>2. flows'[f] = "deleted"
      BY <1>1, <2>2, <3>1 DEF TypeOK
    <3>3. pc'[r] # "found" /\ \A d \in Requests \ {r} : pc'[d] = pc[d]
      BY <1>1, <3>1, Statements DEF Moved, Places, Over
    <3> QED
      BY <1>1, <2>1, <3>2, <3>3 DEF Settled, Flow
  <2>3. ASSUME NEW r \in Requests, NEW place \in Places, Goto(r, place), flows' = flows,
               place = "found" => Flow(r) # f
        PROVE  flows'[f] = "deleted" /\ Settled(f)'
    <3>1. Moved(r, place)
      BY <1>1, <2>3, Moves
    <3> QED
      BY <1>1, <2>1, <2>3, <3>1 DEF Settled, Flow, Moved
  <2>4. CASE \E r \in Requests : Create(r) \/ PatchSave(r) \/ Delete(r)
    <3>1. PICK r \in Requests : Create(r) \/ PatchSave(r) \/ Delete(r)
      BY <2>4
    <3>2. CASE Create(r)
      BY <1>1, <2>2, <3>2 DEF Create
    <3>3. CASE PatchSave(r)
      BY <1>1, <2>2, <3>3 DEF PatchSave, Settled, TypeOK
    <3>4. CASE Delete(r)
      BY <1>1, <2>2, <2>3, <3>4 DEF Delete, Places, Over
    <3> QED
      BY <3>1, <3>2, <3>3, <3>4
  <2>5. CASE \E r \in Requests : PatchFind(r)
    <3>1. PICK r \in Requests : PatchFind(r)
      BY <2>5
    <3> QED
      BY <1>1, <2>3, <3>1 DEF PatchFind, Found, Places, Over
  <2>6. CASE \E r \in Requests : Find(r) \/ Look(r) \/ List(r) \/ SaveRecord(r) \/ \E g \in Flows : Step(r, g)
    <3>1. PICK r \in Requests : Find(r) \/ Look(r) \/ List(r) \/ SaveRecord(r) \/ \E g \in Flows : Step(r, g)
      BY <2>6
    <3>2. flows' = flows
      BY <3>1 DEF Find, Look, List, SaveRecord, Step
    <3>3. \E place \in Places \ {"found"} : Goto(r, place)
      BY <3>1 DEF Find, Look, List, SaveRecord, Step, Statement, OnActionError, Places, Over
    <3> QED
      BY <2>3, <3>2, <3>3
  <2>7. CASE \E r \in Requests, g \in Flows : SkipEmpty(r, g)
    BY <1>1, <2>1, <2>7 DEF SkipEmpty, Settled, Flow
  <2>8. CASE Crash
    BY <1>1, <2>1, <2>8 DEF Crash, Settled, Flow, TypeOK
  <2>9. CASE UNCHANGED vars
    BY <1>1, <2>1, <2>9 DEF Settled, Flow, vars
  <2> QED
    BY <1>1, <2>4, <2>5, <2>6, <2>7, <2>8, <2>9 DEF Next
<1>2. TypeOK /\ [Next]_vars =>
        [\A f \in Flows : LET final == flows[f] = "deleted" /\ Settled(f) IN final => final']_vars
  BY <1>1
<1> QED
  BY <1>2, TypeCorrect, PTL DEF Spec, DeletedStays

-----------------------------------------------------------------------------
(* Execution records *)

\* What a request has done, and what it knows of the record of its key, at each place.
RunOf(r) ==
    /\ pc[r] \in {"look", "list", "run"} => Runs(r)
    /\ pc[r] = "found" => ~Runs(r)
    /\ pc[r] \in {"start", "refused", "look", "list", "replayed"} => \A f \in Flows : done[r][f] = 0
    /\ pc[r] \in {"look", "run"} => \A f \in matched[r] \ todo[r] : Ran(r, f)
    /\ pc[r] \in {"ok", "replayed"} /\ Runs(r) => record[Key(r)] # None
    /\ pc[r] \in {"list", "run"} /\ Key(r) \notin overlapped => record[Key(r)] = None

Busy(r, k) == Runs(r) /\ Key(r) = k /\ Active(r)
Effective(r, k) == Runs(r) /\ Key(r) = k /\ pc[r] # "failed" /\ \E f \in Flows : done[r][f] > 0

\* A record names what a request that is over has run; unless two requests of the key ran side by
\* side, one is busy and one has had an effect at most.
RecordOf(k) ==
    /\ record[k] # None =>
        \E r \in Requests : Runs(r) /\ Key(r) = k /\ pc[r] \in Over /\ \A f \in record[k] : Ran(r, f)
    /\ k \notin overlapped => \A q, r \in Requests : Busy(q, k) /\ Busy(r, k) => q = r
    /\ k \notin overlapped => \A q, r \in Requests : Effective(q, k) /\ Effective(r, k) => q = r

RunInv ==
    /\ TypeOK
    /\ \A r \in Requests : RunOf(r)
    /\ \A k \in Keys : RecordOf(k)

\* No request has begun at first.
LEMMA InitRunInv == Init => RunInv
<1> SUFFICES ASSUME Init PROVE RunInv
  OBVIOUS
<1>1. \A r \in Requests : RunOf(r)
  BY DEF Init, RunOf
<1>2. ASSUME NEW k \in Keys PROVE RecordOf(k)
  BY <1>2 DEF Init, RecordOf, Busy, Active, Effective
<1> QED
  BY <1>1, <1>2, InitTypeOK DEF RunInv

\* A request that nothing happens to stays in order as long as its record does.
LEMMA OtherRuns ==
    ASSUME NEW d \in Requests, RunOf(d), plan' = plan, pc'[d] = pc[d], done'[d] = done[d],
           matched'[d] = matched[d], todo'[d] = todo[d], overlapped \subseteq overlapped',
           \/ record'[Key(d)] = record[Key(d)]
           \/ record'[Key(d)] # None /\ (pc[d] \in {"list", "run"} => Key(d) \in overlapped)
    PROVE  RunOf(d)'
<1>1. Key(d)' = Key(d) /\ Runs(d)' = Runs(d)
  BY DEF Key, Runs
<1> QED
  BY <1>1 DEF RunOf, Ran

\* A request goes on without a record or an effect.
LEMMA NothingRun ==
    ASSUME RunInv, TypeOK', NEW r \in Requests, NEW place \in Places, Moved(r, place),
           plan' = plan, record' = record, done' = done, overlapped' = overlapped,
           \A d \in Requests \ {r} : matched'[d] = matched[d] /\ todo'[d] = todo[d],
           pc[r] \notin Over, Runs(r) /\ pc[r] = "start" => place \in Over, RunOf(r)'
    PROVE  RunInv'
<1>1. ASSUME NEW d \in Requests PROVE RunOf(d)'
  BY OtherRuns DEF RunInv, Moved
<1>2. ASSUME NEW k \in Keys PROVE RecordOf(k)'
  <2>1. RecordOf(k)
    BY DEF RunInv
  <2>2. ASSUME NEW d \in Requests
        PROVE  /\ Key(d)' = Key(d) /\ Runs(d)' = Runs(d)
               /\ Busy(d, k)' => Busy(d, k)
               /\ Effective(d, k)' => Effective(d, k)
               /\ pc[d] \in Over => pc'[d] = pc[d]
    BY DEF Key, Runs, Busy, Active, Effective, Moved, Over
  <2>3. \A d \in Requests, f \in Flows : Ran(d, f)' = Ran(d, f)
    BY DEF Ran
  <2>4. record'[k] # None => \E d \in Requests : (Runs(d) /\ Key(d) = k /\ pc[d] \in Over /\ \A f \in record[k] : Ran(d, f))'
    BY <2>1, <2>2 DEF RecordOf, Ran
  <2> QED
    BY <2>1, <2>2, <2>4 DEF RecordOf
<1> QED
  BY <1>1, <1>2 DEF RunInv

\* A request begins: it has run nothing, and either it is the only one of its key or two are.
LEMMA FindInv == ASSUME RunInv, TypeOK', NEW r \in Requests, Find(r) PROVE RunInv'
<1> DEFINE K == Key(r)
           ofKey == {q \in Requests \ {r} : Runs(q) /\ Key(q) = K /\ Active(q)}
<1>0. /\ TypeOK /\ RunOf(r) /\ Runs(r) /\ pc[r] = "start" /\ K \in Keys
      /\ plan' = plan /\ record' = record /\ done' = done
      /\ overlapped' = IF ofKey = {} THEN overlapped ELSE overlapped \cup {K}
      /\ \A f \in Flows : done[r][f] = 0
  BY Asked DEF RunInv, RunOf, Find
<1>1. \A d \in Requests : Key(d)' = Key(d) /\ Runs(d)' = Runs(d)
  BY <1>0 DEF Key, Runs
<1>2. PICK place \in {"look", "refused", "replayed", "list"} :
        /\ Goto(r, place)
        /\ place = "list" => record[K] = None
        /\ place = "replayed" => record[K] # None
        /\ \A d \in Requests \ {r} : matched'[d] = matched[d] /\ todo'[d] = todo[d]
        /\ place = "look" => matched'[r] = todo'[r]
  <2>1. CASE plan[r].op # "deliver"
    <3>1. /\ Goto(r, IF plan[r].op = "inline" \/ flows[Flow(r)] = "enabled" THEN "look" ELSE "refused")
          /\ matched' = [matched EXCEPT ![r] = {Flow(r)}]
          /\ todo' = [todo EXCEPT ![r] = {Flow(r)}]
      BY <2>1 DEF Find
    <3>2. /\ \A d \in Requests \ {r} : matched'[d] = matched[d] /\ todo'[d] = todo[d]
          /\ matched'[r] = todo'[r]
      BY <1>0, <3>1 DEF TypeOK
    <3> QED
      BY <3>1, <3>2
  <2>2. CASE plan[r].op = "deliver"
    <3>1. /\ Goto(r, IF record[K] # None THEN "replayed" ELSE "list")
          /\ UNCHANGED <<matched, todo>>
      BY <2>2 DEF Find, Replayed
    <3> QED
      BY <3>1
  <2> QED
    BY <2>1, <2>2
<1>3. Moved(r, place)
  BY <1>0, <1>2, Moves DEF Places, Over
<1>4. ASSUME NEW d \in Requests PROVE RunOf(d)'
  <2>1. CASE d = r
    BY <1>0, <1>1, <1>2, <1>3, <2>1 DEF RunOf, Moved
  <2>2. CASE d # r
    BY <1>0, <1>2, <1>3, <2>2, OtherRuns DEF RunInv, Moved
  <2> QED
    BY <2>1, <2>2
<1>5. ASSUME NEW k \in Keys PROVE RecordOf(k)'
  <2>1. RecordOf(k)
    BY DEF RunInv
  <2>2. ASSUME NEW d \in Requests
        PROVE  /\ Busy(d, k)' => Busy(d, k) \/ d = r
               /\ Effective(d, k)' => Effective(d, k)
               /\ pc[d] \in Over => pc'[d] = pc[d]
    BY <1>0, <1>1, <1>3 DEF Busy, Active, Effective, Moved, Over
  <2>3. record'[k] # None =>
          \E d \in Requests : (Runs(d) /\ Key(d) = k /\ pc[d] \in Over /\ \A f \in record[k] : Ran(d, f))'
    BY <1>0, <1>1, <2>1, <2>2 DEF RecordOf, Ran
  <2>4. ASSUME k \notin overlapped', NEW p \in Requests, NEW q \in Requests, Busy(p, k)', Busy(q, k)'
        PROVE  p = q
    <3>1. k \notin overlapped
      BY <1>0, <2>4
    <3>2. CASE Busy(p, k) /\ Busy(q, k)
      BY <2>1, <3>1, <3>2 DEF RecordOf
    <3>3. CASE p = r \/ q = r
      <4>1. k = K
        BY <1>1, <2>4, <3>3 DEF Busy
      <4>2. ofKey = {}
        BY <1>0, <2>4, <4>1
      <4>3. \A d \in Requests \ {r} : ~Busy(d, k)
        BY <4>1, <4>2 DEF Busy
      <4> QED
        BY <2>2, <2>4, <4>3
    <3> QED
      BY <2>2, <2>4, <3>2, <3>3
  <2>5. k \notin overlapped' => \A p, q \in Requests : Effective(p, k)' /\ Effective(q, k)' => p = q
    BY <1>0, <2>1, <2>2 DEF RecordOf
  <2> QED
    BY <2>3, <2>4, <2>5 DEF RecordOf
<1> QED
  BY <1>4, <1>5 DEF RunInv

\* Unless two requests of its key ran side by side, who runs for the key is the first.
LEMMA Alone ==
    ASSUME RunInv, NEW r \in Requests, pc[r] = "run", Key(r) \notin overlapped,
           NEW q \in Requests, Effective(q, Key(r))
    PROVE  q = r
<1>1. RunOf(r) /\ RunOf(q) /\ RecordOf(Key(r)) /\ TypeOK
  BY Asked DEF RunInv
<1>2. Runs(r) /\ Busy(r, Key(r)) /\ record[Key(r)] = None
  BY <1>1 DEF RunOf, Busy, Active, Over
<1>3. /\ Runs(q) /\ Key(q) = Key(r) /\ pc[q] # "failed" /\ \E f \in Flows : done[q][f] > 0
      /\ \A f \in Flows : done[q][f] \in Nat
  BY <1>1 DEF Effective, TypeOK
<1>4. pc[q] \notin {"start", "refused", "replayed", "ok"}
  <2>1. pc[q] \notin {"start", "refused", "replayed"}
    <3>1. PICK f \in Flows : done[q][f] > 0 /\ done[q][f] \in Nat
      BY <1>3
    <3> QED
      BY <1>1, <3>1 DEF RunOf
  <2>2. pc[q] # "ok"
    BY <1>1, <1>2, <1>3 DEF RunOf
  <2> QED
    BY <2>1, <2>2
<1>5. Busy(q, Key(r))
  BY <1>3, <1>4 DEF Busy, Active, Over
<1> QED
  BY <1>1, <1>2, <1>5 DEF RecordOf

\* A step of a workflow is one of the only request of its key, unless two ran side by side.
LEMMA StepInv ==
    ASSUME RunInv, TypeOK', NEW r \in Requests, NEW f \in Flows, Step(r, f) PROVE RunInv'
<1> DEFINE K == Key(r)
<1>0. /\ TypeOK /\ RunOf(r) /\ Runs(r) /\ pc[r] = "run" /\ K \in Keys /\ f \in todo[r]
      /\ plan' = plan /\ record' = record /\ overlapped' = overlapped /\ matched' = matched
      /\ done[r][f] \in Nat /\ Len(StepsOf[f]) \in Nat
  BY Asked DEF RunInv, RunOf, Step, TypeOK, runVars
<1>1. \A d \in Requests : Key(d)' = Key(d) /\ Runs(d)' = Runs(d)
  BY <1>0 DEF Key, Runs
<1>2. /\ \A d \in Requests \ {r} : pc'[d] = pc[d] /\ done'[d] = done[d] /\ todo'[d] = todo[d]
      /\ \A g \in Flows \ {f} : done'[r][g] = done[r][g]
      /\ \/ pc'[r] = "failed"
         \/ /\ pc'[r] = "run" /\ done'[r][f] = done[r][f] + 1
            /\ \/ todo'[r] = todo[r]
               \/ todo'[r] = todo[r] \ {f} /\ done[r][f] + 1 = Len(StepsOf[f])
  <2>1. CASE StepsOf[f][done[r][f] + 1] = "unknown"
    <3>1. Goto(r, "failed") /\ done' = done /\ todo' = todo
      BY <2>1 DEF Step, runVars
    <3> QED
      BY <1>0, <3>1 DEF Goto, TypeOK
  <2>2. CASE StepsOf[f][done[r][f] + 1] # "unknown"
    <3>1. PICK o \in Outcomes :
            /\ Statement(r, o, "run", "failed")
            /\ done' = IF Applied(o) THEN [done EXCEPT ![r][f] = @ + 1] ELSE done
            /\ todo' = IF done[r][f] + 1 = Len(StepsOf[f]) THEN [todo EXCEPT ![r] = @ \ {f}] ELSE todo
      BY <2>2 DEF Step, OnActionError
    <3>2. Moved(r, IF o = "ok" THEN "run" ELSE "failed")
      BY <1>0, <3>1, Statements DEF Places, Over
    <3>3. o = "ok" => done' = [done EXCEPT ![r][f] = @ + 1]
      BY <3>1 DEF Applied
    <3> QED
      BY <1>0, <3>1, <3>2, <3>3 DEF TypeOK, Moved
  <2> QED
    BY <2>1, <2>2
<1>3. ASSUME NEW d \in Requests PROVE RunOf(d)'
  <2>1. CASE d = r /\ pc'[r] = "failed"
    BY <2>1 DEF RunOf
  <2>2. CASE d = r /\ pc'[r] = "run"
    <3>1. \A g \in matched'[r] \ todo'[r] : Ran(r, g)'
      BY <1>0, <1>2, <2>2 DEF RunOf, Ran, TypeOK
    <3> QED
      BY <1>0, <1>1, <2>2, <3>1 DEF RunOf
  <2>3. CASE d # r
    BY <1>0, <1>2, <2>3, OtherRuns DEF RunInv
  <2> QED
    BY <1>2, <2>1, <2>2, <2>3
<1>4. ASSUME NEW k \in Keys PROVE RecordOf(k)'
  <2>1. RecordOf(k)
    BY DEF RunInv
  <2>2. ASSUME NEW d \in Requests
        PROVE  /\ Busy(d, k)' => Busy(d, k)
               /\ Effective(d, k)' => Effective(d, k) \/ (d = r /\ k = K)
               /\ pc[d] \in Over => pc'[d] = pc[d] /\ done'[d] = done[d]
    BY <1>0, <1>1, <1>2 DEF Busy, Active, Effective, Over
  <2>3. record'[k] # None =>
          \E d \in Requests : (Runs(d) /\ Key(d) = k /\ pc[d] \in Over /\ \A g \in record[k] : Ran(d, g))'
    BY <1>0, <1>1, <2>1, <2>2 DEF RecordOf, Ran
  <2>4. ASSUME k \notin overlapped', NEW p \in Requests, NEW q \in Requests,
               Effective(p, k)', Effective(q, k)'
        PROVE  p = q
    <3>1. CASE k = K
      BY <1>0, <2>2, <2>4, <3>1, Alone
    <3>2. CASE k # K
      BY <1>0, <2>1, <2>2, <2>4, <3>2 DEF RecordOf
    <3> QED
      BY <3>1, <3>2
  <2>5. k \notin overlapped' => \A p, q \in Requests : Busy(p, k)' /\ Busy(q, k)' => p = q
    BY <1>0, <2>1, <2>2 DEF RecordOf
  <2> QED
    BY <2>3, <2>4, <2>5 DEF RecordOf
<1> QED
  BY <1>3, <1>4 DEF RunInv

\* The record that is saved names what the request has run.
LEMMA SaveRecordInv == ASSUME RunInv, TypeOK', NEW r \in Requests, SaveRecord(r) PROVE RunInv'
<1> DEFINE K == Key(r)
<1>0. /\ TypeOK /\ RunOf(r) /\ Runs(r) /\ pc[r] = "run" /\ K \in Keys /\ todo[r] = {}
      /\ plan' = plan /\ overlapped' = overlapped /\ matched' = matched /\ todo' = todo /\ done' = done
      /\ matched[r] \in SUBSET Flows
  BY Asked DEF RunInv, RunOf, SaveRecord, TypeOK, runVars
<1>1. \A d \in Requests : Key(d)' = Key(d) /\ Runs(d)' = Runs(d)
  BY <1>0 DEF Key, Runs
<1>2. PICK o \in Outcomes :
        /\ Statement(r, o, "ok", "failed")
        /\ record' = IF Applied(o) THEN [record EXCEPT ![K] = matched[r]] ELSE record
  BY DEF SaveRecord
<1>3. Moved(r, IF o = "ok" THEN "ok" ELSE "failed") /\ (~Applied(o) => o # "ok")
  BY <1>0, <1>2, Statements DEF Places, Over, Applied
<1>4. CASE ~Applied(o)
  <2>1. Moved(r, "failed") /\ record' = record
    BY <1>2, <1>3, <1>4
  <2>2. RunOf(r)'
    BY <2>1 DEF RunOf, Moved
  <2> QED
    BY <1>0, <2>1, <2>2, NothingRun DEF Places, Over
<1>5. CASE Applied(o)
  <2>1. /\ record'[K] = matched[r] /\ record'[K] # None
        /\ \A k \in Keys \ {K} : record'[k] = record[k]
    BY <1>0, <1>2, <1>5, LegacyAssumption DEF TypeOK
  <2>2. /\ pc'[r] \in {"ok", "failed"} /\ \A d \in Requests \ {r} : pc'[d] = pc[d]
        /\ Busy(r, K) /\ RecordOf(K)
    BY <1>0, <1>3 DEF Moved, Busy, Active, Over, RunInv
  <2>3. ASSUME NEW d \in Requests PROVE RunOf(d)'
    <3>1. CASE d = r
      BY <1>0, <1>1, <2>1, <2>2, <3>1 DEF RunOf
    <3>2. CASE d # r /\ Key(d) # K
      <4>1. Key(d) \in Keys
        BY <1>0, Asked
      <4> QED
        BY <1>0, <2>1, <2>2, <3>2, <4>1, OtherRuns DEF RunInv
    <3>3. CASE d # r /\ Key(d) = K
      <4>1. pc[d] \in {"list", "run"} => Key(d) \in overlapped
        BY <2>2, <3>3 DEF RecordOf, Busy, Active, Over, RunInv, RunOf
      <4> QED
        BY <1>0, <2>1, <2>2, <3>3, <4>1, OtherRuns DEF RunInv
    <3> QED
      BY <3>1, <3>2, <3>3
  <2>4. ASSUME NEW k \in Keys PROVE RecordOf(k)'
    <3>1. RecordOf(k)
      BY DEF RunInv
    <3>2. ASSUME NEW d \in Requests
          PROVE  /\ Busy(d, k)' => Busy(d, k)
                 /\ Effective(d, k)' => Effective(d, k)
                 /\ pc[d] \in Over => pc'[d] = pc[d]
      BY <1>0, <1>1, <2>2 DEF Busy, Active, Effective, Over
    <3>3. record'[k] # None =>
            \E d \in Requests : (Runs(d) /\ Key(d) = k /\ pc[d] \in Over /\ \A f \in record[k] : Ran(d, f))'
      <4>1. CASE k = K
        <5>1. \A f \in record'[k] : Ran(r, f)'
          BY <1>0, <2>1, <4>1 DEF RunOf, Ran
        <5> QED
          BY <1>0, <1>1, <2>2, <4>1, <5>1 DEF Over
      <4>2. CASE k # K
        BY <1>0, <1>1, <2>1, <3>1, <3>2, <4>2 DEF RecordOf, Ran
      <4> QED
        BY <4>1, <4>2
    <3> QED
      BY <1>0, <3>1, <3>2, <3>3 DEF RecordOf
  <2> QED
    BY <2>3, <2>4 DEF RunInv
<1> QED
  BY <1>4, <1>5

\* A crash ends every request that is busy.
LEMMA CrashInv == ASSUME RunInv, TypeOK', Crash PROVE RunInv'
<1>0. /\ pc' = [r \in Requests |-> IF Active(r) THEN "failed" ELSE pc[r]]
      /\ UNCHANGED <<record, plan, todo, matched, done, overlapped>>
  BY DEF Crash, runVars
<1>1. ASSUME NEW d \in Requests
      PROVE  /\ Key(d)' = Key(d) /\ Runs(d)' = Runs(d)
             /\ pc'[d] = "failed" \/ (pc'[d] = pc[d] /\ pc[d] \in Over \cup {"start"})
             /\ pc[d] \in Over => pc'[d] = pc[d]
  BY <1>0 DEF Key, Runs, Active, Over
<1>2. ASSUME NEW d \in Requests PROVE RunOf(d)'
  BY <1>0, <1>1 DEF RunInv, RunOf, Over
<1>3. ASSUME NEW k \in Keys PROVE RecordOf(k)'
  <2>1. RecordOf(k)
    BY DEF RunInv
  <2>2. ASSUME NEW d \in Requests
        PROVE  ~Busy(d, k)' /\ (Effective(d, k)' => Effective(d, k))
    BY <1>0, <1>1 DEF Busy, Active, Effective, Over
  <2>3. record'[k] # None =>
          \E d \in Requests : (Runs(d) /\ Key(d) = k /\ pc[d] \in Over /\ \A f \in record[k] : Ran(d, f))'
    BY <1>0, <1>1, <2>1 DEF RecordOf, Ran
  <2> QED
    BY <1>0, <2>1, <2>2, <2>3 DEF RecordOf
<1> QED
  BY <1>2, <1>3 DEF RunInv

\* The other steps have no effect.
LEMMA StillInv ==
    ASSUME RunInv, TypeOK', NEW r \in Requests,
           \/ Look(r) \/ List(r) \/ Create(r) \/ PatchFind(r) \/ PatchSave(r) \/ Delete(r)
           \/ \E f \in Flows : SkipEmpty(r, f)
    PROVE  RunInv'
<1>0. TypeOK /\ RunOf(r)
  BY DEF RunInv
<1>1. CASE Look(r)
  <2>1. PICK place \in {"refused", "replayed", "run"} :
          /\ Goto(r, place)
          /\ place = "replayed" => record[Key(r)] # None
          /\ place = "run" => record[Key(r)] = None
    BY <1>1 DEF Look, Replayed
  <2>2. Moved(r, place) /\ place \in Places
    BY <1>0, <2>1, Moves DEF Places, Over
  <2>3. pc[r] = "look" /\ UNCHANGED <<record, plan, todo, matched, done, overlapped>>
    BY <1>1 DEF Look, runVars
  <2>4. RunOf(r)'
    BY <1>0, <2>1, <2>2, <2>3 DEF RunOf, Moved, Runs, Key, Ran
  <2> QED
    BY <2>2, <2>3, <2>4, NothingRun DEF Over
<1>2. CASE List(r)
  <2>1. Moved(r, "run") /\ "run" \in Places
    BY <1>0, <1>2, Moves DEF List, Places
  <2>2. /\ pc[r] = "list" /\ UNCHANGED <<record, plan, done, overlapped>>
        /\ matched'[r] = todo'[r]
        /\ \A d \in Requests \ {r} : matched'[d] = matched[d] /\ todo'[d] = todo[d]
    BY <1>0, <1>2 DEF List, TypeOK
  <2>3. RunOf(r)'
    BY <1>0, <2>1, <2>2 DEF RunOf, Moved, Runs, Key
  <2> QED
    BY <2>1, <2>2, <2>3, NothingRun DEF Over
<1>3. CASE Create(r) \/ PatchSave(r) \/ Delete(r)
  <2>1. /\ ~Runs(r) /\ pc[r] \in {"start", "found"}
        /\ UNCHANGED <<record, plan, todo, matched, done, overlapped>>
    BY <1>0, <1>3 DEF Create, PatchSave, Delete, Runs, RunOf, runVars
  <2>2. PICK place \in {"ok", "refused", "failed"} :
          Goto(r, place) /\ (place = "refused" => pc[r] = "start")
    BY <1>3 DEF Create, PatchSave, Delete, Save, Statement, Over
  <2>3. Moved(r, place) /\ place \in Places
    BY <1>0, <2>2, Moves DEF Places, Over
  <2>4. RunOf(r)'
    <3>1. ~Runs(r)' /\ pc'[r] = place
      BY <2>1, <2>3 DEF Runs, Moved
    <3> QED
      BY <1>0, <2>1, <2>2, <3>1 DEF RunOf
  <2> QED
    BY <2>1, <2>2, <2>3, <2>4, NothingRun DEF Over
<1>4. CASE PatchFind(r)
  <2>1. /\ ~Runs(r) /\ pc[r] = "start" /\ UNCHANGED <<record, plan, todo, matched, done, overlapped>>
    BY <1>4 DEF PatchFind, Runs, runVars
  <2>2. PICK place \in {"found", "refused"} : Goto(r, place)
    BY <1>4 DEF PatchFind
  <2>3. Moved(r, place) /\ place \in Places
    BY <1>0, <2>2, Moves DEF Places, Over
  <2>4. RunOf(r)'
    BY <1>0, <2>1, <2>2, <2>3 DEF RunOf, Moved, Runs
  <2> QED
    BY <2>1, <2>3, <2>4, NothingRun DEF Over
<1>5. ASSUME NEW f \in Flows, SkipEmpty(r, f) PROVE RunInv'
  <2>1. /\ pc[r] = "run" /\ f \in todo[r] /\ StepsOf[f] = <<>> /\ done[r][f] = 0
        /\ UNCHANGED <<record, pc, plan, matched, done, overlapped>>
        /\ todo'[r] = todo[r] \ {f} /\ \A d \in Requests \ {r} : todo'[d] = todo[d]
    BY <1>0, <1>5 DEF SkipEmpty, TypeOK
  <2>2. Ran(r, f) /\ Moved(r, "run") /\ "run" \in Places
    BY <1>0, <2>1 DEF Ran, Moved, TypeOK, Places
  <2>3. RunOf(r)'
    BY <1>0, <2>1, <2>2 DEF RunOf, Ran, Runs, Key
  <2> QED
    BY <2>1, <2>2, <2>3, NothingRun DEF Over
<1> QED
  BY <1>1, <1>2, <1>3, <1>4, <1>5

\* Each step leaves what requests and records say true.
LEMMA NextRunInv == RunInv /\ [Next]_vars => RunInv'
<1> SUFFICES ASSUME RunInv, [Next]_vars PROVE RunInv'
  OBVIOUS
<1>1. TypeOK'
  BY NextTypeOK DEF RunInv
<1>2. CASE UNCHANGED vars
  <2>1. ASSUME NEW r \in Requests PROVE RunOf(r)'
    BY <1>2, OtherRuns DEF RunInv, vars, runVars
  <2>2. ASSUME NEW k \in Keys PROVE RecordOf(k)'
    BY <1>2 DEF RunInv, RecordOf, Busy, Active, Effective, Ran, Runs, Key, vars, runVars
  <2> QED
    BY <1>1, <2>1, <2>2 DEF RunInv
<1> QED
  BY <1>1, <1>2, FindInv, StepInv, SaveRecordInv, CrashInv, StillInv DEF Next

\* What a record says has run, and an answered request has a record, whatever failed or crashed.
THEOREM RecordsAreTrue == Spec => []RecordedRan
<1>1. RunInv => RecordedRan
  BY Asked DEF RunInv, RunOf, RecordOf, RecordedRan
<1> QED
  BY <1>1, InitRunInv, NextRunInv, PTL DEF Spec

\* Unless two requests of a key ran side by side, all requests that had an effect have failed but one.
THEOREM OnceForAll == Spec => []OnceUnlessBeside
<1>1. RunInv => OnceUnlessBeside
  <2> SUFFICES ASSUME RunInv, NEW k \in Keys \ overlapped
               PROVE Cardinality({r \in Requests : Effective(r, k)}) <= 1
    BY DEF OnceUnlessBeside, Effective
  <2> DEFINE S == {r \in Requests : Effective(r, k)}
  <2>1. \A q, r \in S : q = r
    BY DEF RunInv, RecordOf
  <2>2. CASE S = {}
    BY <2>2, FS_EmptySet
  <2>3. CASE S # {}
    <3>1. PICK r \in S : S = {r}
      BY <2>1, <2>3
    <3>2. Cardinality({r}) = 1
      BY FS_Singleton, Zenon
    <3> QED
      BY <3>1, <3>2
  <2> QED
    BY <2>2, <2>3
<1> QED
  BY <1>1, InitRunInv, NextRunInv, PTL DEF Spec

=============================================================================
