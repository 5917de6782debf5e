------------------------ MODULE WorkspaceConfigProofs ------------------------
(***************************************************************************)
(* TLAPS proofs about WorkspaceConfig, for any requests, however they      *)
(* overlap and fail.                                                       *)
(***************************************************************************)
EXTENDS WorkspaceConfig, FiniteSetTheorems, TLAPS

CallType == [op : Ops, pc : Places, seen : Versions \cup Requests \cup {None}]

\* Only r goes on, to pc and having read seen.
Moved(r, pc, seen) ==
    /\ call' \in [Requests -> CallType]
    /\ call'[r].op = call[r].op /\ call'[r].pc = pc /\ call'[r].seen = seen
    /\ \A d \in Requests \ {r} : call'[d] = call[d]

\* The ways a request goes on.
LEMMA Moves ==
    ASSUME call \in [Requests -> CallType], NEW r \in Requests, NEW pc \in Places
    PROVE  /\ Goto(r, pc) => Moved(r, pc, call[r].seen)
           /\ \A seen \in Versions \cup Requests \cup {None} : Read(r, pc, seen) => Moved(r, pc, seen)
<1>1. ASSUME Goto(r, pc) PROVE Moved(r, pc, call[r].seen)
  BY <1>1 DEF Goto, Moved, CallType
<1>2. ASSUME NEW seen \in Versions \cup Requests \cup {None}, Read(r, pc, seen)
      PROVE  Moved(r, pc, seen)
  BY <1>2 DEF Read, Moved, CallType
<1> QED
  BY <1>1, <1>2

\* A statement that is not acknowledged is counted.
LEMMA Statements ==
    ASSUME call \in [Requests -> CallType], faults \in 0..MaxFaults, NEW r \in Requests,
           NEW o \in Outcomes, NEW next \in Places, NEW failed \in Places, Statement(r, o, next, failed)
    PROVE  /\ faults' \in 0..MaxFaults /\ faults' >= faults /\ (o # "ok" => faults' > 0)
           /\ Moved(r, IF o = "ok" THEN next ELSE failed, call[r].seen)
<1>1. faults' \in 0..MaxFaults /\ faults' >= faults /\ (o # "ok" => faults' > 0)
  BY ConfigAssumption DEF Statement
<1>2. Goto(r, IF o = "ok" THEN next ELSE failed)
  BY DEF Statement
<1> QED
  BY <1>1, <1>2, Moves

-----------------------------------------------------------------------------
(* The connection *)

LinkTypes ==
    /\ link \in [status : {"none", "connected", "disconnected", "error"}, creds : Requests \cup {None}]
    /\ link.status \in {"none", "disconnected"} => link.creds = None
    /\ keyed \in BOOLEAN

\* What a request knows of the credentials it has taken at each place.
TakenOf(r) ==
    /\ call[r].pc \in {"trying", "bad"} => call[r].op \in {"connect", "retest", "test"}
    /\ call[r].pc = "good" => call[r].op \in {"retest", "test"}
    /\ call[r].pc = "tried" => call[r].op = "connect"
    /\ call[r].pc = "audit" => call[r].op # "use"
    /\ call[r].op = "connect" /\ call[r].pc \in {"trying", "tried"} => call[r].seen = r
    /\ call[r].pc \in {"good", "tried"} => call[r].seen \in Good
    /\ At(r, "use", "ok") /\ causes = {} => call[r].seen \in Good

LinkInv ==
    /\ LinkTypes
    /\ causes = {} /\ link.status = "connected" => link.creds \in Good
    /\ \A r \in Requests : TakenOf(r)

\* There is no connection at first.
LEMMA InitLinkInv == Init => LinkInv
<1> SUFFICES ASSUME Init PROVE LinkInv
  OBVIOUS
<1>1. PICK plan \in Plans : call = [r \in Requests |-> [op |-> plan[r], pc |-> "start", seen |-> None]]
  BY DEF Init
<1>2. ASSUME NEW r \in Requests PROVE TakenOf(r)
  BY <1>1 DEF TakenOf, At
<1> QED
  BY <1>2 DEF Init, LinkInv, LinkTypes

Context ==
    /\ call \in [Requests -> CallType] /\ faults \in 0..MaxFaults
    /\ flow.current \in Versions

\* One request goes on, and if it changes the row or its result is used, rightly so.
LEMMA LinkStep ==
    ASSUME LinkInv, NEW r \in Requests, NEW pc, NEW seen, Moved(r, pc, seen), LinkTypes',
           causes \subseteq causes',
           causes' = {} /\ link'.status = "connected" => link'.creds \in Good, TakenOf(r)'
    PROVE  LinkInv'
<1>1. ASSUME NEW d \in Requests \ {r} PROVE TakenOf(d)'
  <2>1. call'[d] = call[d] /\ TakenOf(d) /\ (causes' = {} => causes = {})
    BY DEF Moved, LinkInv
  <2> QED
    BY <2>1 DEF TakenOf, At
<1> QED
  BY <1>1 DEF LinkInv

\* A request about the connection goes on from a place of its own, and leaves the workflow alone.
LinkAction(r) ==
    \/ Take(r) \/ Try(r) \/ MarkGood(r) \/ MarkBad(r) \/ Connect(r) \/ Store(r)
    \/ Disconnect(r) \/ Use(r)
Goes(r) ==
    /\ UNCHANGED <<versions, flow, audited>> /\ call[r].op \in LinkOps /\ call[r].pc \notin Over
    /\ faults' >= faults /\ faults' \in 0..MaxFaults
    /\ \E pc \in Places, seen \in Versions \cup Requests \cup {None} : Moved(r, pc, seen)

LEMMA LinkSteps ==
    ASSUME Context, LinkInv, NEW r \in Requests, LinkAction(r)
    PROVE  Goes(r) /\ LinkInv'
<1>0. /\ call \in [Requests -> CallType] /\ call[r].op \in Ops /\ call[r].pc \in Places
      /\ call[r].seen \in Versions \cup Requests \cup {None}
      /\ faults \in 0..MaxFaults /\ faults \in Nat /\ MaxFaults \in Nat
      /\ LinkTypes /\ TakenOf(r) /\ (causes = {} /\ link.status = "connected" => link.creds \in Good)
      /\ r \in Versions \cup Requests \cup {None} /\ r # None /\ None \notin Good
  BY ConfigAssumption DEF Context, CallType, LinkInv
<1>1. CASE Take(r)
  <2>1. PICK pc \in {"trying", "refused", "failed"}, seen \in {r, None, link.creds} :
          /\ Read(r, pc, seen)
          /\ call[r].op = "connect" => seen = r
    BY <1>1 DEF Take
  <2>2. Moved(r, pc, seen) /\ pc \in Places /\ seen \in Versions \cup Requests \cup {None}
    BY <1>0, <2>1, Moves DEF Places, Over, LinkTypes
  <2>3. /\ UNCHANGED <<versions, flow, link, keyed, audited, faults, causes>>
        /\ call[r].pc = "start" /\ call[r].op \in {"connect", "retest", "test"}
    BY <1>1 DEF Take
  <2>4. TakenOf(r)'
    BY <2>1, <2>2, <2>3 DEF TakenOf, At, Moved
  <2>5. LinkInv'
    BY <1>0, <2>2, <2>3, <2>4, LinkStep DEF LinkTypes
  <2> QED
    BY <1>0, <2>2, <2>3, <2>5 DEF Goes, LinkOps, Over
<1>2. CASE Try(r)
  <2>1. PICK pc \in {"failed", "bad", "good", "tried"} :
          /\ Goto(r, pc) /\ faults' \in {faults, faults + 1} /\ (faults' # faults => faults < MaxFaults)
          /\ pc \in {"good", "tried"} => call[r].seen \in Good
          /\ pc = "tried" => call[r].op = "connect"
          /\ pc = "good" => call[r].op # "connect"
          /\ pc = "bad" => call[r].op # "connect"
    BY <1>2 DEF Try
  <2>2. Moved(r, pc, call[r].seen) /\ pc \in Places
    BY <1>0, <2>1, Moves DEF Places, Over
  <2>3. /\ UNCHANGED <<versions, flow, link, keyed, audited, causes>> /\ call[r].pc = "trying"
        /\ faults' >= faults /\ faults' \in 0..MaxFaults
    BY <1>0, <1>2, <2>1 DEF Try
  <2>4. TakenOf(r)' /\ call[r].op \in {"connect", "retest", "test"}
    BY <1>0, <2>1, <2>2, <2>3 DEF TakenOf, At, Moved
  <2>5. LinkInv'
    BY <1>0, <2>2, <2>3, <2>4, LinkStep DEF LinkTypes
  <2> QED
    BY <1>0, <2>2, <2>3, <2>4, <2>5 DEF Goes, LinkOps, Over
<1>3. CASE MarkGood(r)
  <2>1. PICK o \in Outcomes :
          /\ Statement(r, o, "ok", "bad")
          /\ IF Applied(o) THEN link' = Marked("connected") /\ causes' = causes \cup Blame(r)
             ELSE UNCHANGED <<link, causes>>
    BY <1>3 DEF MarkGood
  <2> DEFINE pc == IF o = "ok" THEN "ok" ELSE "bad"
  <2>2. /\ faults' >= faults /\ faults' \in 0..MaxFaults /\ Moved(r, pc, call[r].seen)
        /\ pc \in {"ok", "bad"} /\ pc \in Places
    BY <1>0, <2>1, Statements DEF Places, Over
  <2> HIDE DEF pc
  <2>3. /\ UNCHANGED <<versions, flow, keyed, audited>> /\ call[r].pc = "good"
        /\ call[r].op \in {"retest", "test"} /\ call[r].seen \in Good
    BY <1>0, <1>3 DEF MarkGood, TakenOf
  <2>4. TakenOf(r)'
    BY <2>2, <2>3 DEF TakenOf, At, Moved
  <2>5. LinkTypes' /\ causes \subseteq causes'
    BY <1>0, <2>1, <2>3 DEF LinkTypes, Marked
  <2>6. causes' = {} /\ link'.status = "connected" => link'.creds \in Good
    <3>1. CASE ~Applied(o)
      BY <1>0, <2>1, <3>1
    <3>2. CASE Applied(o) /\ Blame(r) = {}
      <4>1. call[r].op = "test" /\ call[r].seen = link.creds
        BY <2>3, <3>2 DEF Blame
      <4> QED
        BY <1>0, <2>1, <2>3, <3>2, <4>1 DEF Marked, LinkTypes
    <3>3. CASE Applied(o) /\ Blame(r) # {}
      BY <2>1, <3>3
    <3> QED
      BY <3>1, <3>2, <3>3
  <2>7. LinkInv'
    BY <1>0, <2>2, <2>3, <2>4, <2>5, <2>6, LinkStep
  <2> QED
    BY <1>0, <2>2, <2>3, <2>7 DEF Goes, LinkOps, Over
<1>4. CASE MarkBad(r)
  <2>1. PICK o \in Outcomes :
          /\ Statement(r, o, "refused", "failed")
          /\ link' = IF Applied(o) THEN Marked("error") ELSE link
    BY <1>4 DEF MarkBad
  <2> DEFINE pc == IF o = "ok" THEN "refused" ELSE "failed"
  <2>2. /\ faults' >= faults /\ faults' \in 0..MaxFaults /\ Moved(r, pc, call[r].seen)
        /\ pc \in {"refused", "failed"} /\ pc \in Places
    BY <1>0, <2>1, Statements DEF Places, Over
  <2> HIDE DEF pc
  <2>3. /\ UNCHANGED <<versions, flow, keyed, audited, causes>> /\ call[r].pc = "bad"
        /\ call[r].op \in {"connect", "retest", "test"}
    BY <1>0, <1>4 DEF MarkBad, TakenOf
  <2>4. TakenOf(r)'
    BY <2>2, <2>3 DEF TakenOf, At, Moved
  <2>5. LinkTypes' /\ (causes' = {} /\ link'.status = "connected" => link'.creds \in Good)
    BY <1>0, <2>1, <2>3 DEF LinkTypes, Marked
  <2>6. LinkInv'
    BY <1>0, <2>2, <2>3, <2>4, <2>5, LinkStep
  <2> QED
    BY <1>0, <2>2, <2>3, <2>6 DEF Goes, LinkOps, Over
<1>5. CASE Connect(r)
  <2>1. PICK o \in Outcomes :
          /\ Statement(r, o, "audit", "failed")
          /\ link' = IF Applied(o) THEN [status |-> "connected", creds |-> r] ELSE link
    BY <1>5 DEF Connect
  <2> DEFINE pc == IF o = "ok" THEN "audit" ELSE "failed"
  <2>2. /\ faults' >= faults /\ faults' \in 0..MaxFaults /\ Moved(r, pc, call[r].seen)
        /\ pc \in {"audit", "failed"} /\ pc \in Places
    BY <1>0, <2>1, Statements DEF Places, Over
  <2> HIDE DEF pc
  <2>3. /\ UNCHANGED <<versions, flow, keyed, audited, causes>> /\ call[r].pc = "tried"
        /\ call[r].op = "connect" /\ r \in Good
    BY <1>0, <1>5 DEF Connect, Ready, TakenOf
  <2>4. TakenOf(r)'
    BY <2>2, <2>3 DEF TakenOf, At, Moved
  <2>5. LinkTypes' /\ (causes' = {} /\ link'.status = "connected" => link'.creds \in Good)
    BY <1>0, <2>1, <2>3 DEF LinkTypes
  <2>6. LinkInv'
    BY <1>0, <2>2, <2>3, <2>4, <2>5, LinkStep
  <2> QED
    BY <1>0, <2>2, <2>3, <2>6 DEF Goes, LinkOps, Over
<1>6. CASE Store(r)
  <2>1. /\ UNCHANGED <<versions, flow, keyed, audited>> /\ call[r].pc = "start" /\ call[r].op = "store"
    BY <1>6 DEF Store, At
  <2>2. PICK creds \in {r, None} :
          IF Sealed(creds) THEN Goto(r, "failed") /\ UNCHANGED <<link, faults, causes>>
          ELSE \E o \in Outcomes :
              /\ Statement(r, o, "audit", "failed")
              /\ IF Applied(o)
                 THEN link' = [status |-> "connected", creds |-> creds] /\ causes' = causes \cup {"untried"}
                 ELSE UNCHANGED <<link, causes>>
    BY <1>6 DEF Store
  <2>3. PICK pc \in {"audit", "failed"} :
          /\ faults' >= faults /\ faults' \in 0..MaxFaults /\ Moved(r, pc, call[r].seen)
    <3>1. CASE Sealed(creds)
      BY <1>0, <2>2, <3>1, Moves DEF Places, Over
    <3>2. CASE ~Sealed(creds)
      <4>1. PICK o \in Outcomes : Statement(r, o, "audit", "failed")
        BY <2>2, <3>2
      <4> QED
        BY <1>0, <4>1, Statements DEF Places, Over
    <3> QED
      BY <3>1, <3>2
  <2>4. TakenOf(r)' /\ pc \in Places
    BY <2>1, <2>3 DEF TakenOf, At, Moved, Places, Over
  <2>5. /\ LinkTypes' /\ causes \subseteq causes'
        /\ causes' = {} /\ link'.status = "connected" => link'.creds \in Good
    BY <1>0, <2>1, <2>2 DEF LinkTypes
  <2>6. LinkInv'
    BY <1>0, <2>3, <2>4, <2>5, LinkStep
  <2> QED
    BY <1>0, <2>1, <2>3, <2>4, <2>6 DEF Goes, LinkOps, Over
<1>7. CASE Disconnect(r)
  <2>1. PICK o \in Outcomes :
          /\ Statement(r, o, "audit", "failed")
          /\ link' = IF Applied(o) /\ link.status # "none" THEN Disconnected ELSE link
    BY <1>7 DEF Disconnect
  <2> DEFINE pc == IF o = "ok" THEN "audit" ELSE "failed"
  <2>2. /\ faults' >= faults /\ faults' \in 0..MaxFaults /\ Moved(r, pc, call[r].seen)
        /\ pc \in {"audit", "failed"} /\ pc \in Places
    BY <1>0, <2>1, Statements DEF Places, Over
  <2> HIDE DEF pc
  <2>3. /\ UNCHANGED <<versions, flow, keyed, audited, causes>> /\ call[r].pc = "start"
        /\ call[r].op = "disconnect"
    BY <1>7 DEF Disconnect, At
  <2>4. TakenOf(r)'
    BY <2>2, <2>3 DEF TakenOf, At, Moved
  <2>5. LinkTypes' /\ (causes' = {} /\ link'.status = "connected" => link'.creds \in Good)
    BY <1>0, <2>1, <2>3 DEF LinkTypes, Disconnected
  <2>6. LinkInv'
    BY <1>0, <2>2, <2>3, <2>4, <2>5, LinkStep
  <2> QED
    BY <1>0, <2>2, <2>3, <2>6 DEF Goes, LinkOps, Over
<1>8. CASE Use(r)
  <2>1. PICK pc \in {"refused", "failed", "ok"}, seen \in {None, link.creds} :
          /\ Read(r, pc, seen)
          /\ pc = "ok" => seen = link.creds /\ link.status = "connected"
    BY <1>8 DEF Use
  <2>2. Moved(r, pc, seen) /\ pc \in Places /\ seen \in Versions \cup Requests \cup {None}
    BY <1>0, <2>1, Moves DEF Places, Over, LinkTypes
  <2>3. /\ UNCHANGED <<versions, flow, link, keyed, audited, faults, causes>>
        /\ call[r].pc = "start" /\ call[r].op = "use"
    BY <1>8 DEF Use, At
  <2>4. TakenOf(r)'
    BY <1>0, <2>1, <2>2, <2>3 DEF TakenOf, At, Moved
  <2>5. LinkInv'
    BY <1>0, <2>2, <2>3, <2>4, LinkStep DEF LinkTypes
  <2> QED
    BY <1>0, <2>2, <2>3, <2>5 DEF Goes, LinkOps, Over
<1> QED
  BY <1>1, <1>2, <1>3, <1>4, <1>5, <1>6, <1>7, <1>8 DEF LinkAction

-----------------------------------------------------------------------------
(* Versions *)

VersionTypes ==
    /\ versions \in [Versions -> Requests \cup {None}]
    /\ flow \in [status : {"none", "draft", "published", "disabled"}, current : Versions]
    /\ call \in [Requests -> CallType]
    /\ audited \subseteq {r \in Requests : call[r].pc \in Over}
    /\ faults \in 0..MaxFaults

\* Version v was written by the creation, or by a save that had read the version before it; it is
\* there when the workflow has reached it, and can be ahead of it by one.
VersionOf(v) ==
    /\ flow.status = "none" => versions[v] = None
    /\ flow.status # "none" /\ v <= flow.current => versions[v] # None
    /\ versions[v] # None =>
        \/ v = 1 /\ call[versions[v]].op = "create"
        \/ call[versions[v]].op = "save" /\ call[versions[v]].seen + 1 = v
    /\ versions[v] # None =>
        call[versions[v]].pc \in {"inserted", "audit", "ok", "failed"}
    /\ v > flow.current /\ versions[v] # None =>
        /\ v = flow.current + 1
        /\ call[versions[v]].pc = "inserted" \/ (call[versions[v]].pc = "failed" /\ faults > 0)

\* What a save knows of its version at each place.
SaveOf(r) ==
    /\ call[r].op \in {"save", "publish", "disable"} /\ call[r].pc \in {"found", "inserted", "checked"} =>
        flow.status # "none" /\ call[r].seen \in Versions /\ call[r].seen <= flow.current
    /\ call[r].op = "save" /\ call[r].pc = "inserted" =>
        /\ call[r].seen = flow.current /\ flow.current + 1 \in Versions
        /\ versions[flow.current + 1] = r
    /\ call[r].op = "save" /\ (call[r].pc = "audit" \/ r \in audited) =>
        /\ call[r].seen \in Versions /\ call[r].seen + 1 \in Versions
        /\ versions[call[r].seen + 1] = r /\ flow.current > call[r].seen

VersionInv ==
    /\ VersionTypes
    /\ flow.status = "none" => flow.current = 1
    /\ \A v \in Versions : VersionOf(v)
    /\ \A r \in Requests : SaveOf(r)

\* Versions are numbers from 1.
LEMMA VersionNumbers ==
    /\ \A v \in Versions : v \in Nat /\ v >= 1
    /\ 1 \in Versions /\ Cardinality(Requests) \in Nat
    /\ \A v \in Versions, w \in Nat : 1 <= w /\ w <= v => w \in Versions
    /\ \A v \in Nat : 1 <= v /\ v <= Cardinality(Requests) + 1 => v \in Versions
<1>1. Cardinality(Requests) \in Nat
  BY ConfigAssumption, FS_CardinalityType
<1> QED
  BY <1>1 DEF Versions

\* There is no workflow at first.
LEMMA InitVersionInv == Init => VersionInv
<1> SUFFICES ASSUME Init PROVE VersionInv
  OBVIOUS
<1>1. PICK plan \in Plans : call = [r \in Requests |-> [op |-> plan[r], pc |-> "start", seen |-> None]]
  BY DEF Init
<1>2. call \in [Requests -> CallType] /\ \A r \in Requests : call[r].pc = "start"
  BY <1>1, ConfigAssumption DEF CallType, Places
<1>3. VersionTypes
  BY <1>2, VersionNumbers, ConfigAssumption DEF Init, VersionTypes
<1>4. \A v \in Versions : VersionOf(v)
  BY VersionNumbers DEF Init, VersionOf
<1>5. \A r \in Requests : SaveOf(r)
  BY <1>2 DEF Init, SaveOf
<1> QED
  BY <1>3, <1>4, <1>5 DEF Init, VersionInv

\* A save that has found version n of n has room for another: the versions so far were written by
\* as many other requests.
LEMMA Room ==
    ASSUME VersionInv, NEW r \in Requests, At(r, "save", "found")
    PROVE  call[r].seen + 1 \in Versions
<1> DEFINE n == flow.current
           f == [v \in 1..n |-> versions[v]]
           others == Requests \ {r}
<1>1. /\ n \in Versions /\ n \in Nat /\ n >= 1 /\ flow.status # "none"
      /\ call[r].seen \in Nat /\ call[r].seen <= n
  BY VersionNumbers DEF VersionInv, VersionTypes, SaveOf, At, Versions
<1>2. ASSUME NEW v \in 1..n
      PROVE  /\ v \in Versions /\ versions[v] \in others
             /\ \/ v = 1 /\ call[versions[v]].op = "create"
                \/ call[versions[v]].op = "save" /\ call[versions[v]].seen + 1 = v
  <2>1. v \in Versions /\ v <= n
    BY <1>1, VersionNumbers
  <2>2. versions[v] # None /\ versions[v] \in Requests
    BY <1>1, <2>1 DEF VersionInv, VersionTypes, VersionOf
  <2>3. versions[v] # r
    BY <2>1, <2>2 DEF VersionInv, VersionOf, At
  <2> QED
    BY <2>1, <2>2, <2>3 DEF VersionInv, VersionOf
<1>3. f \in Injection(1..n, others)
  BY <1>2 DEF Injection, IsInjective
<1>4. IsFiniteSet(others) /\ Cardinality(others) = Cardinality(Requests) - 1
  BY ConfigAssumption, FS_RemoveElement
<1>5. Cardinality(1..n) <= Cardinality(others)
  BY <1>3, <1>4, FS_Injection
<1>6. Cardinality(1..n) = n
  BY <1>1, FS_Interval
<1> QED
  BY <1>1, <1>4, <1>5, <1>6, VersionNumbers

Written == {"inserted", "audit", "ok", "failed"}

\* A request that has written a version keeps its name on it, and one that is about to make it
\* current is stopped by faults only.
Keeps(r) ==
    /\ call[r].op \in {"create", "save"} /\ call[r].pc \in Written =>
        call'[r].pc \in Written /\ call'[r].seen = call[r].seen
    /\ call[r].op = "save" /\ call[r].pc = "inserted" =>
        call'[r].pc = "inserted" \/ (call'[r].pc = "failed" /\ faults' > 0)
    /\ call[r].pc = "failed" => call'[r].pc = "failed"

\* Requests go on without writing a version or making it current.
LEMMA NothingWritten ==
    ASSUME VersionInv, VersionTypes', versions' = versions, flow'.current = flow.current,
           flow'.status = "none" <=> flow.status = "none", faults' >= faults,
           \A r \in Requests : call'[r].op = call[r].op /\ Keeps(r) /\ SaveOf(r)'
    PROVE  VersionInv'
<1>1. ASSUME NEW v \in Versions PROVE VersionOf(v)'
  <2>1. VersionOf(v) /\ faults \in Nat /\ faults' \in Nat
    BY ConfigAssumption DEF VersionInv, VersionTypes
  <2>2. versions[v] # None => versions[v] \in Requests
    BY DEF VersionInv, VersionTypes
  <2>3. flow.current \in Nat /\ flow.current >= 1 /\ v \in Nat
    BY VersionNumbers DEF VersionInv, VersionTypes
  <2>4. v > flow.current /\ versions[v] # None => call[versions[v]].op = "save"
    BY <2>1, <2>3 DEF VersionOf
  <2>5. CASE versions[v] = None
    BY <2>1, <2>5 DEF VersionOf
  <2>6. CASE versions[v] # None
    <3> DEFINE q == versions[v]
    <3>1. q \in Requests /\ call'[q].op = call[q].op /\ Keeps(q)
      BY <2>2, <2>6
    <3>2. call[q].op \in {"create", "save"} /\ call[q].pc \in Written
      BY <2>1, <2>6 DEF VersionOf, Written
    <3>3. call'[q].pc \in Written /\ call'[q].seen = call[q].seen
      BY <3>1, <3>2 DEF Keeps
    <3>4. v > flow.current =>
            /\ v = flow.current + 1
            /\ call'[q].pc = "inserted" \/ (call'[q].pc = "failed" /\ faults' > 0)
      <4> SUFFICES ASSUME v > flow.current
                   PROVE /\ v = flow.current + 1
                         /\ call'[q].pc = "inserted" \/ (call'[q].pc = "failed" /\ faults' > 0)
        OBVIOUS
      <4>1. /\ v = flow.current + 1 /\ call[q].op = "save"
            /\ call[q].pc = "inserted" \/ (call[q].pc = "failed" /\ faults > 0)
        BY <2>1, <2>4, <2>6 DEF VersionOf
      <4>2. faults > 0 => faults' > 0
        BY <2>1
      <4> QED
        BY <3>1, <4>1, <4>2 DEF Keeps
    <3>5. flow.status # "none"
      BY <2>1, <2>6 DEF VersionOf
    <3>6. \/ v = 1 /\ call'[q].op = "create"
          \/ call'[q].op = "save" /\ call'[q].seen + 1 = v
      BY <2>1, <2>6, <3>1, <3>3 DEF VersionOf
    <3>7. call'[q].pc \in {"inserted", "audit", "ok", "failed"}
      BY <3>3 DEF Written
    <3>8. versions'[v] = q /\ q # None /\ flow'.status # "none" /\ flow'.current = flow.current
      BY <2>6, <3>5
    <3> HIDE DEF q
    <3>9. /\ flow'.status = "none" => versions'[v] = None
          /\ flow'.status # "none" /\ v <= flow'.current => versions'[v] # None
      BY <3>8
    <3>10. versions'[v] # None =>
            \/ v = 1 /\ call'[versions'[v]].op = "create"
            \/ call'[versions'[v]].op = "save" /\ call'[versions'[v]].seen + 1 = v
      BY <3>6, <3>8
    <3>11. versions'[v] # None => call'[versions'[v]].pc \in {"inserted", "audit", "ok", "failed"}
      BY <3>7, <3>8
    <3>12. v > flow'.current /\ versions'[v] # None =>
            /\ v = flow'.current + 1
            /\ call'[versions'[v]].pc = "inserted" \/ (call'[versions'[v]].pc = "failed" /\ faults' > 0)
      BY <3>4, <3>8
    <3> QED
      BY <3>9, <3>10, <3>11, <3>12 DEF VersionOf
  <2> QED
    BY <2>5, <2>6
<1> QED
  BY <1>1 DEF VersionInv

\* One request goes on without writing a version or making it current.
LEMMA Aside ==
    ASSUME VersionInv, NEW r \in Requests, NEW pc \in Places, NEW seen, Moved(r, pc, seen),
           versions' = versions, flow'.current = flow.current,
           flow' \in [status : {"none", "draft", "published", "disabled"}, current : Versions],
           flow'.status = "none" <=> flow.status = "none",
           faults' >= faults, faults' \in 0..MaxFaults,
           call[r].pc \notin Over, audited' \subseteq audited \cup {r}, r \in audited' => pc \in Over,
           Keeps(r), SaveOf(r)'
    PROVE  VersionInv'
<1>1. VersionTypes'
  BY DEF VersionInv, VersionTypes, Moved
<1>2. ASSUME NEW d \in Requests \ {r} PROVE SaveOf(d)'
  BY DEF VersionInv, SaveOf, Moved
<1>3. ASSUME NEW d \in Requests PROVE call'[d].op = call[d].op /\ Keeps(d)
  <2>1. CASE d # r
    <3>1. call'[d] = call[d]
      BY <2>1 DEF Moved
    <3> QED
      BY <3>1 DEF Keeps
  <2>2. CASE d = r
    BY <2>2 DEF Moved
  <2> QED
    BY <2>1, <2>2
<1>4. \A d \in Requests : call'[d].op = call[d].op /\ Keeps(d) /\ SaveOf(d)'
  BY <1>2, <1>3
<1> QED
  BY <1>1, <1>4, NothingWritten

\* The creation writes version 1.
LEMMA CreateVersionInv == ASSUME VersionInv, NEW r \in Requests, Create(r) PROVE VersionInv'
<1>1. PICK o \in Outcomes :
        /\ Statement(r, o, "audit", "failed")
        /\ IF Applied(o)
           THEN /\ flow' = [status |-> "draft", current |-> 1]
                /\ versions' = [versions EXCEPT ![1] = r]
           ELSE UNCHANGED <<flow, versions>>
  BY DEF Create
<1> DEFINE pc == IF o = "ok" THEN "audit" ELSE "failed"
<1>2. /\ call[r].op = "create" /\ call[r].pc = "start" /\ flow.status = "none" /\ audited' = audited
      /\ faults' >= faults /\ faults' \in 0..MaxFaults
      /\ Moved(r, pc, call[r].seen) /\ pc \in {"audit", "failed"} /\ pc \in Places
  BY <1>1, Statements DEF Create, At, VersionInv, VersionTypes, Places, Over
<1>3. call[r].pc \notin Over /\ r \notin audited
  BY <1>2 DEF VersionInv, VersionTypes, Over
<1> HIDE DEF pc
<1>4. CASE ~Applied(o)
  <2>1. Keeps(r) /\ SaveOf(r)'
    BY <1>2 DEF Keeps, SaveOf, Written, Moved
  <2> QED
    BY <1>1, <1>2, <1>3, <1>4, <2>1, Aside DEF VersionInv, VersionTypes
<1>5. CASE Applied(o)
  <2>1. /\ flow' = [status |-> "draft", current |-> 1]
        /\ versions' = [versions EXCEPT ![1] = r]
        /\ \A v \in Versions : versions[v] = None
    BY <1>1, <1>2, <1>5 DEF VersionInv, VersionOf
  <2>2. VersionTypes'
    BY <1>2, <1>3, <2>1, VersionNumbers DEF VersionInv, VersionTypes, Moved
  <2>3. ASSUME NEW v \in Versions PROVE VersionOf(v)'
    <3>1. versions'[v] = IF v = 1 THEN r ELSE None
      BY <2>1 DEF VersionInv, VersionTypes
    <3> QED
      BY <1>2, <2>1, <3>1, VersionNumbers, ConfigAssumption DEF VersionOf, Moved
  <2>4. ASSUME NEW d \in Requests PROVE SaveOf(d)'
    <3>1. CASE d = r
      BY <1>2, <3>1 DEF SaveOf, Moved
    <3>2. CASE d # r
      <4>1. /\ call'[d] = call[d] /\ SaveOf(d)
            /\ \A v \in Versions : versions[v] # d
        BY <1>2, <2>1, <3>2, ConfigAssumption DEF Moved, VersionInv
      <4>2. /\ ~(call[d].op = "save" /\ (call[d].pc = "audit" \/ d \in audited))
            /\ ~(call[d].op = "save" /\ call[d].pc = "inserted")
            /\ call[d].op \in {"save", "publish", "disable"} =>
                call[d].pc \notin {"found", "inserted", "checked"}
        BY <1>2, <4>1 DEF SaveOf
      <4> QED
        BY <1>2, <4>1, <4>2 DEF SaveOf
    <3> QED
      BY <3>1, <3>2
  <2> QED
    BY <2>1, <2>2, <2>3, <2>4 DEF VersionInv
<1> QED
  BY <1>4, <1>5

\* A save writes the version after the one it has read, if no other save has.
LEMMA InsertVersionInv == ASSUME VersionInv, NEW r \in Requests, InsertVersion(r) PROVE VersionInv'
<1> DEFINE next == call[r].seen + 1
<1>1. /\ call[r].op = "save" /\ call[r].pc = "found" /\ audited' = audited /\ flow' = flow
      /\ next \in Versions /\ call[r].seen <= flow.current /\ flow.status # "none"
      /\ call[r].seen \in Nat /\ flow.current \in Nat
  BY Room, VersionNumbers DEF InsertVersion, At, VersionInv, VersionTypes, SaveOf
<1>2. call[r].pc \notin Over /\ r \notin audited /\ Keeps(r)
  BY <1>1 DEF VersionInv, VersionTypes, Over, Keeps, Written
<1>3. CASE Taken(next)
  <2>1. Goto(r, "failed") /\ versions' = versions /\ faults' = faults
    BY <1>3 DEF InsertVersion
  <2>2. Moved(r, "failed", call[r].seen) /\ "failed" \in Places
    BY <2>1, Moves DEF VersionInv, VersionTypes, Places, Over
  <2>3. SaveOf(r)'
    BY <1>1, <1>2, <2>2 DEF SaveOf, Moved
  <2> QED
    BY <1>1, <1>2, <2>1, <2>2, <2>3, Aside, ConfigAssumption DEF VersionInv, VersionTypes
<1>4. CASE ~Taken(next)
  <2>1. PICK o \in Outcomes :
          /\ Statement(r, o, "inserted", "failed")
          /\ versions' = IF Applied(o) THEN [versions EXCEPT ![next] = r] ELSE versions
    BY <1>4 DEF InsertVersion
  <2> DEFINE pc == IF o = "ok" THEN "inserted" ELSE "failed"
  <2>2. /\ faults' >= faults /\ faults' \in 0..MaxFaults /\ pc \in Places
        /\ Moved(r, pc, call[r].seen)
        /\ pc = "inserted" \/ (pc = "failed" /\ faults' > 0)
        /\ ~Applied(o) => pc = "failed"
    BY <2>1, Statements DEF VersionInv, VersionTypes, Places, Over, Applied
  <2> HIDE DEF pc
  <2>3. CASE ~Applied(o)
    <3>1. SaveOf(r)' /\ versions' = versions
      BY <1>1, <1>2, <2>1, <2>2, <2>3 DEF SaveOf, Moved
    <3> QED
      BY <1>1, <1>2, <2>2, <2>3, <3>1, Aside DEF VersionInv, VersionTypes
  <2>4. CASE Applied(o)
    <3>1. versions' = [versions EXCEPT ![next] = r] /\ versions[next] = None
      BY <1>4, <2>1, <2>4 DEF Taken
    <3>2. call[r].seen = flow.current
      BY <1>1, <3>1 DEF VersionInv, VersionOf
    <3>3. VersionTypes'
      BY <1>1, <1>2, <2>2, <3>1 DEF VersionInv, VersionTypes, Moved
    <3>4. ASSUME NEW v \in Versions PROVE VersionOf(v)'
      <4>1. CASE v = next
        <5>1. versions'[v] = r
          BY <1>1, <3>1, <4>1 DEF VersionInv, VersionTypes
        <5> QED
          BY <1>1, <2>2, <3>2, <4>1, <5>1 DEF VersionOf, Moved
      <4>2. CASE v # next
        <5>1. VersionOf(v) /\ versions'[v] = versions[v] /\ v \in Nat
          BY <3>1, <4>2, VersionNumbers DEF VersionInv, VersionTypes
        <5>2. versions[v] # None => versions[v] \in Requests \ {r}
          BY <1>1, <5>1 DEF VersionInv, VersionTypes, VersionOf
        <5>3. versions[v] # None => call'[versions[v]] = call[versions[v]]
          BY <2>2, <5>2 DEF Moved
        <5> QED
          BY <1>1, <3>2, <4>2, <5>1, <5>3 DEF VersionOf
      <4> QED
        BY <4>1, <4>2
    <3>5. ASSUME NEW d \in Requests PROVE SaveOf(d)'
      <4>1. CASE d = r
        <5>1. versions'[next] = r
          BY <1>1, <3>1 DEF VersionInv, VersionTypes
        <5> QED
          BY <1>1, <1>2, <2>2, <3>2, <4>1, <5>1, <3>3, VersionNumbers DEF SaveOf, Moved, VersionInv, VersionTypes
      <4>2. CASE d # r
        <5>1. /\ call'[d] = call[d] /\ SaveOf(d) /\ d # None
              /\ \A v \in Versions : versions[v] = d => versions'[v] = d
          BY <2>2, <3>1, <4>2, ConfigAssumption DEF Moved, VersionInv, VersionTypes
        <5> QED
          BY <1>1, <3>1, <3>2, <5>1 DEF SaveOf
      <4> QED
        BY <4>1, <4>2
    <3> QED
      BY <1>1, <3>3, <3>4, <3>5 DEF VersionInv
  <2> QED
    BY <2>3, <2>4
<1> QED
  BY <1>3, <1>4

\* A save makes the version it has written current, which is the one after the current one.
LEMMA UpdateVersionInv == ASSUME VersionInv, NEW r \in Requests, UpdateVersion(r) PROVE VersionInv'
<1>1. PICK o \in Outcomes :
        /\ Statement(r, o, "audit", "failed")
        /\ flow' = IF Applied(o) THEN [flow EXCEPT !.current = call[r].seen + 1] ELSE flow
  BY DEF UpdateVersion
<1> DEFINE pc == IF o = "ok" THEN "audit" ELSE "failed"
<1>2. /\ call[r].op = "save" /\ call[r].pc = "inserted" /\ audited' = audited /\ versions' = versions
      /\ call[r].seen = flow.current /\ flow.current + 1 \in Versions
      /\ versions[flow.current + 1] = r /\ flow.status # "none"
      /\ flow.current \in Nat
  BY VersionNumbers DEF UpdateVersion, At, VersionInv, VersionTypes, SaveOf
<1>3. /\ faults' >= faults /\ faults' \in 0..MaxFaults /\ pc \in Places
      /\ Moved(r, pc, call[r].seen) /\ pc \in {"audit", "failed"}
      /\ ~Applied(o) => pc = "failed" /\ faults' > 0
  BY <1>1, Statements DEF VersionInv, VersionTypes, Places, Over, Applied
<1>4. call[r].pc \notin Over /\ r \notin audited
  BY <1>2 DEF VersionInv, VersionTypes, Over
<1> HIDE DEF pc
<1>5. CASE ~Applied(o)
  <2>1. SaveOf(r)' /\ Keeps(r) /\ flow' = flow
    BY <1>1, <1>2, <1>3, <1>4, <1>5 DEF SaveOf, Keeps, Written, Moved
  <2> QED
    BY <1>2, <1>3, <1>4, <1>5, <2>1, Aside DEF VersionInv, VersionTypes
<1>6. CASE Applied(o)
  <2>1. /\ flow'.current = flow.current + 1 /\ flow'.status = flow.status
        /\ flow' \in [status : {"none", "draft", "published", "disabled"}, current : Versions]
    BY <1>1, <1>2, <1>6 DEF VersionInv, VersionTypes
  <2>2. VersionTypes'
    BY <1>2, <1>3, <1>4, <2>1 DEF VersionInv, VersionTypes, Moved
  <2>3. ASSUME NEW v \in Versions PROVE VersionOf(v)'
    <3>1. VersionOf(v) /\ v \in Nat
      BY VersionNumbers DEF VersionInv
    <3>2. CASE versions[v] = r
      <4>1. r # None /\ v = flow.current + 1
        BY <1>2, <3>1, <3>2, ConfigAssumption DEF VersionOf
      <4>2. call'[r].op = "save" /\ call'[r].seen + 1 = v /\ call'[r].pc \in {"audit", "failed"}
        BY <1>2, <1>3, <4>1 DEF Moved
      <4>3. versions'[v] = r /\ flow'.current = v /\ flow'.status # "none"
        BY <1>2, <2>1, <3>2, <4>1
      <4> QED
        BY <3>1, <4>1, <4>2, <4>3 DEF VersionOf
    <3>3. CASE versions[v] # r
      <4>1. versions[v] # None => call'[versions[v]] = call[versions[v]]
        BY <1>3, <3>3 DEF VersionInv, VersionTypes, Moved
      <4>2. v # flow.current + 1
        BY <1>2, <3>3
      <4> QED
        BY <1>2, <2>1, <3>1, <4>1, <4>2 DEF VersionOf
    <3> QED
      BY <3>2, <3>3
  <2>4. ASSUME NEW d \in Requests PROVE SaveOf(d)'
    <3>1. CASE d = r
      BY <1>2, <1>3, <1>4, <2>1, <3>1 DEF SaveOf, Moved, VersionInv, VersionTypes
    <3>2. CASE d # r
      <4>1. call'[d] = call[d] /\ SaveOf(d)
        BY <1>3, <3>2 DEF Moved, VersionInv
      <4>2. call[d].seen \in Versions => call[d].seen \in Nat
        BY VersionNumbers
      <4>3. ~(call[d].op = "save" /\ call[d].pc = "inserted")
        BY <1>2, <3>2, <4>1 DEF SaveOf
      <4> QED
        BY <1>2, <2>1, <3>2, <4>1, <4>2, <4>3 DEF SaveOf
    <3> QED
      BY <3>1, <3>2
  <2> QED
    BY <1>2, <2>1, <2>2, <2>3, <2>4 DEF VersionInv
<1> QED
  BY <1>5, <1>6

\* The steps that write no version; those of the connection leave the workflow alone.
LEMMA AsideVersionInv ==
    ASSUME VersionInv, LinkInv, NEW r \in Requests,
           \/ Audit(r) \/ FindWorkflow(r) \/ FindDefinition(r) \/ UpdateStatus(r)
           \/ LinkAction(r)
    PROVE  VersionInv'
<1>0. /\ VersionTypes /\ SaveOf(r) /\ call[r].op \in Ops /\ call[r].pc \in Places
      /\ faults \in 0..MaxFaults /\ faults \in Nat
      /\ flow \in [status : {"none", "draft", "published", "disabled"}, current : Versions]
      /\ call \in [Requests -> CallType] /\ (r \in audited => call[r].pc \in Over)
      /\ r \in Versions \cup Requests \cup {None}
  BY ConfigAssumption DEF VersionInv, VersionTypes, CallType
<1>1. CASE Audit(r)
  <2>1. PICK o \in Outcomes :
          /\ Statement(r, o, "ok", "failed")
          /\ audited' = IF Applied(o) THEN audited \cup {r} ELSE audited
    BY <1>1 DEF Audit
  <2> DEFINE pc == IF o = "ok" THEN "ok" ELSE "failed"
  <2>2. /\ faults' >= faults /\ faults' \in 0..MaxFaults /\ Moved(r, pc, call[r].seen)
        /\ pc \in {"ok", "failed"} /\ pc \in Places /\ pc \in Over
    BY <1>0, <2>1, Statements DEF Places, Over
  <2> HIDE DEF pc
  <2>3. /\ call[r].pc = "audit" /\ call[r].pc \notin Over /\ versions' = versions /\ flow' = flow
        /\ audited' \subseteq audited \cup {r}
    BY <1>1, <2>1 DEF Audit, Over
  <2>4. Keeps(r) /\ SaveOf(r)'
    BY <1>0, <2>2, <2>3 DEF Keeps, Written, SaveOf, Moved
  <2> QED
    BY <1>0, <2>2, <2>3, <2>4, Aside
<1>2. CASE FindWorkflow(r)
  <2>1. PICK pc \in {"refused", "found"}, seen \in Versions \cup {None} :
          /\ Read(r, pc, seen)
          /\ pc = "found" => seen = flow.current /\ flow.status # "none"
    BY <1>0, <1>2 DEF FindWorkflow
  <2>2. Moved(r, pc, seen) /\ pc \in Places
    BY <1>0, <2>1, Moves DEF Places, Over
  <2>3. /\ call[r].pc = "start" /\ call[r].pc \notin Over /\ UNCHANGED <<versions, flow, audited, faults>>
    BY <1>2 DEF FindWorkflow, Over
  <2>4. flow.current \in Nat /\ faults' >= faults
    BY <1>0, <2>3, VersionNumbers
  <2>5. Keeps(r) /\ SaveOf(r)'
    BY <1>0, <2>1, <2>2, <2>3, <2>4 DEF Keeps, Written, SaveOf, Moved
  <2> QED
    BY <1>0, <2>2, <2>3, <2>4, <2>5, Aside
<1>3. CASE FindDefinition(r)
  <2>1. PICK pc \in {"refused", "checked"} : Goto(r, pc)
    BY <1>3 DEF FindDefinition
  <2>2. Moved(r, pc, call[r].seen) /\ pc \in Places
    BY <1>0, <2>1, Moves DEF Places, Over
  <2>3. /\ call[r].op = "publish" /\ call[r].pc = "found" /\ call[r].pc \notin Over
        /\ UNCHANGED <<versions, flow, audited, faults>>
    BY <1>3 DEF FindDefinition, At, Over
  <2>4. Keeps(r) /\ SaveOf(r)' /\ faults' >= faults
    BY <1>0, <2>2, <2>3 DEF Keeps, SaveOf, Moved
  <2> QED
    BY <1>0, <2>2, <2>3, <2>4, Aside
<1>4. CASE UpdateStatus(r)
  <2>1. PICK o \in Outcomes :
          /\ Statement(r, o, "audit", "failed")
          /\ flow' = IF Applied(o)
                     THEN [flow EXCEPT !.status = IF call[r].op = "publish" THEN "published" ELSE "disabled"]
                     ELSE flow
    BY <1>4 DEF UpdateStatus
  <2> DEFINE pc == IF o = "ok" THEN "audit" ELSE "failed"
  <2>2. /\ faults' >= faults /\ faults' \in 0..MaxFaults /\ Moved(r, pc, call[r].seen)
        /\ pc \in {"audit", "failed"} /\ pc \in Places
    BY <1>0, <2>1, Statements DEF Places, Over
  <2> HIDE DEF pc
  <2>3. /\ call[r].op \in {"publish", "disable"} /\ call[r].pc \in {"found", "checked"}
        /\ UNCHANGED <<versions, audited>>
    BY <1>4 DEF UpdateStatus, At
  <2>4. /\ flow.status # "none" /\ flow'.current = flow.current /\ flow'.status # "none"
        /\ flow' \in [status : {"none", "draft", "published", "disabled"}, current : Versions]
    BY <1>0, <2>1, <2>3 DEF SaveOf
  <2>5. Keeps(r) /\ SaveOf(r)' /\ call[r].pc \notin Over
    BY <1>0, <2>2, <2>3, <2>4 DEF Keeps, SaveOf, Moved, Over
  <2> QED
    BY <1>0, <2>2, <2>3, <2>4, <2>5, Aside
<1>5. CASE LinkAction(r)
  <2>1. /\ UNCHANGED <<versions, flow, audited>> /\ call[r].op \in LinkOps /\ call[r].pc \notin Over
        /\ faults' >= faults /\ faults' \in 0..MaxFaults
        /\ \E pc \in Places, seen \in Versions \cup Requests \cup {None} : Moved(r, pc, seen)
    BY <1>0, <1>5, LinkSteps DEF Context, Goes
  <2>2. PICK pc \in Places, seen \in Versions \cup Requests \cup {None} : Moved(r, pc, seen)
    BY <2>1
  <2>3. Keeps(r) /\ SaveOf(r)'
    BY <1>0, <2>1, <2>2 DEF Keeps, SaveOf, Moved, LinkOps, Over
  <2> QED
    BY <1>0, <2>1, <2>2, <2>3, Aside
<1> QED
  BY <1>1, <1>2, <1>3, <1>4, <1>5

-----------------------------------------------------------------------------
Inv == VersionInv /\ LinkInv

\* A crash ends every request under way.
LEMMA CrashInv == Inv /\ Crash => Inv'
<1> SUFFICES ASSUME Inv, Crash PROVE Inv'
  OBVIOUS
<1> DEFINE Idle == Over \cup {"start"}
<1>0. VersionTypes /\ LinkTypes /\ call \in [Requests -> CallType] /\ faults \in Nat /\ MaxFaults \in Nat
  BY ConfigAssumption DEF Inv, VersionInv, LinkInv, VersionTypes
<1>1. /\ UNCHANGED <<versions, flow, link, keyed, audited, causes>>
      /\ faults' = faults + 1 /\ faults' \in 0..MaxFaults
      /\ call' = [r \in Requests |-> IF call[r].pc \in Idle THEN call[r] ELSE [call[r] EXCEPT !.pc = "failed"]]
  BY <1>0 DEF Crash, VersionTypes
<1>2. ASSUME NEW r \in Requests
      PROVE  /\ call'[r] \in CallType /\ call'[r].op = call[r].op /\ call'[r].seen = call[r].seen
             /\ call'[r].pc = IF call[r].pc \in Idle THEN call[r].pc ELSE "failed"
  BY <1>0, <1>1 DEF CallType, Places, Over
<1>3. call' \in [Requests -> CallType]
  BY <1>1, <1>2
<1>4. VersionTypes'
  BY <1>0, <1>1, <1>2, <1>3 DEF VersionTypes, Over
<1>5. ASSUME NEW r \in Requests
      PROVE  call'[r].op = call[r].op /\ Keeps(r) /\ SaveOf(r)' /\ TakenOf(r)'
  <2>1. SaveOf(r) /\ TakenOf(r)
    BY DEF Inv, VersionInv, LinkInv
  <2>2. Keeps(r)
    BY <1>0, <1>1, <1>2 DEF Keeps, Written, Over
  <2>3. SaveOf(r)'
    BY <1>1, <1>2, <2>1 DEF SaveOf, Over
  <2>4. TakenOf(r)'
    BY <1>1, <1>2, <2>1 DEF TakenOf, At, Over
  <2> QED
    BY <1>2, <2>2, <2>3, <2>4
<1>6. VersionInv'
  BY <1>0, <1>1, <1>4, <1>5, NothingWritten DEF Inv
<1>7. LinkInv'
  BY <1>1, <1>5 DEF Inv, LinkInv, LinkTypes
<1> QED
  BY <1>6, <1>7 DEF Inv

\* Steps of the workflow leave the connection alone.
LEMMA FlowLinkInv ==
    ASSUME LinkInv, NEW r \in Requests, UNCHANGED <<link, keyed, causes>>, NEW pc, NEW seen,
           Moved(r, pc, seen), call[r].op # "use", pc \notin {"trying", "bad", "good", "tried"}
    PROVE  LinkInv'
<1>1. TakenOf(r)'
  BY DEF TakenOf, At, Moved
<1> QED
  BY <1>1, LinkStep DEF LinkInv, LinkTypes

\* Every step of a workflow, the audit included, leaves the connection alone.
LEMMA FlowSteps ==
    ASSUME Inv, NEW r \in Requests,
           \/ Audit(r) \/ Create(r) \/ FindWorkflow(r) \/ InsertVersion(r) \/ UpdateVersion(r)
           \/ FindDefinition(r) \/ UpdateStatus(r)
    PROVE  LinkInv'
<1>0. /\ call \in [Requests -> CallType] /\ faults \in 0..MaxFaults /\ TakenOf(r) /\ LinkInv
      /\ flow.current \in Versions
  BY DEF Inv, VersionInv, VersionTypes, LinkInv
<1>1. UNCHANGED <<link, keyed, causes>> /\ call[r].op # "use"
  BY <1>0 DEF TakenOf, At, Audit, Create, FindWorkflow, InsertVersion, UpdateVersion, FindDefinition, UpdateStatus
<1>2. ASSUME NEW o \in Outcomes, NEW next \in {"audit", "ok", "inserted"}, Statement(r, o, next, "failed")
      PROVE  LinkInv'
  <2>1. Moved(r, IF o = "ok" THEN next ELSE "failed", call[r].seen)
    BY <1>0, <1>2, Statements DEF Places, Over
  <2> QED
    BY <1>0, <1>1, <2>1, FlowLinkInv
<1>3. ASSUME NEW pc \in {"refused", "found", "checked", "failed"}, NEW seen \in Versions \cup Requests \cup {None},
             Goto(r, pc) \/ Read(r, pc, seen)
      PROVE  LinkInv'
  <2>1. Moved(r, pc, call[r].seen) \/ Moved(r, pc, seen)
    BY <1>0, <1>3, Moves DEF Places, Over
  <2> QED
    BY <1>0, <1>1, <2>1, FlowLinkInv
<1>4. CASE Audit(r) \/ Create(r) \/ UpdateVersion(r) \/ UpdateStatus(r)
  BY <1>2, <1>4 DEF Audit, Create, UpdateVersion, UpdateStatus
<1>5. CASE InsertVersion(r)
  BY <1>2, <1>3, <1>5 DEF InsertVersion
<1>6. CASE FindWorkflow(r) \/ FindDefinition(r)
  BY <1>0, <1>3, <1>6 DEF FindWorkflow, FindDefinition
<1> QED
  BY <1>4, <1>5, <1>6

\* The versions, the status and the connection stay in order, whatever is done at what place.
LEMMA NextInv == Inv /\ [Next]_vars => Inv'
<1> SUFFICES ASSUME Inv, [Next]_vars PROVE Inv'
  OBVIOUS
<1>1. ASSUME NEW r \in Requests,
             \/ Audit(r) \/ Create(r) \/ FindWorkflow(r) \/ InsertVersion(r) \/ UpdateVersion(r)
             \/ FindDefinition(r) \/ UpdateStatus(r)
      PROVE  Inv'
  BY <1>1, FlowSteps, CreateVersionInv, InsertVersionInv, UpdateVersionInv, AsideVersionInv DEF Inv
<1>2. ASSUME NEW r \in Requests, LinkAction(r) PROVE Inv'
  BY <1>2, LinkSteps, AsideVersionInv DEF Inv, VersionInv, VersionTypes, Context
<1>3. CASE Crash
  BY <1>3, CrashInv
<1>4. CASE UNCHANGED vars
  <2>1. ASSUME NEW v \in Versions PROVE VersionOf(v)'
    BY <1>4 DEF Inv, VersionInv, VersionOf, vars
  <2>2. ASSUME NEW r \in Requests PROVE SaveOf(r)' /\ TakenOf(r)'
    BY <1>4 DEF Inv, VersionInv, LinkInv, SaveOf, TakenOf, At, vars
  <2> QED
    BY <1>4, <2>1, <2>2 DEF Inv, VersionInv, VersionTypes, LinkInv, LinkTypes, vars
<1> QED
  BY <1>1, <1>2, <1>3, <1>4 DEF Next, LinkAction

\* Every variable has its type, so a save never runs out of version numbers.
THEOREM TypeCorrect == Spec => []TypeOK
<1>1. Inv => TypeOK
  BY DEF Inv, VersionInv, VersionTypes, LinkInv, LinkTypes, CallType, TypeOK
<1> QED
  BY <1>1, InitVersionInv, InitLinkInv, NextInv, PTL DEF Spec, Inv

\* The current version of a workflow has a definition, one version at most is ahead of it, and
\* an audited save has written the version after the one it had read.
THEOREM VersionsStayInOrder == Spec => []VersionsInOrder
<1>1. Inv => VersionsInOrder
  <2> SUFFICES ASSUME Inv PROVE VersionsInOrder
    OBVIOUS
  <2>1. flow.status # "none" => versions[flow.current] # None
    BY VersionNumbers DEF Inv, VersionInv, VersionTypes, VersionOf
  <2>2. ASSUME NEW v \in Versions, v > flow.current, versions[v] # None
        PROVE  /\ v = flow.current + 1
               /\ call[versions[v]].pc = "inserted" \/ (call[versions[v]].pc = "failed" /\ faults > 0)
    BY <2>2 DEF Inv, VersionInv, VersionOf
  <2>3. ASSUME NEW r \in audited, call[r].op = "save"
        PROVE  versions[call[r].seen + 1] = r /\ flow.current > call[r].seen
    BY <2>3 DEF Inv, VersionInv, VersionTypes, SaveOf
  <2> QED
    BY <2>1, <2>2, <2>3 DEF VersionsInOrder
<1> QED
  BY <1>1, InitVersionInv, InitLinkInv, NextInv, PTL DEF Spec, Inv

\* A connected provider has accepted the credentials an action is given, unless they were stored
\* untried, others were tested, or the row changed under the test.
THEOREM ConnectedStaysUsable == Spec => []ConnectedIsUsable
<1>1. Inv => ConnectedIsUsable
  BY DEF Inv, LinkInv, TakenOf, ConnectedIsUsable
<1> QED
  BY <1>1, InitVersionInv, InitLinkInv, NextInv, PTL DEF Spec, Inv

=============================================================================
