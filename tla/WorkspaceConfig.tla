--------------------------- MODULE WorkspaceConfig ---------------------------
(***************************************************************************)
(* What the owners and admins of a workspace configure: the versions and   *)
(* the status of a workflow, and the connection to a provider.  Each       *)
(* request is a handler that sends its statements one after the other to   *)
(* the pool, each committed by itself; only the creation of a workflow is  *)
(* a transaction on one client.  Reads of one statement decide what later  *)
(* statements write, while other requests are served in between.           *)
(*                                                                         *)
(* One workflow and one provider with credential fields are modelled.  The *)
(* role check of each request only refuses and is left out, and so is the  *)
(* wording of names, definitions and errors.                               *)
(***************************************************************************)
EXTENDS Naturals, FiniteSets

CONSTANTS
    Requests,    \* requests, each handled once; its supplied credentials bear its name
    Plans,       \* bound: what the requests of a behaviour are
    Good,        \* the requests whose credentials the provider accepts
    None,        \* no version, no credentials
    FaultKinds,  \* which database faults happen: subset of {"lost", "unacknowledged"}
    MaxFaults    \* bound: faulty statements, failing provider calls and crashes in a behaviour

FlowOps == {"create", "save", "publish", "disable"}
LinkOps == {"connect", "store", "test", "retest", "disconnect", "use"}
Ops == FlowOps \cup LinkOps
Versions == 1..(Cardinality(Requests) + 1)

ASSUME ConfigAssumption ==
    /\ Plans \subseteq [Requests -> Ops]
    /\ IsFiniteSet(Requests)
    /\ Good \subseteq Requests /\ None \notin Requests \cup Versions
    /\ FaultKinds \subseteq {"lost", "unacknowledged"}
    /\ MaxFaults \in Nat

VARIABLES
    versions,  \* bos_workflow_versions: the request that wrote each version, or None
    flow,      \* the bos_workflows row: status ("none": no row) and current_version
    link,      \* the bos_integrations row: status ("none": no row) and credentials
    keyed,     \* BOS_ENCRYPTION_KEY is configured
    call,      \* operation, place in the handler and what it has read
    audited,   \* requests with a bos_audit_logs row
    faults,
    causes     \* history: what has connected the provider without its credentials being tried

vars == <<versions, flow, link, keyed, call, audited, faults, causes>>

Init ==
    /\ versions = [v \in Versions |-> None]
    /\ flow = [status |-> "none", current |-> 1]
    /\ link = [status |-> "none", creds |-> None]
    /\ keyed \in BOOLEAN
    /\ \E plan \in Plans : call = [r \in Requests |-> [op |-> plan[r], pc |-> "start", seen |-> None]]
    /\ audited = {}
    /\ faults = 0
    /\ causes = {}

Over == {"ok", "refused", "failed"}
Places == Over \cup {"start", "found", "inserted", "checked", "audit", "trying", "tried", "good", "bad"}
At(r, op, pc) == call[r].op = op /\ call[r].pc = pc
Goto(r, pc) == call' = [call EXCEPT ![r].pc = pc]
Read(r, pc, value) == call' = [call EXCEPT ![r].pc = pc, ![r].seen = value]

Outcomes == {"ok"} \cup FaultKinds
Applied(o) == o # "lost"

\* A statement is applied and acknowledged, or it fails; the handler answers 500 at `failed`
\* unless it catches the error.
Statement(r, o, next, failed) ==
    /\ o # "ok" => faults < MaxFaults
    /\ faults' = IF o = "ok" THEN faults ELSE faults + 1
    /\ Goto(r, IF o = "ok" THEN next ELSE failed)

Audit(r) ==
    /\ call[r].pc = "audit"
    /\ \E o \in Outcomes :
        /\ Statement(r, o, "ok", "failed")
        /\ audited' = IF Applied(o) THEN audited \cup {r} ELSE audited
    /\ UNCHANGED <<versions, flow, link, keyed, causes>>
-----------------------------------------------------------------------------
(* Workflows *)

\* The row and its version 1 are inserted by one transaction.
Create(r) ==
    /\ At(r, "create", "start") /\ flow.status = "none"
    /\ \E o \in Outcomes :
        /\ Statement(r, o, "audit", "failed")
        /\ IF Applied(o)
           THEN /\ flow' = [status |-> "draft", current |-> 1]
                /\ versions' = [versions EXCEPT ![1] = r]
           ELSE UNCHANGED <<flow, versions>>
    /\ UNCHANGED <<link, keyed, audited, causes>>

\* The version the workflow has now is kept for the later statements.
FindWorkflow(r) ==
    /\ call[r].op \in {"save", "publish", "disable"} /\ call[r].pc = "start"
    /\ IF flow.status = "none" THEN Read(r, "refused", None) ELSE Read(r, "found", flow.current)
    /\ UNCHANGED <<versions, flow, link, keyed, audited, faults, causes>>

\* Mutant: the constraint of the versions is missing.
TakenNever(v) == FALSE

\* UNIQUE(workflow_id, version)
Taken(v) == versions[v] # None

InsertVersion(r) ==
    /\ At(r, "save", "found")
    /\ LET next == call[r].seen + 1 IN
       IF Taken(next) THEN Goto(r, "failed") /\ UNCHANGED <<versions, faults>>
       ELSE \E o \in Outcomes :
            /\ Statement(r, o, "inserted", "failed")
            /\ versions' = IF Applied(o) THEN [versions EXCEPT ![next] = r] ELSE versions
    /\ UNCHANGED <<flow, link, keyed, audited, causes>>

UpdateVersion(r) ==
    /\ At(r, "save", "inserted")
    /\ \E o \in Outcomes :
        /\ Statement(r, o, "audit", "failed")
        /\ flow' = IF Applied(o) THEN [flow EXCEPT !.current = call[r].seen + 1] ELSE flow
    /\ UNCHANGED <<versions, link, keyed, audited, causes>>

\* The version read first must exist; every definition stored has a trigger and steps.
FindDefinition(r) ==
    /\ At(r, "publish", "found")
    /\ Goto(r, IF versions[call[r].seen] = None THEN "refused" ELSE "checked")
    /\ UNCHANGED <<versions, flow, link, keyed, audited, faults, causes>>

UpdateStatus(r) ==
    /\ At(r, "publish", "checked") \/ At(r, "disable", "found")
    /\ \E o \in Outcomes :
        /\ Statement(r, o, "audit", "failed")
        /\ flow' = IF Applied(o)
                   THEN [flow EXCEPT !.status = IF call[r].op = "publish" THEN "published" ELSE "disabled"]
                   ELSE flow
    /\ UNCHANGED <<versions, link, keyed, audited, causes>>
-----------------------------------------------------------------------------
(* The connection to a provider *)

\* decryptSecret and encryptSecret throw without a key; {} needs none.
Sealed(creds) == creds # None /\ ~keyed

\* connect and retest are given credentials; test reads those of the row.
Take(r) ==
    /\ call[r].pc = "start"
    /\ \/ /\ call[r].op \in {"connect", "retest"}
          /\ Read(r, "trying", r)
       \/ /\ call[r].op = "test"
          /\ CASE link.status = "none" -> Read(r, "refused", None)
               [] link.status # "none" /\ Sealed(link.creds) -> Read(r, "failed", None)
               [] OTHER -> Read(r, "trying", link.creds)
    /\ UNCHANGED <<versions, flow, link, keyed, audited, faults, causes>>

\* testConnector: the provider accepts good credentials unless the call fails.
Try(r) ==
    /\ call[r].pc = "trying"
    /\ LET onError == IF call[r].op = "connect" THEN "failed" ELSE "bad"
           onSuccess == IF call[r].op # "connect" THEN "good"
                        ELSE IF Sealed(r) THEN "failed" ELSE "tried" IN
       \/ call[r].seen \in Good /\ Goto(r, onSuccess) /\ UNCHANGED faults
       \/ call[r].seen \notin Good /\ Goto(r, onError) /\ UNCHANGED faults
       \/ faults < MaxFaults /\ faults' = faults + 1 /\ Goto(r, onError)
    /\ UNCHANGED <<versions, flow, link, keyed, audited, causes>>

\* The result of a test goes to whatever row is there by then; an error of the first UPDATE is
\* caught and sends the second.
Blame(r) ==
    CASE call[r].op = "retest" -> {"other credentials"}
      [] call[r].op = "test" /\ call[r].seen # link.creds -> {"overtaken"}
      [] OTHER -> {}
Marked(status) == IF link.status = "none" THEN link ELSE [link EXCEPT !.status = status]

MarkGood(r) ==
    /\ call[r].pc = "good"
    /\ \E o \in Outcomes :
        /\ Statement(r, o, "ok", "bad")
        /\ IF Applied(o) THEN link' = Marked("connected") /\ causes' = causes \cup Blame(r)
           ELSE UNCHANGED <<link, causes>>
    /\ UNCHANGED <<versions, flow, keyed, audited>>

MarkBad(r) ==
    /\ call[r].pc = "bad"
    /\ \E o \in Outcomes :
        /\ Statement(r, o, "refused", "failed")
        /\ link' = IF Applied(o) THEN Marked("error") ELSE link
    /\ UNCHANGED <<versions, flow, keyed, audited, causes>>

\* Mutant: the credentials are stored before they have been tried.
ReadyUntried(r) == call[r].pc \in {"trying", "tried"}

Ready(r) == call[r].pc = "tried"

Connect(r) ==
    /\ call[r].op = "connect" /\ Ready(r)
    /\ \E o \in Outcomes :
        /\ Statement(r, o, "audit", "failed")
        /\ link' = IF Applied(o) THEN [status |-> "connected", creds |-> r] ELSE link
    /\ UNCHANGED <<versions, flow, keyed, audited, causes>>

\* POST /api/v1/integrations stores what it is given, or {}, without a test.
Store(r) ==
    /\ At(r, "store", "start")
    /\ \E creds \in {r, None} :
        IF Sealed(creds) THEN Goto(r, "failed") /\ UNCHANGED <<link, faults, causes>>
        ELSE \E o \in Outcomes :
            /\ Statement(r, o, "audit", "failed")
            /\ IF Applied(o)
               THEN link' = [status |-> "connected", creds |-> creds] /\ causes' = causes \cup {"untried"}
               ELSE UNCHANGED <<link, causes>>
    /\ UNCHANGED <<versions, flow, keyed, audited>>

Disconnected == [status |-> "disconnected", creds |-> None]

Disconnect(r) ==
    /\ At(r, "disconnect", "start")
    /\ \E o \in Outcomes :
        /\ Statement(r, o, "audit", "failed")
        /\ link' = IF Applied(o) /\ link.status # "none"
                   THEN Disconnected ELSE link
    /\ UNCHANGED <<versions, flow, keyed, audited, causes>>

\* An action of a workflow takes the credentials of a connected row and calls the provider.
Use(r) ==
    /\ At(r, "use", "start")
    /\ CASE link.status # "connected" -> Read(r, "refused", None)
         [] link.status = "connected" /\ Sealed(link.creds) -> Read(r, "failed", None)
         [] OTHER -> Read(r, "ok", link.creds)
    /\ UNCHANGED <<versions, flow, link, keyed, audited, faults, causes>>

Crash ==
    /\ faults < MaxFaults
    /\ faults' = faults + 1
    /\ \E r \in Requests : call[r].pc \notin Over \cup {"start"}
    /\ call' = [r \in Requests |-> IF call[r].pc \in Over \cup {"start"} THEN call[r]
                                  ELSE [call[r] EXCEPT !.pc = "failed"]]
    /\ UNCHANGED <<versions, flow, link, keyed, audited, causes>>

Next ==
    \/ \E r \in Requests :
        \/ Audit(r) \/ Create(r) \/ FindWorkflow(r) \/ InsertVersion(r) \/ UpdateVersion(r)
        \/ FindDefinition(r) \/ UpdateStatus(r)
        \/ Take(r) \/ Try(r) \/ MarkGood(r) \/ MarkBad(r) \/ Connect(r) \/ Store(r)
        \/ Disconnect(r) \/ Use(r)
    \/ Crash

Spec == Init /\ [][Next]_vars
-----------------------------------------------------------------------------
TypeOK ==
    /\ versions \in [Versions -> Requests \cup {None}]
    /\ flow \in [status : {"none", "draft", "published", "disabled"}, current : Versions]
    /\ link \in [status : {"none", "connected", "disconnected", "error"}, creds : Requests \cup {None}]
    /\ link.status \in {"none", "disconnected"} => link.creds = None
    /\ keyed \in BOOLEAN
    /\ call \in [Requests -> [op : Ops, pc : Places, seen : Versions \cup Requests \cup {None}]]
    /\ audited \subseteq {r \in Requests : call[r].pc \in Over}
    /\ faults \in 0..MaxFaults

\* However saves of a workflow overlap, stop or fail: its current version has a definition, the
\* only version that can be ahead of it is the next one, whose save is about to make it current
\* or has been stopped by a fault, and every save in the audit log wrote the version it read plus
\* one, which the workflow has reached and not gone back from.
VersionsInOrder ==
    /\ flow.status # "none" => versions[flow.current] # None
    /\ \A v \in Versions : v > flow.current /\ versions[v] # None =>
        /\ v = flow.current + 1
        /\ call[versions[v]].pc = "inserted" \/ (call[versions[v]].pc = "failed" /\ faults > 0)
    /\ \A r \in audited : call[r].op = "save" =>
        versions[call[r].seen + 1] = r /\ flow.current > call[r].seen

\* A provider is shown as connected, and an action is given credentials, only when the provider
\* has accepted them, unless they were stored by the route that does not try them, other
\* credentials than the stored ones were tested, or the row changed while its test was under way.
ConnectedIsUsable ==
    causes = {} =>
        /\ link.status = "connected" => link.creds \in Good
        /\ \A r \in Requests : At(r, "use", "ok") => call[r].seen \in Good

=============================================================================
