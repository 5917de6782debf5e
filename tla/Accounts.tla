------------------------------ MODULE Accounts ------------------------------
(***************************************************************************)
(* Accounts of one user: sign-in, password reset, e-mail verification,     *)
(* invitations and the workspace the user owns.  Each handler is a         *)
(* sequence of statements that it sends, one after the other, to a pool    *)
(* of database clients; resetPassword and acceptInvitation send BEGIN,     *)
(* their updates and COMMIT the same way, so nothing but the order in      *)
(* which the pool hands out its idle clients keeps them on one client.     *)
(*                                                                         *)
(* pg's pool hands out the client that became idle last, makes a new one   *)
(* when none is idle and it is not full, and closes the client of a        *)
(* statement that fails: the database rolls its transaction back.  A row   *)
(* an open transaction has written is locked for every other client.       *)
(* Hashes, expiry and the e-mail provider are left out; a token and the    *)
(* session of a sign-in are rows.                                          *)
(***************************************************************************)
EXTENDS Naturals, FiniteSets, SequencesExt

CONSTANTS
    Callers,     \* requests, each handled once
    Clients,     \* database clients of the pool
    First,       \* the reset token that was issued before the behaviour starts
    Plans,       \* bound: the combinations of requests considered, each with its number of faults
    None         \* no client, no tenant

\* The statements of each handler, in the order it sends them.
ResetPassword == <<"findToken", "BEGIN", "setPassword", "useToken", "dropSession", "COMMIT">>
RequestReset == <<"findUser", "retireTokens", "insertToken">>
VerifyEmail == <<"findVerification", "setVerified", "useVerification">>
AcceptInvitation == <<"getSession", "findInvitation", "BEGIN", "addMember", "useInvitation", "COMMIT">>
Login == <<"findUser", "insertSession", "getWorkspace">>
Logout == <<"dropSession">>
Register == <<"findEmail", "insertUser">>
CreateWorkspace == <<"findOwned", "insertWorkspace", "insertOwner", "saveProfile", "getWorkspace">>
Onboarding == <<"getSession", "findWorkspace", "findLegacy">> \o CreateWorkspace
\* A Google sign-in without a business name makes no workspace.
GoogleSignIn == <<"findUser">> \o Register \o <<"findWorkspace", "insertSession">>
GoogleAuth == <<"findUser">> \o Register \o <<"findWorkspace">> \o CreateWorkspace \o <<"insertSession">>

Program ==
    [reset |-> ResetPassword, request |-> RequestReset, verify |-> VerifyEmail,
     accept |-> AcceptInvitation, login |-> Login, logout |-> Logout,
     onboard |-> Onboarding, google |-> GoogleAuth, signin |-> GoogleSignIn]

Ops == DOMAIN Program
Tokens == Callers \cup {First}
Fields == {"user", "password", "verified", "verification", "session", "invitation", "member",
           "workspace", "owner", "profile"}
Rows == Fields \cup Tokens
Values == Callers \cup {None, "old", "present", "absent", "live", "used"}

ASSUME AccountsAssumption ==
    /\ \A plan \in Plans :
        /\ DOMAIN plan.ops \subseteq Callers /\ \A p \in DOMAIN plan.ops : plan.ops[p] \in Ops
        /\ plan.faults \in Nat
    /\ First \notin Callers /\ None \notin Callers \cup Clients /\ "old" \notin Callers
    /\ Tokens \cap Fields = {} /\ IsFiniteSet(Clients)

VARIABLES
    db,        \* committed value of every row
    pending,   \* what the open transaction of each client has written
    opener,    \* the request that sent the BEGIN of the client's open transaction
    idle,      \* idle clients of the pool, the one released last at the end
    call,      \* what each request does and how far it is
    faults,    \* how many more statements may fail or processes die
    met,       \* history: which of "transaction", "request" and "reset" ran beside another request
    strayed    \* history: a statement ran in another transaction than its own

clientVars == <<pending, opener>>
history == <<met, strayed>>
vars == <<db, clientVars, idle, call, faults, history>>

\* What a statement writes: no rows, one row, or what two statements write, the first in front.
Empty == [r \in {} |-> None]
Row(r, v) == [x \in {r} |-> v]
Onto(w, f) == [r \in DOMAIN w \cup DOMAIN f |-> IF r \in DOMAIN w THEN w[r] ELSE f[r]]

\* A user with a session and a reset token, or no user at all.
Init ==
    /\ \E u \in {"present", "absent"} :
        db = [r \in Rows |->
                CASE r = "user" -> u
                  [] r = "password" -> "old"
                  [] r \in {"session", "verification", "invitation", First} ->
                        IF u = "present" THEN "live" ELSE "absent"
                  [] r \in {"workspace", "owner", "profile"} -> None
                  [] OTHER -> "absent"]
    /\ pending = [c \in Clients |-> Empty]
    /\ opener = [c \in Clients |-> None]
    /\ idle = SetToSeq(Clients)
    /\ \E plan \in Plans :
        /\ call = [p \in Callers |->
                     [op |-> IF p \in DOMAIN plan.ops THEN plan.ops[p] ELSE "login",
                      token |-> First, pc |-> 1, on |-> None, tenant |-> None,
                      status |-> IF p \in DOMAIN plan.ops THEN "new" ELSE "none"]]
        /\ faults = plan.faults
    /\ met = {} /\ strayed = FALSE

Active(p) == call[p].status = "active"

\* The row of a request is the reset token or the session that it inserts.
ResetTokens == {First} \cup {p \in Callers : call[p].op = "request"}
SignIns == {p \in Callers : call[p].op \in {"login", "google", "signin"}}

\* pc 0 is the ROLLBACK of the catch block.
Statement(p) == IF call[p].pc = 0 THEN "ROLLBACK" ELSE Program[call[p].op][call[p].pc]

\* The statements a handler means to send inside its transaction, and where it catches errors.
Transactional(p) ==
    \/ call[p].pc = 0
    \/ call[p].op = "reset" /\ call[p].pc > 2
    \/ call[p].op = "accept" /\ call[p].pc > 3

See(c, r) == IF r \in DOMAIN pending[c] THEN pending[c][r] ELSE db[r]

\* Mutant: the SELECT of a reset token does not ask whether it has been used.
Issued(c, token) == See(c, token) # "absent"

Usable(c, token) == See(c, token) = "live"

\* A SELECT that finds nothing, or finds what must not be there, makes the handler throw.
Refused(p, c) ==
    LET s == Statement(p) IN
    \/ s = "findToken" /\ ~Usable(c, call[p].token)
    \/ s = "getSession" /\ See(c, "session") # "live"
    \/ s = "findInvitation" /\ See(c, "invitation") # "live"
    \/ s = "findVerification" /\ See(c, "verification") # "live"
    \/ s = "findUser" /\ call[p].op = "login" /\ See(c, "user") = "absent"
    \/ s = "findEmail" /\ See(c, "user") = "present"
    \/ s = "getWorkspace" /\ call[p].op = "onboard" /\ See(c, "workspace") # call[p].tenant

\* UNIQUE(email), the references of sessions, tokens and workspaces to their user, and of a
\* membership to its workspace.
Violates(p, c) ==
    LET s == Statement(p) IN
    \/ s = "insertUser" /\ See(c, "user") = "present"
    \/ s \in {"insertSession", "insertToken", "insertWorkspace"} /\ See(c, "user") = "absent"
    \/ s = "insertOwner" /\ See(c, "workspace") # call[p].tenant

\* What the schema statements sent first lock and write: ensureAuthSchema the sessions and
\* memberships, and an owner's missing membership; schema of email_lifecycle.js the users.
Ensured(p, c) ==
    LET s == Statement(p)  op == call[p].op IN
    CASE \/ s \in {"getSession", "findWorkspace", "findOwned", "getWorkspace", "insertSession", "findEmail"}
         \/ op = "logout" \/ (s = "findUser" /\ op = "login") ->
            Onto([r \in {"session", "member"} |-> See(c, r)],
                 IF See(c, "workspace") # None /\ See(c, "owner") = None
                 THEN Row("owner", See(c, "workspace")) ELSE Empty)
      [] \/ s \in {"findToken", "findVerification", "retireTokens"}
         \/ (s = "findUser" /\ op = "request") -> Row("user", See(c, "user"))
      [] OTHER -> Empty

\* A password reset signs the user out everywhere, a logout ends the session it came with.
Dropped(p, c) ==
    {"session"} \cup {q \in SignIns : call[p].op = "reset" /\ See(c, q) = "live"}

Changed(p, c) ==
    LET s == Statement(p) IN
    CASE s = "setPassword"     -> Row("password", p)
      [] s = "useToken"        -> Row(call[p].token, "used")
      [] s = "dropSession"     -> [r \in Dropped(p, c) |-> "absent"]
      [] s \in {"insertSession", "insertToken"} -> Row(p, "live")
      [] s = "addMember"       -> Row("member", "present")
      [] s = "useInvitation"   -> Row("invitation", "used")
      [] s = "retireTokens"    -> [t \in {u \in ResetTokens : See(c, u) = "live"} |-> "used"]
      [] s = "setVerified"     -> Row("verified", "present")
      [] s = "useVerification" -> Row("verification", "used")
      [] s = "insertUser"      -> Row("user", "present")
      [] s = "insertWorkspace" ->
            Row("workspace", IF See(c, "workspace") = None THEN call[p].tenant ELSE See(c, "workspace"))
      [] s = "insertOwner"     -> Row("owner", call[p].tenant)
      [] s = "saveProfile"     -> Row("profile", call[p].tenant)
      [] OTHER -> Empty

Written(p, c) == Onto(Changed(p, c), Ensured(p, c))

\* One row of bos_users holds the password and the date of verification.
LockOf(r) == IF r \in {"password", "verified"} THEN "user" ELSE r
Locks(written) == {LockOf(r) : r \in DOMAIN written}
Blocked(p, c) ==
    \E d \in Clients \ {c} : Locks(Written(p, c)) \cap Locks(pending[d]) # {}

\* A workspace the user owns, or has joined.
FindsWorkspace(c) ==
    See(c, "owner") # None \/ See(c, "workspace") # None \/ See(c, "member") = "present"

\* Where a handler goes on when its statement found what it asked for.
Following(p, c) ==
    LET s == Statement(p)  op == call[p].op
        end == Len(Program[op]) + 1 IN
    CASE s = "findUser" /\ op = "request" /\ See(c, "user") = "absent" -> end
      [] s = "findUser" /\ op \in {"google", "signin"} /\ See(c, "user") = "present" -> 4
      [] s = "findWorkspace" /\ op = "google" /\ FindsWorkspace(c) -> 10
      [] s = "findWorkspace" /\ op = "onboard" /\ FindsWorkspace(c) -> end
      [] OTHER -> call[p].pc + 1

Advance(p, next, tenant) ==
    LET over == next > Len(Program[call[p].op]) IN
    call' = [call EXCEPT ![p].pc = IF over THEN 1 ELSE next, ![p].on = None,
                         ![p].tenant = IF over THEN None ELSE tenant,
                         ![p].status = IF over THEN "ok" ELSE "active"]

\* Mutant: the catch block rolls back and does not throw.
FailedQuietly(p) ==
    [call[p] EXCEPT !.pc = 1, !.on = None, !.tenant = None, !.status = "ok"]

\* Mutant: a request that fails goes on with the client it has.
FailedHolding(p) ==
    [call[p] EXCEPT !.pc = 1, !.tenant = None, !.status = "failed"]

Failed(p) ==
    [call[p] EXCEPT !.pc = 1, !.on = None, !.tenant = None, !.status = "failed"]

\* An error ends the handler, after the ROLLBACK of the catch block inside the transaction.
Throws(p) ==
    call' = [call EXCEPT ![p] =
        IF Transactional(p) /\ @.pc # 0 THEN [@ EXCEPT !.on = None, !.pc = 0] ELSE Failed(p)]

\* The statement has been answered without an error.
Release(c) == idle' = Append(idle, c)

RolledBack(c) ==
    /\ pending' = [pending EXCEPT ![c] = Empty]
    /\ opener' = [opener EXCEPT ![c] = None]

\* The statement runs in the transaction it was meant for; a ROLLBACK whose transaction has ended
\* with its client runs in none.
AtHome(p, c) ==
    IF Statement(p) = "ROLLBACK"
    THEN opener[c] \in {None, p} /\ \A d \in Clients \ {c} : opener[d] # p
    ELSE opener[c] = (IF Transactional(p) THEN p ELSE None)
Strays(p, c) == strayed' = (strayed \/ ~AtHome(p, c))
----------------------------------------------------------------------------
\* A transaction beside any request, two requests of a reset token, two resets.
Beside(op, other) ==
    {k \in {"transaction"} : {op, other} \cap {"reset", "accept"} # {}}
        \cup ({op} \cap {other} \cap {"request", "reset"})

\* A reset names a token that has been issued.
Begin(p, token) ==
    /\ call[p].status = "new"
    /\ IF call[p].op = "reset" THEN token \in ResetTokens /\ db[token] # "absent" ELSE token = First
    /\ call' = [call EXCEPT ![p].token = token, ![p].status = "active"]
    /\ met' = met \cup UNION {Beside(call[p].op, call[q].op) : q \in {q \in Callers : Active(q)}}
    /\ UNCHANGED <<db, clientVars, idle, faults, strayed>>

Idle == {idle[i] : i \in DOMAIN idle}
\* The pool may make this client: it has fewer than max.
Free == {c \in Clients \ Idle : \A p \in Callers : call[p].on # c}

\* Mutant: the pool hands out the client that has been idle for longest.
HandedOldest ==
    IF idle = <<>> THEN <<CHOOSE c \in Free : TRUE, <<>>>> ELSE <<Head(idle), Tail(idle)>>

\* The client the pool hands out, and the clients that stay idle.
Handed ==
    IF idle = <<>> THEN <<CHOOSE c \in Free : TRUE, <<>>>> ELSE <<Last(idle), Front(idle)>>
Connect(p) ==
    /\ Active(p) /\ call[p].on = None /\ (idle # <<>> \/ Free # {})
    /\ call' = [call EXCEPT ![p].on = Handed[1]]
    /\ idle' = Handed[2]
    /\ UNCHANGED <<db, clientVars, faults, history>>

\* connectionTimeoutMillis passes while every client is in use.
ConnectTimeout(p) ==
    /\ Active(p) /\ call[p].on = None /\ idle = <<>> /\ Free = {}
    /\ Throws(p)
    /\ UNCHANGED <<db, clientVars, idle, faults, history>>

Settles(p) ==
    LET c == call[p].on
        s == Statement(p) IN
    /\ s \in {"BEGIN", "COMMIT", "ROLLBACK"}
    /\ IF s = "BEGIN"
       THEN /\ opener' = [opener EXCEPT ![c] = IF @ = None THEN p ELSE @]
            /\ UNCHANGED <<db, pending>>
       ELSE /\ db' = IF s = "COMMIT" THEN Onto(pending[c], db) ELSE db
            /\ RolledBack(c)
    /\ IF s = "ROLLBACK" THEN Throws(p) ELSE Advance(p, call[p].pc + 1, call[p].tenant)

Queries(p) ==
    LET c == call[p].on IN
    /\ Statement(p) \notin {"BEGIN", "COMMIT", "ROLLBACK"}
    /\ ~Blocked(p, c) /\ ~Violates(p, c)
    /\ IF opener[c] = None
       THEN db' = Onto(Written(p, c), db) /\ UNCHANGED pending
       ELSE pending' = [pending EXCEPT ![c] = Onto(Written(p, c), @)] /\ UNCHANGED db
    /\ IF Refused(p, c) THEN Throws(p)
       ELSE Advance(p, Following(p, c),
                IF Statement(p) # "findOwned" THEN call[p].tenant
                ELSE IF See(c, "workspace") = None THEN p ELSE See(c, "workspace"))
    /\ UNCHANGED opener

Run(p) ==
    /\ Active(p) /\ call[p].on # None
    /\ Strays(p, call[p].on)
    /\ Settles(p) \/ Queries(p)
    /\ Release(call[p].on)
    /\ UNCHANGED <<faults, met>>

\* The statement fails without an effect.  The pool closes its client, and the database rolls
\* the client's transaction back; a ROLLBACK that follows is given another client.
Fails(p) ==
    /\ Active(p) /\ call[p].on # None
    /\ Strays(p, call[p].on)
    /\ RolledBack(call[p].on) /\ Throws(p)
    /\ UNCHANGED <<db, idle, met>>

\* The connection breaks, or the client that is made cannot connect.
Fault(p) == faults > 0 /\ faults' = faults - 1 /\ Fails(p)

\* The statement breaks a constraint of the database.
Rejected(p) ==
    /\ Active(p) /\ call[p].on # None
    /\ ~Blocked(p, call[p].on) /\ Violates(p, call[p].on)
    /\ Fails(p) /\ UNCHANGED faults

\* PostgreSQL ends a wait that a ring of clients would keep for ever: one statement of it fails.
Deadlocked(p) ==
    \E ring \in SUBSET Clients :
        /\ call[p].on \in ring
        /\ \A c \in ring : \E q \in Callers, d \in ring \ {c} :
                /\ Active(q) /\ call[q].on = c
                /\ Locks(Written(q, c)) \cap Locks(pending[d]) # {}

DeadlockDetected(p) == Deadlocked(p) /\ Fails(p) /\ UNCHANGED faults

\* Mutant: idleTimeoutMillis is 0, and idle clients are kept for ever.
IdleForEver == FALSE

\* idleTimeoutMillis passes: every request waits for a lock or has ended.  The pool closes the
\* client that has been idle for longest, and the database rolls its transaction back.
IdleTimeout ==
    /\ \E c \in Idle : opener[c] # None
    /\ \A p \in Callers : Active(p) => call[p].on # None /\ Blocked(p, call[p].on)
    /\ RolledBack(Head(idle)) /\ idle' = Tail(idle)
    /\ UNCHANGED <<db, call, faults, history>>

\* The process dies with the requests and the clients it has; so it does when a client breaks
\* that is idle, for nothing listens to the pool's errors.
Crash ==
    /\ faults > 0
    /\ faults' = faults - 1
    /\ \E p \in Callers : Active(p)
    /\ call' = [p \in Callers |-> IF Active(p) THEN Failed(p) ELSE call[p]]
    /\ pending' = [c \in Clients |-> Empty]
    /\ opener' = [c \in Clients |-> None]
    /\ idle' = <<>>
    /\ UNCHANGED <<db, history>>

Serve(p) == Connect(p) \/ Run(p) \/ Rejected(p) \/ ConnectTimeout(p) \/ DeadlockDetected(p)

Next ==
    \/ \E p \in Callers :
        \/ \E t \in Tokens : Begin(p, t)
        \/ Serve(p)
        \/ Fault(p)
    \/ IdleTimeout
    \/ Crash

\* The driver answers, the pool serves its waiters, and its timers run.
Fairness ==
    /\ \A p \in Callers : WF_vars(Serve(p))
    /\ WF_vars(IdleTimeout)

Spec == Init /\ [][Next]_vars /\ Fairness
----------------------------------------------------------------------------
\* A client is idle, in use by one request, or not there; without a transaction nothing is pending.
TypeOK ==
    /\ db \in [Rows -> Values] /\ db["workspace"] \in Callers \cup {None}
    /\ DOMAIN pending = Clients
    /\ \A c \in Clients :
        /\ DOMAIN pending[c] \subseteq Rows /\ \A r \in DOMAIN pending[c] : pending[c][r] \in Values
        /\ "workspace" \in DOMAIN pending[c] => pending[c]["workspace"] \in Callers \cup {None}
        /\ opener[c] = None => pending[c] = Empty
    /\ opener \in [Clients -> Callers \cup {None}]
    /\ call \in [Callers -> [op : Ops, token : Tokens, pc : 0..10, on : Clients \cup {None},
                             tenant : Callers \cup {None}, status : {"none", "new", "active", "ok", "failed"}]]
    /\ idle \in Seq(Clients) /\ \A i, j \in DOMAIN idle : idle[i] = idle[j] => i = j
    /\ \A p \in Callers : call[p].on \notin Idle
    /\ \A p, q \in Callers : call[p].on = call[q].on => p = q \/ call[p].on = None
    /\ faults \in Nat /\ met \subseteq {"transaction", "request", "reset"} /\ strayed \in BOOLEAN

\* A transaction sent to the pool stays on one client, no other statement enters it, and no
\* ROLLBACK ends another one, unless it overlaps another request.  A fault is no excuse.
StraysOnlyBeside ==
    strayed => "transaction" \in met

\* As long as no statement has strayed, what a handler answers for is committed when it answers:
\* a reset its password, its token and the end of the user's session, an acceptance the
\* membership and the invitation, an onboarding or a Google sign-in with a business name a
\* workspace the user owns or has joined, a sign-in a user with the session it hands out, unless
\* a reset beside it has ended that session again, a verification the address and its token.
HasWorkspace ==
    db["member"] = "present" \/ (db["owner"] # None /\ db["owner"] = db["workspace"])
SignedIn(p) ==
    /\ db["user"] = "present"
    /\ db[p] = "live" \/ ("transaction" \in met /\ db["password"] # "old")
Kept(p) ==
    LET op == call[p].op IN
    /\ op = "reset" => db["password"] = p /\ db[call[p].token] = "used" /\ db["session"] = "absent"
    /\ op = "accept" => db["member"] = "present" /\ db["invitation"] = "used"
    /\ op = "verify" => db["verified"] = "present" /\ db["verification"] = "used"
    /\ op \in {"onboard", "google"} => HasWorkspace
    /\ p \in SignIns => SignedIn(p)
AnsweredIsCommitted ==
    [][\A p \in Callers :
        (Active(p) /\ call'[p].status = "ok" /\ ~strayed') => Kept(p)']_vars

\* A user has one live reset token at a time, and a token resets the password once, unless two
\* requests of that kind overlap or a statement strays.
TokensOnce ==
    ~strayed =>
        /\ "request" \notin met => Cardinality({t \in ResetTokens : db[t] = "live"}) <= 1
        /\ "reset" \notin met =>
            \A t \in ResetTokens :
                Cardinality({p \in Callers : /\ call[p].op = "reset" /\ call[p].token = t
                                             /\ call[p].status = "ok"}) <= 1

\* Every request is answered: a lock a stray transaction keeps ends with its client's idle time.
EventuallyAnswered == <>[](\A p \in Callers : ~Active(p))

=============================================================================
