---------------------------- MODULE AccessProofs ----------------------------
(***************************************************************************)
(* Theorems about who gets in and what is done in his name: about          *)
(* Accounts, for any requests, database clients and faults, and about      *)
(* AgentControls, for any runs, policies, plans, people and failing        *)
(* callbacks.                                                              *)
(***************************************************************************)
EXTENDS Accounts, AgentControls, FiniteSetTheorems, TLAPS

\* A request keeps its place in its handler's statements; only a catch block has place 0.
PlaceInv ==
    \A p \in Callers :
        /\ call[p].on # None => Active(p)
        /\ call[p].status = "new" => call[p].pc = 1
        /\ Active(p) => /\ call[p].pc \in 0..Len(Program[call[p].op])
                        /\ call[p].pc = 0 => call[p].op \in {"reset", "accept"}

\* A request that opens a transaction is alone.
AloneInv ==
    "transaction" \notin met =>
        \A p, q \in Callers :
            Active(p) /\ Active(q) /\ call[p].op \in {"reset", "accept"} => p = q

\* A request is between its BEGIN and the end of its transaction.
Inside(p) ==
    /\ Active(p)
    /\ \/ call[p].op = "reset" /\ call[p].pc > 2
       \/ call[p].op = "accept" /\ call[p].pc > 3

\* Its transaction is on the client it has, or will be given next.
Keeps(p, c) ==
    \/ call[p].on = c
    \/ call[p].on = None /\ idle # <<>> /\ Last(idle) = c
OpenKept ==
    \A c \in Clients : opener[c] # None => Inside(opener[c]) /\ Keeps(opener[c], c)
PastOpen ==
    \A p \in Callers : Inside(p) => \E c \in Clients : opener[c] = p
HomeInv ==
    "transaction" \notin met => ~strayed /\ OpenKept /\ PastOpen

\* Transactions belong to requests that sent BEGIN, each to one.
OwnerInv ==
    ~strayed => \A c \in Clients : opener[c] # None =>
        /\ call[opener[c]].op \in {"reset", "accept"} /\ call[opener[c]].status # "new"
        /\ Active(opener[c]) => Inside(opener[c]) \/ call[opener[c]].pc = 0
        /\ \A d \in Clients : opener[d] = opener[c] => d = c

\* What the transaction of a request that has not failed has written.
Rewrites(p) ==
    IF call[p].op = "reset" THEN {"password", "session", call[p].token} \cup SignIns
    ELSE {"member", "invitation"}
WrittenSoFar(p, w) ==
    /\ DOMAIN w \subseteq Rewrites(p)
    /\ call[p].op = "reset" =>
        /\ call[p].token \in DOMAIN w => w[call[p].token] = "used"
        /\ call[p].pc > 3 => "password" \in DOMAIN w /\ w["password"] = p
        /\ call[p].pc > 4 => call[p].token \in DOMAIN w
        /\ call[p].pc > 5 => "session" \in DOMAIN w /\ w["session"] = "absent"
    /\ call[p].op = "accept" =>
        /\ call[p].pc > 4 => "member" \in DOMAIN w /\ w["member"] = "present"
        /\ call[p].pc > 5 => "invitation" \in DOMAIN w /\ w["invitation"] = "used"
PendingInv ==
    ~strayed => \A c \in Clients :
        opener[c] # None /\ Inside(opener[c]) => WrittenSoFar(opener[c], pending[c])

\* The user owns a workspace or has joined one.
Workspace == db["owner"] # None \/ db["workspace"] # None \/ db["member"] = "present"

\* What a request that is so far may count on.
MadeFor(p) ==
    LET op == call[p].op  at == call[p].pc IN
    /\ op = "login" /\ at > 1 => db["user"] = "present"
    /\ op = "login" /\ at = 3 => SignedIn(p)
    /\ op \in {"google", "signin"} /\ at >= 4 => db["user"] = "present"
    /\ op = "google" /\ at \in 6..7 => call[p].tenant # None
    /\ op = "google" /\ at \in 8..9 => db["owner"] # None
    /\ op = "google" /\ at = 10 => HasWorkspace
    /\ op = "onboard" /\ at \in 5..6 => call[p].tenant # None
    /\ op = "onboard" /\ at \in 7..8 => db["owner"] # None
    /\ op = "verify" /\ at = 3 => db["verified"] = "present"
MadeInv ==
    ~strayed =>
        /\ db["user"] \in {"present", "absent"}
        /\ db["owner"] # None => db["owner"] = db["workspace"]
        /\ \A p \in Callers : Active(p) => MadeFor(p)

IsReset(p) == call[p].op = "reset"
Live == {t \in ResetTokens : db[t] = "live"}
IssuedInv ==
    ~strayed =>
        /\ \A t \in ResetTokens \cap Callers : db[t] # "absent" => call[t].status = "ok"
        /\ \A p \in Callers : IsReset(p) /\ Active(p) =>
              call[p].token \in ResetTokens /\ db[call[p].token] # "absent"
OneLiveInv ==
    ~strayed /\ "request" \notin met =>
        /\ \A t, u \in Live : t = u
        /\ \A p, q \in Callers : Active(p) /\ Active(q) /\ call[p].op = "request" /\ call[q].op = "request"
               => p = q
        /\ \A p \in Callers : Active(p) /\ call[p].op = "request" /\ call[p].pc = 3 => Live = {}

Answered(p) == IsReset(p) /\ call[p].status = "ok"
OnceInv ==
    ~strayed /\ "reset" \notin met =>
        /\ \A p, q \in Callers : IsReset(p) /\ IsReset(q) /\ Active(p) /\ Active(q) => p = q
        /\ \A p \in Callers : Answered(p) => call[p].token \in ResetTokens /\ db[call[p].token] = "used"
        /\ \A p, q \in Callers :
            /\ Answered(p) /\ Answered(q) /\ call[p].token = call[q].token => p = q
            /\ Answered(p) /\ IsReset(q) /\ Active(q) /\ call[q].pc > 1 => call[p].token # call[q].token

\* The length of each handler, and the statement at each place.
LEMMA Sizes ==
    /\ Ops = {"reset", "request", "verify", "accept", "login", "logout", "onboard", "google", "signin"}
    /\ Len(Program["reset"]) = 6 /\ Len(Program["accept"]) = 6 /\ Len(Program["onboard"]) = 8
    /\ Len(Program["request"]) = 3 /\ Len(Program["verify"]) = 3 /\ Len(Program["login"]) = 3
    /\ Len(Program["logout"]) = 1 /\ Len(Program["google"]) = 10 /\ Len(Program["signin"]) = 5
<1>1. Len(GoogleAuth) = 10
  BY DEF GoogleAuth, Register, CreateWorkspace
<1>2. Len(Onboarding) = 8
  BY DEF Onboarding, CreateWorkspace
<1>3. Len(GoogleSignIn) = 5
  BY DEF GoogleSignIn, Register
<1> QED
  BY <1>1, <1>2, <1>3 DEF Ops, Program, ResetPassword, AcceptInvitation, RequestReset, VerifyEmail, Login, Logout

StatementAt(s, o, i) ==
    /\ (i = 0 => s = "ROLLBACK")
    /\ o = "reset" => /\ (i = 1 => s = "findToken") /\ (i = 2 => s = "BEGIN")
                      /\ (i = 3 => s = "setPassword") /\ (i = 4 => s = "useToken")
                      /\ (i = 5 => s = "dropSession") /\ (i = 6 => s = "COMMIT")
    /\ o = "accept" => /\ (i = 1 => s = "getSession") /\ (i = 2 => s = "findInvitation")
                       /\ (i = 3 => s = "BEGIN") /\ (i = 4 => s = "addMember")
                       /\ (i = 5 => s = "useInvitation") /\ (i = 6 => s = "COMMIT")
    /\ o = "request" => /\ (i = 1 => s = "findUser") /\ (i = 2 => s = "retireTokens")
                        /\ (i = 3 => s = "insertToken")
    /\ o = "verify" => /\ (i = 1 => s = "findVerification") /\ (i = 2 => s = "setVerified")
                       /\ (i = 3 => s = "useVerification")
    /\ o = "login" => /\ (i = 1 => s = "findUser") /\ (i = 2 => s = "insertSession")
                      /\ (i = 3 => s = "getWorkspace")
    /\ o = "logout" => (i = 1 => s = "dropSession")
    /\ o = "onboard" => /\ (i = 1 => s = "getSession") /\ (i = 2 => s = "findWorkspace")
                        /\ (i = 3 => s = "findLegacy") /\ (i = 4 => s = "findOwned")
                        /\ (i = 5 => s = "insertWorkspace") /\ (i = 6 => s = "insertOwner")
                        /\ (i = 7 => s = "saveProfile") /\ (i = 8 => s = "getWorkspace")
    /\ o = "signin" => /\ (i = 1 => s = "findUser") /\ (i = 2 => s = "findEmail")
                       /\ (i = 3 => s = "insertUser") /\ (i = 4 => s = "findWorkspace")
                       /\ (i = 5 => s = "insertSession")
    /\ o = "google" => /\ (i = 1 => s = "findUser") /\ (i = 2 => s = "findEmail")
                       /\ (i = 3 => s = "insertUser") /\ (i = 4 => s = "findWorkspace")
                       /\ (i = 5 => s = "findOwned") /\ (i = 6 => s = "insertWorkspace")
                       /\ (i = 7 => s = "insertOwner") /\ (i = 8 => s = "saveProfile")
                       /\ (i = 9 => s = "getWorkspace") /\ (i = 10 => s = "insertSession")

\* What Statement is at each place of each handler.
LEMMA Statements ==
    ASSUME NEW p, NEW o, o = call[p].op, o \in Ops
    PROVE  StatementAt(Statement(p), o, call[p].pc)
<1>1. CASE o = "google"
  BY <1>1, SMTT(30) DEF StatementAt, Statement, Program, GoogleAuth, Register, CreateWorkspace
<1>2. CASE o = "onboard"
  BY <1>2, SMTT(30) DEF StatementAt, Statement, Program, Onboarding, CreateWorkspace
<1>3. CASE o = "reset"
  BY <1>3, SMTT(30) DEF StatementAt, Statement, Program, ResetPassword
<1>4. CASE o = "accept"
  BY <1>4, SMTT(30) DEF StatementAt, Statement, Program, AcceptInvitation
<1>5. CASE o = "signin"
  BY <1>5, SMTT(30) DEF StatementAt, Statement, Program, GoogleSignIn, Register
<1>6. CASE o = "request"
  BY <1>6, SMTT(30) DEF StatementAt, Statement, Program, RequestReset
<1>7. CASE o = "verify"
  BY <1>7, SMTT(30) DEF StatementAt, Statement, Program, VerifyEmail
<1>8. CASE o = "login"
  BY <1>8, SMTT(30) DEF StatementAt, Statement, Program, Login
<1>9. CASE o = "logout"
  BY <1>9, SMTT(30) DEF StatementAt, Statement, Program, Logout
<1> QED
  BY <1>1, <1>2, <1>3, <1>4, <1>5, <1>6, <1>7, <1>8, <1>9, Sizes

\* A request is at one of its handler's places, and the statement names the place.
LEMMA Places ==
    ASSUME TypeOK, PlaceInv, NEW p \in Callers, Active(p),
           NEW s, s = Statement(p), NEW i, i = call[p].pc, NEW o, o = call[p].op
    PROVE  /\ o \in Ops /\ i \in 0..Len(Program[o])
           /\ i = 0 => o \in {"reset", "accept"}
           /\ s = "ROLLBACK" <=> i = 0
           /\ s = "BEGIN" <=> (o = "reset" /\ i = 2) \/ (o = "accept" /\ i = 3)
           /\ s = "COMMIT" <=> o \in {"reset", "accept"} /\ i = 6
           /\ s = "findToken" <=> o = "reset" /\ i = 1
           /\ s = "setPassword" <=> o = "reset" /\ i = 3
           /\ s = "useToken" <=> o = "reset" /\ i = 4
           /\ s = "dropSession" <=> (o = "reset" /\ i = 5) \/ (o = "logout" /\ i = 1)
           /\ s = "addMember" <=> o = "accept" /\ i = 4
           /\ s = "useInvitation" <=> o = "accept" /\ i = 5
           /\ s = "retireTokens" <=> o = "request" /\ i = 2
           /\ s = "insertToken" <=> o = "request" /\ i = 3
           /\ s = "setVerified" <=> o = "verify" /\ i = 2
           /\ s = "useVerification" <=> o = "verify" /\ i = 3
           /\ s = "insertUser" <=> o \in {"google", "signin"} /\ i = 3
           /\ s = "insertWorkspace" <=> (o = "google" /\ i = 6) \/ (o = "onboard" /\ i = 5)
           /\ s = "insertOwner" <=> (o = "google" /\ i = 7) \/ (o = "onboard" /\ i = 6)
           /\ s = "saveProfile" <=> (o = "google" /\ i = 8) \/ (o = "onboard" /\ i = 7)
           /\ s = "getWorkspace" <=> (o = "google" /\ i = 9) \/ (o = "onboard" /\ i = 8) \/ (o = "login" /\ i = 3)
           /\ s = "insertSession" <=> (o = "google" /\ i = 10) \/ (o = "signin" /\ i = 5) \/ (o = "login" /\ i = 2)
           /\ s = "findOwned" <=> (o = "google" /\ i = 5) \/ (o = "onboard" /\ i = 4)
           /\ s = "findWorkspace" <=> (o \in {"google", "signin"} /\ i = 4) \/ (o = "onboard" /\ i = 2)
           /\ s = "findUser" <=> o \in {"google", "signin", "request", "login"} /\ i = 1
           /\ s = "findEmail" <=> o \in {"google", "signin"} /\ i = 2
<1>1. o \in Ops /\ i \in 0..Len(Program[o]) /\ (i = 0 => o \in {"reset", "accept"})
  BY DEF TypeOK, PlaceInv
<1>8. StatementAt(s, o, i)
  BY <1>1, Statements
<1>2. CASE i = 0
  BY <1>1, <1>2, <1>8 DEF StatementAt
<1>3. CASE i # 0 /\ o = "google"
  <2>1. i \in 1..10
    BY <1>1, <1>3, Sizes
  <2> QED
    BY <1>1, <1>3, <2>1, <1>8, SMTT(30) DEF StatementAt
<1>4. CASE i # 0 /\ o = "onboard"
  <2>1. i \in 1..8
    BY <1>1, <1>4, Sizes
  <2> QED
    BY <1>1, <1>4, <2>1, <1>8 DEF StatementAt
<1>5. CASE i # 0 /\ o = "reset"
  <2>1. i \in 1..6
    BY <1>1, <1>5, Sizes
  <2> QED
    BY <1>1, <1>5, <2>1, <1>8 DEF StatementAt
<1>6. CASE i # 0 /\ o = "accept"
  <2>1. i \in 1..6
    BY <1>1, <1>6, Sizes
  <2> QED
    BY <1>1, <1>6, <2>1, <1>8 DEF StatementAt
<1>7. CASE i # 0 /\ o = "request"
  <2>1. i \in 1..3
    BY <1>1, <1>7, Sizes
  <2> QED
    BY <1>1, <1>7, <2>1, <1>8 DEF StatementAt
<1>11. CASE i # 0 /\ o = "verify"
  <2>1. i \in 1..3
    BY <1>1, <1>11, Sizes
  <2> QED
    BY <1>1, <1>11, <2>1, <1>8 DEF StatementAt
<1>9. CASE i # 0 /\ o = "login"
  <2>1. i \in 1..3
    BY <1>1, <1>9, Sizes
  <2> QED
    BY <1>1, <1>9, <2>1, <1>8 DEF StatementAt
<1>10. CASE i # 0 /\ o = "logout"
  <2>1. i = 1
    BY <1>1, <1>10, Sizes
  <2> QED
    BY <1>1, <1>10, <2>1, <1>8 DEF StatementAt
<1>12. CASE i # 0 /\ o = "signin"
  <2>1. i \in 1..5
    BY <1>1, <1>12, Sizes
  <2> QED
    BY <1>1, <1>12, <2>1, <1>8 DEF StatementAt
<1> QED
  BY <1>1, <1>2, <1>3, <1>4, <1>5, <1>6, <1>7, <1>9, <1>10, <1>11, <1>12, Sizes

\* A statement sent in a transaction is the ROLLBACK, or one between BEGIN and COMMIT.
LEMMA InTransaction ==
    ASSUME TypeOK, PlaceInv, NEW p \in Callers, Active(p)
    PROVE  /\ Transactional(p) <=> call[p].pc = 0 \/ Inside(p)
           /\ Transactional(p) => call[p].op \in {"reset", "accept"}
           /\ Inside(p) => call[p].pc # 0 /\ Statement(p) # "ROLLBACK" /\ Statement(p) # "BEGIN"
           /\ Statement(p) = "BEGIN" => ~Transactional(p) /\ call[p].op \in {"reset", "accept"}
           /\ Statement(p) = "COMMIT" => Inside(p)
  BY Places DEF Transactional, Inside

-----------------------------------------------------------------------------
(* Types *)

\* A pool with every client idle has each once.
LEMMA FullPool ==
    /\ SetToSeq(Clients) \in Seq(Clients)
    /\ \A i, j \in DOMAIN SetToSeq(Clients) : SetToSeq(Clients)[i] = SetToSeq(Clients)[j] => i = j
<1> DEFINE n == Cardinality(Clients)
           s == SetToSeq(Clients)
<1>1. n \in Nat /\ ExistsBijection(1..n, Clients)
  BY AccountsAssumption, FS_CardinalityType
<1>2. \E f \in [1..n -> Clients] : IsInjective(f)
  BY <1>1 DEF ExistsBijection, Bijection, Injection, IsInjective
<1>3. s \in [1..n -> Clients] /\ IsInjective(s)
  BY <1>2 DEF SetToSeq
<1> QED
  BY <1>1, <1>3 DEF IsInjective

\* The pool hands out the client released last, or a new one, and keeps the others.
LEMMA HandsOut ==
    ASSUME TypeOK, idle # <<>> \/ Free # {}
    PROVE  /\ Handed[1] \in Clients /\ (idle # <<>> => Handed[1] = Last(idle))
           /\ \A q \in Callers : call[q].on # Handed[1]
           /\ Handed[2] \in Seq(Clients)
           /\ \A i, j \in DOMAIN Handed[2] : Handed[2][i] = Handed[2][j] => i = j
           /\ \A i \in DOMAIN Handed[2] : Handed[2][i] \in Idle \ {Handed[1]}
<1>1. CASE idle = <<>>
  <2>1. Handed[1] \in Free /\ Handed[2] = <<>>
    BY <1>1 DEF Handed
  <2> QED
    BY <1>1, <2>1 DEF Free
<1>2. CASE idle # <<>>
  <2> DEFINE n == Len(idle)
  <2>1. /\ n \in Nat /\ n > 0 /\ DOMAIN idle = 1..n /\ \A i \in 1..n : idle[i] \in Clients
        /\ \A i, j \in 1..n : idle[i] = idle[j] => i = j
    BY <1>2 DEF TypeOK
  <2>2. Handed[1] = idle[n] /\ Handed[2] = SubSeq(idle, 1, n - 1) /\ Handed[1] = Last(idle)
    BY <1>2, <2>1 DEF Handed, Last, Front
  <2>3. /\ DOMAIN Handed[2] = 1..(n - 1) /\ \A i \in 1..(n - 1) : Handed[2][i] = idle[i]
        /\ Handed[2] \in Seq(Clients)
    BY <2>1, <2>2
  <2>4. 1..(n - 1) \subseteq 1..n /\ n \in 1..n /\ n \notin 1..(n - 1)
    BY <2>1
  <2>5. \A i \in DOMAIN Handed[2] : Handed[2][i] \in Idle \ {Handed[1]}
    <3> SUFFICES ASSUME NEW i \in 1..(n - 1) PROVE Handed[2][i] \in Idle \ {Handed[1]}
      BY <2>3
    <3>1. i \in 1..n /\ i # n /\ Handed[2][i] = idle[i]
      BY <2>1, <2>3, <2>4
    <3> QED
      BY <2>1, <2>2, <2>4, <3>1 DEF Idle
  <2>6. Handed[1] \in Idle /\ Handed[1] \in Clients
    BY <2>1, <2>2, <2>4 DEF Idle
  <2>7. \A q \in Callers : call[q].on # Handed[1]
    BY <2>6 DEF TypeOK
  <2> QED
    BY <2>1, <2>2, <2>3, <2>4, <2>5, <2>6, <2>7
<1> QED
  BY <1>1, <1>2

\* A client that is returned is idle again, and the last one.
LEMMA TakesBack ==
    ASSUME idle \in Seq(Clients), \A i, j \in DOMAIN idle : idle[i] = idle[j] => i = j,
           NEW c \in Clients, c \notin Idle, Release(c)
    PROVE  /\ idle' \in Seq(Clients) /\ idle' # <<>> /\ Last(idle') = c
           /\ \A i, j \in DOMAIN idle' : idle'[i] = idle'[j] => i = j
           /\ Idle' = Idle \cup {c}
<1> DEFINE n == Len(idle)
<1>1. n \in Nat /\ DOMAIN idle = 1..n
  OBVIOUS
<1>2. /\ idle' \in Seq(Clients) /\ Len(idle') = n + 1 /\ DOMAIN idle' = 1..(n + 1)
      /\ \A i \in 1..n : idle'[i] = idle[i]
      /\ idle'[n + 1] = c
  BY <1>1 DEF Release
<1>3. 1..(n + 1) = 1..n \cup {n + 1}
  BY <1>1
<1>4. \A i, j \in 1..(n + 1) : idle'[i] = idle'[j] => i = j
  BY <1>1, <1>2, <1>3 DEF Idle
<1>5. Idle' = Idle \cup {c}
  <2>1. Idle' = {idle'[i] : i \in 1..(n + 1)} /\ Idle = {idle[i] : i \in 1..n}
    BY <1>1, <1>2 DEF Idle
  <2> QED
    BY <1>2, <1>3, <2>1
<1>6. Last(idle') = c /\ idle' # <<>>
  BY <1>1, <1>2 DEF Last
<1> QED
  BY <1>2, <1>4, <1>5, <1>6

Calling == [op : Ops, token : Tokens, pc : 0..10, on : Clients \cup {None},
            tenant : Callers \cup {None}, status : {"none", "new", "active", "ok", "failed"}]

\* A request that throws rolls back if it is inside its transaction, and has failed otherwise.
LEMMA Thrown ==
    ASSUME TypeOK, PlaceInv, NEW p \in Callers, Active(p), Throws(p)
    PROVE  /\ call' \in [Callers -> Calling] /\ \A q \in Callers \ {p} : call'[q] = call[q]
           /\ call'[p].op = call[p].op /\ call'[p].token = call[p].token /\ call'[p].on = None
           /\ Transactional(p) /\ call[p].pc # 0 => call'[p].pc = 0 /\ call'[p].status = "active"
           /\ ~(Transactional(p) /\ call[p].pc # 0) => call'[p].pc = 1 /\ call'[p].status = "failed"
<1>1. call \in [Callers -> Calling] /\ call[p] \in Calling /\ call[p].status = "active"
  BY DEF TypeOK, Calling, Active
<1> DEFINE r == IF Transactional(p) /\ call[p].pc # 0
                THEN [call[p] EXCEPT !.on = None, !.pc = 0] ELSE Failed(p)
<1>2. call' = [call EXCEPT ![p] = r]
  BY <1>1 DEF Throws
<1>3. /\ r \in Calling /\ r.op = call[p].op /\ r.token = call[p].token /\ r.on = None
      /\ Transactional(p) /\ call[p].pc # 0 => r.pc = 0 /\ r.status = "active"
      /\ ~(Transactional(p) /\ call[p].pc # 0) => r.pc = 1 /\ r.status = "failed"
  <2>1. CASE Transactional(p) /\ call[p].pc # 0
    <3>1. r = [call[p] EXCEPT !.on = None, !.pc = 0]
      BY <2>1
    <3> HIDE DEF r
    <3>4. {0, 1} \subseteq 0..10
      OBVIOUS
    <3>5. r \in Calling
      BY <1>1, <3>1, <3>4 DEF Calling
    <3>6. r.op = call[p].op /\ r.token = call[p].token /\ r.on = None
      BY <1>1, <3>1 DEF Calling
    <3>7. r.pc = 0 /\ r.status = "active"
      BY <1>1, <3>1 DEF Calling
    <3> QED
      BY <2>1, <3>5, <3>6, <3>7
  <2>2. CASE ~(Transactional(p) /\ call[p].pc # 0)
    <3>1. r = [call[p] EXCEPT !.pc = 1, !.on = None, !.tenant = None, !.status = "failed"]
      BY <2>2 DEF Failed
    <3> HIDE DEF r
    <3>4. {0, 1} \subseteq 0..10
      OBVIOUS
    <3>5. r \in Calling
      BY <1>1, <3>1, <3>4 DEF Calling
    <3>6. r.op = call[p].op /\ r.token = call[p].token /\ r.on = None
      BY <1>1, <3>1 DEF Calling
    <3>7. r.pc = 1 /\ r.status = "failed"
      BY <1>1, <3>1 DEF Calling
    <3> QED
      BY <2>2, <3>5, <3>6, <3>7
  <2> QED
    BY <2>1, <2>2
<1> HIDE DEF r
<1> QED
  BY <1>1, <1>2, <1>3

\* A request that goes on takes its next place or has answered.
LEMMA Advanced ==
    ASSUME TypeOK, PlaceInv, NEW p \in Callers, Active(p), NEW next \in 1..11,
           NEW tenant \in Callers \cup {None}, Advance(p, next, tenant)
    PROVE  /\ call' \in [Callers -> Calling] /\ \A q \in Callers \ {p} : call'[q] = call[q]
           /\ call'[p].op = call[p].op /\ call'[p].token = call[p].token /\ call'[p].on = None
           /\ next > Len(Program[call[p].op]) => call'[p].pc = 1 /\ call'[p].status = "ok"
           /\ next <= Len(Program[call[p].op]) =>
                call'[p].pc = next /\ call'[p].status = "active" /\ call'[p].tenant = tenant
<1>1. call \in [Callers -> Calling] /\ call[p] \in Calling /\ call[p].status = "active"
  BY DEF TypeOK, Calling, Active
<1>4. Len(Program[call[p].op]) \in Nat
  BY <1>1, Sizes DEF Calling
<1> DEFINE over == next > Len(Program[call[p].op])
           r == [call[p] EXCEPT !.pc = IF over THEN 1 ELSE next, !.on = None,
                                !.tenant = IF over THEN None ELSE tenant,
                                !.status = IF over THEN "ok" ELSE "active"]
<1>2. call' = [call EXCEPT ![p] = r]
  BY <1>1 DEF Advance
<1>3. /\ r \in Calling /\ r.op = call[p].op /\ r.token = call[p].token /\ r.on = None
      /\ over => r.pc = 1 /\ r.status = "ok"
      /\ ~over => r.pc = next /\ r.status = "active" /\ r.tenant = tenant
  <2>1. CASE over
    <3>1. r = [call[p] EXCEPT !.pc = 1, !.on = None, !.tenant = None, !.status = "ok"]
      BY <2>1
    <3> HIDE DEF r
    <3>4. {0, 1} \subseteq 0..10
      OBVIOUS
    <3>5. r \in Calling
      BY <1>1, <3>1, <3>4 DEF Calling
    <3>6. r.op = call[p].op /\ r.token = call[p].token /\ r.on = None
      BY <1>1, <3>1 DEF Calling
    <3>7. r.pc = 1 /\ r.status = "ok"
      BY <1>1, <3>1 DEF Calling
    <3> QED
      BY <2>1, <3>5, <3>6, <3>7
  <2>2. CASE ~over
    <3>1. r = [call[p] EXCEPT !.pc = next, !.on = None, !.tenant = tenant, !.status = "active"]
      BY <2>2
    <3> HIDE DEF r
    <3>2. next \in 0..10
      <4> DEFINE n == Len(Program[call[p].op])
      <4>1. n \in 0..10 /\ ~(next > n)
        BY <1>1, <2>2, Sizes DEF Calling
      <4> HIDE DEF n
      <4> QED
        BY <4>1
    <3>5. r \in Calling
      BY <1>1, <3>1, <3>2 DEF Calling
    <3>6. r.op = call[p].op /\ r.token = call[p].token /\ r.on = None
      BY <1>1, <3>1 DEF Calling
    <3>7. r.pc = next /\ r.status = "active" /\ r.tenant = tenant
      BY <1>1, <3>1 DEF Calling
    <3> QED
      BY <2>2, <3>5, <3>6, <3>7
  <2> QED
    BY <2>1, <2>2
<1> HIDE DEF r
<1> QED
  BY <1>1, <1>2, <1>3, <1>4

\* What TypeOK says of the rows, of the pool and of the clients.
RowsOK ==
    /\ db \in [Rows -> Values] /\ db["workspace"] \in Callers \cup {None}
    /\ DOMAIN pending = Clients
    /\ \A c \in Clients :
        /\ DOMAIN pending[c] \subseteq Rows /\ \A r \in DOMAIN pending[c] : pending[c][r] \in Values
        /\ "workspace" \in DOMAIN pending[c] => pending[c]["workspace"] \in Callers \cup {None}
        /\ opener[c] = None => pending[c] = Empty
PoolOK ==
    /\ idle \in Seq(Clients) /\ \A i, j \in DOMAIN idle : idle[i] = idle[j] => i = j
    /\ \A p \in Callers : call[p].on \notin Idle
    /\ \A p, q \in Callers : call[p].on = call[q].on => p = q \/ call[p].on = None
ClientsOK == opener \in [Clients -> Callers \cup {None}]
RestOK == faults \in Nat /\ met \subseteq {"transaction", "request", "reset"} /\ strayed \in BOOLEAN

\* TypeOK, in the parts the proofs use one at a time.
LEMMA TypeParts == TypeOK <=> RowsOK /\ PoolOK /\ ClientsOK /\ RestOK /\ call \in [Callers -> Calling]
  BY DEF TypeOK, RowsOK, PoolOK, ClientsOK, RestOK, Calling

\* The parts, of the next state, make TypeOK.
LEMMA PartsType ==
    ASSUME RowsOK', PoolOK', ClientsOK', RestOK', call' \in [Callers -> Calling]
    PROVE  TypeOK'
  BY DEF TypeOK, RowsOK, PoolOK, ClientsOK, RestOK, Calling

\* At first the pool is full, and every request is before its first statement.
LEMMA InitTypeOK == Init => TypeOK /\ PlaceInv
<1> SUFFICES ASSUME Init PROVE TypeOK /\ PlaceInv
  OBVIOUS
<1>1. RowsOK
  <2>1. db \in [Rows -> Values]
    BY DEF Init, Rows, Values
  <2>2. DOMAIN Empty = {}
    BY DEF Empty
  <2>3. db["workspace"] = None
    BY AccountsAssumption DEF Init, Rows, Fields, Tokens
  <2> QED
    BY <2>1, <2>2, <2>3 DEF Init, RowsOK
<1>2. call \in [Callers -> Calling] /\ PlaceInv /\ \A p \in Callers : call[p].on = None
  <2>1. PICK mix \in Plans :
          call = [p \in Callers |->
                     [op |-> IF p \in DOMAIN mix.ops THEN mix.ops[p] ELSE "login",
                      token |-> First, pc |-> 1, on |-> None, tenant |-> None,
                      status |-> IF p \in DOMAIN mix.ops THEN "new" ELSE "none"]]
    BY DEF Init
  <2>2. \A p \in Callers : (IF p \in DOMAIN mix.ops THEN mix.ops[p] ELSE "login") \in Ops
    BY AccountsAssumption, Sizes
  <2>3. First \in Tokens /\ 1 \in 0..10
    BY DEF Tokens
  <2> QED
    BY <2>1, <2>2, <2>3 DEF Calling, PlaceInv, Active
<1>3. PoolOK
  <2>1. idle = SetToSeq(Clients)
    BY DEF Init
  <2>2. \A i \in DOMAIN idle : idle[i] # None
    BY <2>1, FullPool, AccountsAssumption
  <2>3. \A p \in Callers : call[p].on \notin Idle
    BY <1>2, <2>2 DEF Idle
  <2> QED
    BY <1>2, <2>1, <2>3, FullPool DEF PoolOK
<1>4. ClientsOK /\ RestOK
  <2>1. \A mix \in Plans : mix.faults \in Nat
    BY AccountsAssumption
  <2> QED
    BY <2>1 DEF Init, ClientsOK, RestOK
<1> QED
  BY <1>1, <1>2, <1>3, <1>4, TypeParts

\* What two statements write, row by row.
LEMMA OntoRow ==
    ASSUME NEW w, NEW f
    PROVE  /\ DOMAIN Onto(w, f) = DOMAIN w \cup DOMAIN f
           /\ \A r \in DOMAIN w : Onto(w, f)[r] = w[r]
           /\ \A r \in DOMAIN f \ DOMAIN w : Onto(w, f)[r] = f[r]
  BY DEF Onto

\* Row(r, v) is the row r with the value v.
LEMMA RowRow == \A r, v : DOMAIN Row(r, v) = {r} /\ Row(r, v)[r] = v
  BY DEF Row

\* Empty has no row.
LEMMA NoRow == DOMAIN Empty = {}
  BY DEF Empty

\* What a client sees of a row is a value.
LEMMA SeesValue ==
    ASSUME TypeOK, NEW c \in Clients, NEW r \in Rows
    PROVE  See(c, r) \in Values /\ (r = "workspace" => See(c, r) \in Callers \cup {None})
  BY DEF See, TypeOK

\* What a statement writes are values of rows.
Writing(w) ==
    /\ DOMAIN w \subseteq Rows /\ \A r \in DOMAIN w : w[r] \in Values
    /\ "workspace" \in DOMAIN w => w["workspace"] \in Callers \cup {None}

\* What the schema statements write: rows with the values they have, and an owner.
LEMMA EnsuredType ==
    ASSUME TypeOK, NEW p \in Callers, NEW c \in Clients
    PROVE  Writing(Ensured(p, c)) /\ DOMAIN Ensured(p, c) \subseteq {"session", "member", "owner", "user"}
<1> DEFINE o == IF See(c, "workspace") # None /\ See(c, "owner") = None
                THEN Row("owner", See(c, "workspace")) ELSE Empty
           locked == [r \in {"session", "member"} |-> See(c, r)]
<1>1. {"session", "member", "owner", "user", "workspace"} \subseteq Rows
  BY DEF Rows, Fields
<1>2. \A r \in {"session", "member", "owner", "user", "workspace"} : See(c, r) \in Values
  BY <1>1, SeesValue
<1>3. Writing(Empty) /\ DOMAIN Empty \subseteq {"owner"}
  BY NoRow DEF Writing
<1>4. Writing(o) /\ DOMAIN o \subseteq {"owner"}
  BY <1>1, <1>2, <1>3, NoRow DEF Row, Writing
<1>8. Writing(locked) /\ DOMAIN locked = {"session", "member"}
  BY <1>1, <1>2 DEF Writing
<1> HIDE DEF o, locked
<1> DEFINE both == Onto(locked, o)
<1>5. Writing(both) /\ DOMAIN both \subseteq {"session", "member", "owner"}
  BY <1>4, <1>8 DEF Onto, Writing
<1>6. Writing(Row("user", See(c, "user"))) /\ DOMAIN Row("user", See(c, "user")) \subseteq {"user"}
  BY <1>1, <1>2, NoRow DEF Row, Writing
<1>7. \/ Ensured(p, c) = both
      \/ Ensured(p, c) = Row("user", See(c, "user"))
      \/ Ensured(p, c) = Empty
  BY DEF Ensured, o, both, locked
<1> HIDE DEF both
<1> QED
  BY <1>3, <1>5, <1>6, <1>7

\* A statement writes values to rows.
LEMMA ChangedType ==
    ASSUME TypeOK, NEW p \in Callers, NEW c \in Clients
    PROVE  Writing(Changed(p, c))
<1> DEFINE w == See(c, "workspace")
           retired == [t \in {u \in ResetTokens : See(c, u) = "live"} |-> "used"]
           dropped == [r \in Dropped(p, c) |-> "absent"]
<1>1. call[p].token \in Tokens /\ p \in Tokens /\ Fields \subseteq Rows /\ Tokens \subseteq Rows
  BY DEF TypeOK, Rows, Tokens
<1>8. "workspace" \in Fields /\ "workspace" \notin Tokens
  BY AccountsAssumption DEF Fields
<1>2. call[p].tenant \in Values /\ p \in Values /\ call[p].tenant \in Callers \cup {None}
  BY DEF TypeOK, Values
<1>3. w \in Callers \cup {None} /\ w \in Values
  BY <1>1, <1>8, SeesValue
<1>4. \A r \in Rows \ {"workspace"}, v \in Values : Writing(Row(r, v))
  BY DEF Row, Writing
<1>9. \A v \in Callers \cup {None} : Writing(Row("workspace", v))
  BY <1>1, <1>8 DEF Row, Writing, Values
<1>5. Writing(Empty)
  BY NoRow DEF Writing
<1>6. Writing(retired) /\ Writing(dropped)
  <2>1. ResetTokens \subseteq Tokens /\ Dropped(p, c) \subseteq {"session"} \cup Tokens
    BY DEF ResetTokens, Tokens, Dropped, SignIns
  <2>2. "session" \in Rows
    BY <1>1 DEF Fields
  <2> QED
    BY <1>1, <1>8, <2>1, <2>2 DEF Writing, Values
<1>7. \/ Changed(p, c) = retired \/ Changed(p, c) = dropped \/ Changed(p, c) = Empty
      \/ \E r \in Rows \ {"workspace"}, v \in Values : Changed(p, c) = Row(r, v)
      \/ \E v \in Callers \cup {None} : Changed(p, c) = Row("workspace", v)
  <2>1. {"used", "absent", "live", "present"} \subseteq Values
    BY DEF Values
  <2>2. {"password", "session", "member", "invitation", "verified", "verification", "user",
         "owner", "profile"} \subseteq Rows \ {"workspace"}
    BY <1>1 DEF Fields
  <2>3. Tokens \subseteq Rows \ {"workspace"}
    BY <1>1, <1>8
  <2> HIDE DEF w
  <2> QED
    BY <1>1, <1>2, <1>3, <2>1, <2>2, <2>3 DEF Changed, w
<1> HIDE DEF retired, dropped
<1> QED
  BY <1>4, <1>5, <1>6, <1>7, <1>9

\* A statement and the schema statements before it write values to rows.
LEMMA WrittenType ==
    ASSUME TypeOK, NEW p \in Callers, NEW c \in Clients
    PROVE  Writing(Written(p, c))
<1> DEFINE w == Changed(p, c)
           f == Ensured(p, c)
<1>1. Writing(w) /\ Writing(f)
  BY EnsuredType, ChangedType
<1> HIDE DEF w, f
<1>2. Writing(Onto(w, f))
  BY <1>1 DEF Writing, Onto
<1> QED
  BY <1>2 DEF Written, w, f

\* The place a statement leads to.
LEMMA FollowingType ==
    ASSUME TypeOK, PlaceInv, NEW p \in Callers, Active(p), call[p].pc # 0, NEW c
    PROVE  call[p].pc + 1 \in 1..11 /\ Following(p, c) \in 1..11
<1> DEFINE n == Len(Program[call[p].op])
<1>1. n \in 1..10 /\ call[p].pc \in 1..n
  <2>1. call[p].op \in Ops /\ call[p].pc \in 0..n
    BY DEF TypeOK, PlaceInv
  <2>2. n \in 1..10
    BY <2>1, Sizes
  <2> QED
    BY <2>1, <2>2
<1>2. n + 1 \in 1..11 /\ call[p].pc + 1 \in 1..11 /\ 4 \in 1..11 /\ 10 \in 1..11
  <2> HIDE DEF n
  <2>1. call[p].pc \in 1..10
    BY <1>1
  <2> QED
    BY <1>1, <2>1
<1>3. Following(p, c) \in {n + 1, 4, 10, call[p].pc + 1}
  BY DEF Following
<1> QED
  BY <1>2, <1>3

\* A step of a request leaves it without a client, at a place of its handler or ended.
Moved(p) ==
    /\ call' \in [Callers -> Calling] /\ \A q \in Callers \ {p} : call'[q] = call[q]
    /\ call'[p].op = call[p].op /\ call'[p].token = call[p].token /\ call'[p].on = None
    /\ call'[p].status \in {"active", "ok", "failed"}
    /\ call'[p].status = "active" =>
        /\ call'[p].pc \in 0..Len(Program[call[p].op])
        /\ call'[p].pc = 0 => call[p].op \in {"reset", "accept"}

\* An error moves a request on: to its ROLLBACK or its end.
LEMMA ThrownMoves ==
    ASSUME TypeOK, PlaceInv, NEW p \in Callers, Active(p), Throws(p)
    PROVE  Moved(p)
<1>1. Len(Program[call[p].op]) \in Nat
  BY Sizes DEF TypeOK
<1> QED
  BY <1>1, Thrown, InTransaction DEF Moved

\* Going on to the next statement moves a request on.
LEMMA AdvancedMoves ==
    ASSUME TypeOK, PlaceInv, NEW p \in Callers, Active(p), NEW next \in 1..11,
           NEW tenant \in Callers \cup {None}, Advance(p, next, tenant)
    PROVE  Moved(p)
<1>1. Len(Program[call[p].op]) \in Nat
  BY Sizes DEF TypeOK
<1>2. next > Len(Program[call[p].op]) \/ next <= Len(Program[call[p].op])
  BY <1>1
<1>3. next \in Nat /\ next # 0
  OBVIOUS
<1> QED
  BY <1>1, <1>2, <1>3, Advanced, SMTT(30) DEF Moved

\* BEGIN, COMMIT and ROLLBACK move a request on.
LEMMA SettledMoves ==
    ASSUME TypeOK, PlaceInv, NEW p \in Callers, Active(p), Settles(p)
    PROVE  Moved(p)
<1>1. CASE Statement(p) = "ROLLBACK"
  BY <1>1, ThrownMoves DEF Settles
<1>2. CASE Statement(p) # "ROLLBACK"
  <2>1. call[p].pc # 0
    BY <1>2 DEF Statement
  <2>2. call[p].pc + 1 \in 1..11 /\ call[p].tenant \in Callers \cup {None}
    BY <2>1, FollowingType DEF TypeOK
  <2> QED
    BY <1>2, <2>2, AdvancedMoves DEF Settles
<1> QED
  BY <1>1, <1>2

\* Every other statement moves a request on.
LEMMA QueriedMoves ==
    ASSUME TypeOK, PlaceInv, NEW p \in Callers, Active(p), call[p].on \in Clients, Queries(p)
    PROVE  Moved(p)
<1> DEFINE c == call[p].on
           tenant == IF Statement(p) # "findOwned" THEN call[p].tenant
                     ELSE IF See(c, "workspace") = None THEN p ELSE See(c, "workspace")
<1>1. CASE Throws(p)
  BY <1>1, ThrownMoves
<1>2. CASE ~Throws(p)
  <2>1. Advance(p, Following(p, c), tenant)
    BY <1>2 DEF Queries
  <2>2. call[p].pc # 0
    BY DEF Queries, Statement
  <2>3. Following(p, c) \in 1..11
    BY <2>2, FollowingType
  <2>4. tenant \in Callers \cup {None}
    <3>1. "workspace" \in Rows
      BY DEF Rows, Fields
    <3>2. See(c, "workspace") \in Callers \cup {None} /\ call[p].tenant \in Callers \cup {None}
      BY <3>1, SeesValue DEF TypeOK
    <3> QED
      BY <3>2
  <2> HIDE DEF tenant, c
  <2> QED
    BY <2>1, <2>3, <2>4, AdvancedMoves
<1> QED
  BY <1>1, <1>2

\* A request that moves keeps to its handler.
LEMMA MovedKeepsPlace ==
    ASSUME TypeOK, PlaceInv, NEW p \in Callers, Moved(p)
    PROVE  PlaceInv'
<1> SUFFICES ASSUME NEW q \in Callers
             PROVE  /\ call'[q].on # None => call'[q].status = "active"
                    /\ call'[q].status = "new" => call'[q].pc = 1
                    /\ call'[q].status = "active" =>
                        /\ call'[q].pc \in 0..Len(Program[call'[q].op])
                        /\ call'[q].pc = 0 => call'[q].op \in {"reset", "accept"}
  BY DEF PlaceInv, Active
<1>1. CASE q = p
  BY <1>1 DEF Moved
<1>2. CASE q # p
  BY <1>2 DEF Moved, PlaceInv, Active
<1> QED
  BY <1>1, <1>2

\* A request has its client alone, and the client is not idle.
LEMMA HasAlone ==
    ASSUME TypeOK, NEW p \in Callers, call[p].on # None
    PROVE  /\ call[p].on \in Clients /\ call[p].on \notin Idle
           /\ \A q \in Callers : q # p => call[q].on # call[p].on
  BY DEF TypeOK

\* The client of a request that has moved is idle, if it was returned.
LEMMA MovedReturns ==
    ASSUME TypeOK, NEW p \in Callers, call[p].on # None, Moved(p), Release(call[p].on)
    PROVE  PoolOK' /\ idle' # <<>> /\ Last(idle') = call[p].on
<1> DEFINE c == call[p].on
<1>1. /\ c \in Clients /\ call'[p].on = None /\ None \notin Clients /\ c \notin Idle
      /\ \A q \in Callers : q # p => call[q].on # c /\ call'[q] = call[q]
  BY HasAlone, AccountsAssumption DEF Moved
<1>2. idle \in Seq(Clients) /\ \A i, j \in DOMAIN idle : idle[i] = idle[j] => i = j
  BY DEF TypeOK
<1>3. /\ idle' \in Seq(Clients) /\ idle' # <<>> /\ Last(idle') = c
      /\ \A i, j \in DOMAIN idle' : idle'[i] = idle'[j] => i = j
      /\ Idle' = Idle \cup {c}
  BY <1>1, <1>2, TakesBack
<1>4. None \notin Idle'
  <2>1. Idle \subseteq Clients
    BY <1>2 DEF Idle
  <2> QED
    BY <1>1, <1>3, <2>1
<1>5. \A q \in Callers : call'[q].on \notin Idle'
  BY <1>1, <1>3, <1>4 DEF TypeOK
<1>6. \A q, r \in Callers : call'[q].on = call'[r].on => q = r \/ call'[q].on = None
  BY <1>1 DEF TypeOK, Moved
<1> QED
  BY <1>3, <1>5, <1>6 DEF PoolOK

\* A request that has moved leaves the pool as it is, if its client was closed.
LEMMA MovedCloses ==
    ASSUME TypeOK, NEW p \in Callers, Moved(p), UNCHANGED idle
    PROVE  PoolOK'
<1>1. idle \in Seq(Clients) /\ \A i, j \in DOMAIN idle : idle[i] = idle[j] => i = j
  BY DEF TypeOK
<1>2. None \notin Idle /\ Idle' = Idle
  BY <1>1, AccountsAssumption DEF Idle
<1>3. \A q \in Callers : call'[q].on \notin Idle'
  BY <1>2 DEF TypeOK, Moved
<1>4. \A q, r \in Callers : call'[q].on = call'[r].on => q = r \/ call'[q].on = None
  BY DEF TypeOK, Moved
<1> QED
  BY <1>1, <1>3, <1>4 DEF PoolOK

\* Connect hands out one client.
LEMMA ConnectType ==
    ASSUME TypeOK, PlaceInv, NEW p \in Callers, Connect(p)
    PROVE  /\ TypeOK' /\ PlaceInv'
           /\ call' = [call EXCEPT ![p].on = Handed[1]] /\ Handed[1] \in Clients
           /\ (idle # <<>> => Handed[1] = Last(idle))
           /\ call'[p].on = Handed[1] /\ \A q \in Callers : q # p => call'[q] = call[q]
<1> DEFINE c == Handed[1]
<1>1. /\ c \in Clients /\ (idle # <<>> => c = Last(idle)) /\ \A q \in Callers : call[q].on # c
      /\ idle' \in Seq(Clients) /\ call' = [call EXCEPT ![p].on = c]
      /\ \A i, j \in DOMAIN idle' : idle'[i] = idle'[j] => i = j
      /\ \A i \in DOMAIN idle' : idle'[i] \in Idle \ {c}
  BY HandsOut DEF Connect
<1> HIDE DEF c
<1>3. call \in [Callers -> Calling] /\ call[p].on = None /\ Active(p) /\ None \notin Clients
  BY AccountsAssumption DEF TypeOK, Connect, Calling
<1>5. /\ call' \in [Callers -> Calling] /\ \A q \in Callers : q # p => call'[q] = call[q]
      /\ call'[p].on = c /\ call'[p].status = call[p].status /\ call'[p].pc = call[p].pc
      /\ call'[p].op = call[p].op
  BY <1>1, <1>3, SMTT(30) DEF Calling
<1>7. PoolOK'
  <2>1. \A q \in Callers : call'[q].on \notin Idle'
    <3>1. Idle' \subseteq Idle \ {c}
      BY <1>1 DEF Idle
    <3> QED
      BY <1>5, <3>1 DEF TypeOK
  <2>2. \A q, r \in Callers : call'[q].on = call'[r].on => q = r \/ call'[q].on = None
    BY <1>1, <1>5 DEF TypeOK
  <2> QED
    BY <1>1, <2>1, <2>2 DEF PoolOK
<1>8. RowsOK' /\ ClientsOK' /\ RestOK'
  BY TypeParts DEF Connect, RowsOK, ClientsOK, RestOK, clientVars, history
<1>9. PlaceInv'
  BY <1>3, <1>5 DEF PlaceInv, Active
<1>10. TypeOK'
  BY <1>5, <1>7, <1>8, PartsType
<1> QED
  BY <1>1, <1>5, <1>9, <1>10 DEF c

\* Begin activates a request at its first statement.
LEMMA BeginType ==
    ASSUME TypeOK, PlaceInv, NEW p \in Callers, NEW t \in Tokens, Begin(p, t)
    PROVE  /\ TypeOK' /\ PlaceInv'
           /\ \A q \in Callers : q # p => call'[q] = call[q]
           /\ call'[p] = [call[p] EXCEPT !.token = t, !.status = "active"]
           /\ call[p].status = "new" /\ call[p].pc = 1 /\ call[p].on = None
           /\ call'[p].op = call[p].op /\ call'[p].token = t /\ call'[p].pc = 1 /\ call'[p].on = None
           /\ call'[p].status = "active"
<1>1. call \in [Callers -> Calling] /\ call[p].status = "new" /\ call[p].pc = 1 /\ call[p].on = None
  BY DEF TypeOK, PlaceInv, Begin, Calling, Active
<1>2. call' = [call EXCEPT ![p] = [call[p] EXCEPT !.token = t, !.status = "active"]]
  BY <1>1 DEF Begin
<1>3. /\ call' \in [Callers -> Calling] /\ \A q \in Callers : q # p => call'[q] = call[q]
      /\ call'[p] = [call[p] EXCEPT !.token = t, !.status = "active"]
  <2> DEFINE begun == [call[p] EXCEPT !.token = t, !.status = "active"]
  <2>1. begun \in Calling
    BY <1>1 DEF Calling
  <2>2. call' = [call EXCEPT ![p] = begun]
    BY <1>2
  <2> HIDE DEF begun
  <2>3. /\ call' \in [Callers -> Calling] /\ \A q \in Callers : q # p => call'[q] = call[q]
        /\ call'[p] = begun
    BY <1>1, <2>1, <2>2
  <2> QED
    BY <2>3 DEF begun
<1>4. /\ call'[p].on = None /\ call'[p].status = "active" /\ call'[p].pc = 1
      /\ call'[p].op = call[p].op /\ call'[p].token = t
  BY <1>1, <1>3 DEF Calling
<1>5. PoolOK'
  <2>1. \A q \in Callers : call'[q].on = call[q].on
    BY <1>1, <1>3, <1>4
  <2> QED
    BY <2>1, TypeParts DEF PoolOK, Begin, Idle
<1>6. RowsOK' /\ ClientsOK'
  BY TypeParts DEF Begin, RowsOK, ClientsOK, clientVars
<1>7. RestOK'
  BY TypeParts DEF Begin, RestOK, Beside
<1>8. PlaceInv'
  <2>1. 1 \in 0..Len(Program[call[p].op])
    <3>1. call[p].op \in Ops
      BY DEF TypeOK
    <3> DEFINE n == Len(Program[call[p].op])
    <3>2. n \in 1..10
      BY <3>1, Sizes
    <3> HIDE DEF n
    <3>3. 1 \in 0..n
      BY <3>2
    <3> QED
      BY <3>3 DEF n
  <2>2. \A q \in Callers : q # p =>
            /\ call'[q].on # None => call'[q].status = "active"
            /\ call'[q].status = "new" => call'[q].pc = 1
            /\ call'[q].status = "active" =>
                /\ call'[q].pc \in 0..Len(Program[call'[q].op])
                /\ call'[q].pc = 0 => call'[q].op \in {"reset", "accept"}
    BY <1>3 DEF PlaceInv, Active
  <2>3. call'[p].on = None /\ call'[p].status = "active" /\ call'[p].pc \in 0..Len(Program[call'[p].op]) /\
            call'[p].pc # 0
    BY <1>4, <2>1
  <2> QED
    BY <2>2, <2>3 DEF PlaceInv, Active
<1>9. TypeOK'
  BY <1>3, <1>5, <1>6, <1>7 DEF TypeOK, RowsOK, PoolOK, ClientsOK, RestOK, Calling
<1> QED
  BY <1>1, <1>3, <1>4, <1>8, <1>9

\* The end of a client's transaction keeps the types.
LEMMA RolledBackType ==
    ASSUME TypeOK, NEW c \in Clients, RolledBack(c)
    PROVE  /\ ClientsOK' /\ DOMAIN pending' = Clients /\ pending'[c] = Empty /\ opener'[c] = None
           /\ \A d \in Clients : d # c => pending'[d] = pending[d] /\ opener'[d] = opener[d]
           /\ db' \in [Rows -> Values] /\ db'["workspace"] \in Callers \cup {None} => RowsOK'
<1>1. opener \in [Clients -> Callers \cup {None}] /\ DOMAIN pending = Clients
  BY DEF TypeOK
<1>2. /\ ClientsOK' /\ DOMAIN pending' = Clients /\ pending'[c] = Empty /\ opener'[c] = None
      /\ \A d \in Clients : d # c => pending'[d] = pending[d] /\ opener'[d] = opener[d]
  BY <1>1 DEF RolledBack, ClientsOK
<1>3. RowsOK
  BY TypeParts
<1> QED
  BY <1>2, <1>3, NoRow DEF RowsOK

\* Writing over the rows keeps their types.
LEMMA WritesType ==
    ASSUME TypeOK, NEW w, Writing(w)
    PROVE  Onto(w, db) \in [Rows -> Values] /\ Onto(w, db)["workspace"] \in Callers \cup {None}
<1>1. db \in [Rows -> Values] /\ "workspace" \in Rows /\ db["workspace"] \in Callers \cup {None}
  BY DEF TypeOK, Rows, Fields
<1> QED
  BY <1>1 DEF Writing, Onto

\* Run returns its client to the pool.
LEMMA RunType ==
    ASSUME TypeOK, PlaceInv, NEW p \in Callers, Run(p)
    PROVE  /\ TypeOK' /\ PlaceInv' /\ Moved(p)
           /\ idle' # <<>> /\ Last(idle') = call[p].on
<1> DEFINE c == call[p].on
<1>1. Active(p) /\ c # None /\ c \in Clients
  BY DEF Run, TypeOK
<1>2. Moved(p)
  BY <1>1, SettledMoves, QueriedMoves DEF Run
<1>3. PoolOK' /\ idle' # <<>> /\ Last(idle') = c
  BY <1>1, <1>2, MovedReturns DEF Run
<1>7. RowsOK /\ ClientsOK /\ RestOK
  BY TypeParts
<1>4. RestOK'
  BY <1>7 DEF Run, Strays, RestOK
<1>5. ASSUME Settles(p) PROVE ClientsOK' /\ RowsOK'
  <2>1. CASE Statement(p) = "BEGIN"
    <3>1. opener' = [opener EXCEPT ![c] = IF @ = None THEN p ELSE @] /\ UNCHANGED <<db, pending>>
      BY <1>5, <2>1 DEF Settles
    <3>2. ClientsOK' /\ \A d \in Clients : opener'[d] = None => opener[d] = None
      BY <1>1, <1>7, <3>1, AccountsAssumption DEF ClientsOK
    <3> QED
      BY <3>1, <3>2, <1>7 DEF RowsOK
  <2>2. CASE Statement(p) # "BEGIN"
    <3>1. RolledBack(c) /\ db' = IF Statement(p) = "COMMIT" THEN Onto(pending[c], db) ELSE db
      BY <1>5, <2>2 DEF Settles
    <3>2. Writing(pending[c])
      BY <1>1 DEF Writing, TypeOK
    <3>3. db' \in [Rows -> Values] /\ db'["workspace"] \in Callers \cup {None}
      BY <3>1, <3>2, WritesType DEF TypeOK
    <3> QED
      BY <1>1, <3>1, <3>3, RolledBackType
  <2> QED
    BY <2>1, <2>2
<1>6. ASSUME Queries(p) PROVE ClientsOK' /\ RowsOK'
  <2> DEFINE w == Written(p, c)
  <2>3. /\ opener' = opener
        /\ \/ opener[c] = None /\ db' = Onto(w, db) /\ UNCHANGED pending
           \/ opener[c] # None /\ pending' = [pending EXCEPT ![c] = Onto(w, pending[c])] /\ UNCHANGED db
    BY <1>1, <1>6 DEF Queries, TypeOK
  <2>4. Writing(w)
    BY <1>1, WrittenType
  <2> HIDE DEF w
  <2>2. ClientsOK'
    BY <1>7, <2>3 DEF ClientsOK
  <2>6. CASE opener[c] = None /\ db' = Onto(w, db) /\ UNCHANGED pending
    <3>1. db' \in [Rows -> Values] /\ db'["workspace"] \in Callers \cup {None}
      BY <2>4, <2>6, WritesType
    <3> QED
      BY <2>2, <2>3, <2>6, <3>1, <1>7 DEF RowsOK
  <2>7. CASE opener[c] # None /\ pending' = [pending EXCEPT ![c] = Onto(w, pending[c])] /\ UNCHANGED db
    <3>1. Writing(pending[c])
      BY <1>1 DEF TypeOK, Writing
    <3>2. Writing(Onto(w, pending[c]))
      BY <2>4, <3>1 DEF Writing, Onto
    <3>3. /\ DOMAIN pending' = Clients /\ pending'[c] = Onto(w, pending[c])
          /\ \A d \in Clients : d # c => pending'[d] = pending[d]
      BY <1>1, <2>7 DEF TypeOK
    <3> QED
      BY <2>2, <2>3, <2>7, <3>2, <3>3, <1>7 DEF RowsOK, Writing
  <2> QED
    BY <2>3, <2>6, <2>7
<1>8. call' \in [Callers -> Calling] /\ ClientsOK' /\ RowsOK'
  BY <1>2, <1>5, <1>6 DEF Moved, Run
<1>9. TypeOK'
  BY <1>3, <1>4, <1>8, PartsType
<1> QED
  BY <1>1, <1>2, <1>3, <1>9, MovedKeepsPlace

\* A statement that fails closes its client.
LEMMA FailsType ==
    ASSUME TypeOK, PlaceInv, NEW p \in Callers, Fails(p), faults' \in Nat
    PROVE  /\ TypeOK' /\ PlaceInv' /\ Moved(p)
<1> DEFINE c == call[p].on
<1>1. Active(p) /\ c # None /\ c \in Clients
  BY DEF Fails, TypeOK
<1>2. Moved(p)
  BY <1>1, ThrownMoves DEF Fails
<1>3. PoolOK'
  BY <1>2, MovedCloses DEF Fails
<1>4. RestOK'
  BY TypeParts DEF Fails, Strays, RestOK
<1>5. ClientsOK' /\ RowsOK'
  BY <1>1, RolledBackType DEF Fails, TypeOK
<1>7. TypeOK'
  BY <1>2, <1>3, <1>4, <1>5, PartsType DEF Moved
<1> QED
  BY <1>2, <1>7, MovedKeepsPlace

\* A fault, a broken constraint and a detected deadlock make a statement fail.
LEMMA ErrorsFail ==
    ASSUME TypeOK, NEW p \in Callers, Fault(p) \/ Rejected(p) \/ DeadlockDetected(p)
    PROVE  Fails(p) /\ faults' \in Nat
  BY DEF TypeOK, Fault, Rejected, DeadlockDetected

\* A request that is given no client moves on.
LEMMA TimeoutType ==
    ASSUME TypeOK, PlaceInv, NEW p \in Callers, ConnectTimeout(p)
    PROVE  TypeOK' /\ PlaceInv' /\ Moved(p)
<1>1. Active(p) /\ call[p].on = None /\ Moved(p)
  BY ThrownMoves DEF ConnectTimeout
<1>2. RowsOK /\ PoolOK /\ ClientsOK /\ RestOK
  BY TypeParts
<1>3. RowsOK' /\ ClientsOK'
  BY <1>2 DEF ConnectTimeout, RowsOK, ClientsOK, clientVars
<1>4. RestOK'
  BY <1>2 DEF ConnectTimeout, RestOK, history
<1>5. PoolOK'
  BY <1>1, MovedCloses DEF ConnectTimeout
<1>6. call' \in [Callers -> Calling]
  BY <1>1 DEF Moved
<1>7. TypeOK'
  BY <1>3, <1>4, <1>5, <1>6, PartsType
<1> QED
  BY <1>1, <1>7, MovedKeepsPlace

\* The pool closes its oldest idle client.
LEMMA IdleTimeoutType ==
    ASSUME TypeOK, PlaceInv, IdleTimeout
    PROVE  TypeOK' /\ PlaceInv' /\ Head(idle) \in Clients
<1>1. RowsOK /\ PoolOK /\ ClientsOK /\ RestOK /\ call \in [Callers -> Calling]
  BY TypeParts
<1> DEFINE n == Len(idle)
<1>2. /\ n \in Nat /\ n > 0 /\ DOMAIN idle = 1..n /\ idle \in Seq(Clients) /\ idle # <<>>
      /\ \A i, j \in 1..n : idle[i] = idle[j] => i = j
  <2>1. DOMAIN idle # {}
    BY DEF IdleTimeout, Idle
  <2> QED
    BY <1>1, <2>1 DEF PoolOK
<1>3. /\ Head(idle) \in Clients /\ RolledBack(Head(idle)) /\ idle' = Tail(idle)
      /\ UNCHANGED <<db, call, faults, met, strayed>>
  BY <1>2 DEF IdleTimeout, history
<1>4. ClientsOK' /\ RowsOK'
  BY <1>3, RolledBackType DEF TypeOK
<1>5. PoolOK'
  <2>1. /\ idle' \in Seq(Clients) /\ DOMAIN idle' = 1..(n - 1)
        /\ \A i \in 1..(n - 1) : idle'[i] = idle[i + 1] /\ i + 1 \in 1..n
    BY <1>2, <1>3
  <2>2. \A i, j \in 1..(n - 1) : idle'[i] = idle'[j] => i = j
    BY <1>2, <2>1
  <2>3. Idle' \subseteq Idle
    <3>1. Idle' = {idle'[i] : i \in 1..(n - 1)} /\ Idle = {idle[i] : i \in 1..n}
      BY <1>2, <2>1 DEF Idle
    <3> QED
      BY <2>1, <3>1
  <2> QED
    BY <1>1, <1>3, <2>1, <2>2, <2>3 DEF PoolOK
<1>6. RestOK' /\ PlaceInv' /\ call' \in [Callers -> Calling]
  BY <1>1, <1>3 DEF RestOK, PlaceInv, Active
<1> QED
  BY <1>3, <1>4, <1>5, <1>6, PartsType

\* After a crash the pool has no client and no request is active.
LEMMA CrashType ==
    ASSUME TypeOK, PlaceInv, Crash
    PROVE  /\ TypeOK' /\ PlaceInv'
           /\ \A p \in Callers : /\ call'[p].op = call[p].op /\ call'[p].token = call[p].token
                                 /\ call'[p].status = IF Active(p) THEN "failed" ELSE call[p].status
           /\ \A c \in Clients : opener'[c] = None
<1>1. RowsOK /\ PoolOK /\ ClientsOK /\ RestOK /\ call \in [Callers -> Calling]
  BY TypeParts
<1>2. \A p \in Callers : Active(p)
          => call'[p] = [call[p] EXCEPT !.pc = 1, !.on = None, !.tenant = None, !.status = "failed"]
  BY DEF Crash, Failed
<1>3. DOMAIN call' = Callers /\ call' = [p \in Callers |-> call'[p]] /\ \A p \in Callers : ~Active(p)
          => call'[p] = call[p]
  BY DEF Crash
<1>4. \A p \in Callers : ~Active(p) => call[p].on = None
  BY DEF PlaceInv
<1>5. ASSUME NEW p \in Callers
      PROVE  /\ call'[p] \in Calling /\ call'[p].on = None
             /\ call'[p].op = call[p].op /\ call'[p].token = call[p].token
             /\ call'[p].status = IF Active(p) THEN "failed" ELSE call[p].status
             /\ call'[p].pc = IF Active(p) THEN 1 ELSE call[p].pc
  <2>1. 1 \in 0..10 /\ call[p] \in Calling
    BY <1>1
  <2>2. CASE Active(p)
    <3>1. call'[p] = [call[p] EXCEPT !.pc = 1, !.on = None, !.tenant = None, !.status = "failed"]
      BY <1>2, <2>2
    <3>2. call'[p] \in Calling
      BY <2>1, <3>1 DEF Calling
    <3> QED
      BY <2>1, <2>2, <3>1, <3>2 DEF Calling
  <2>3. CASE ~Active(p)
    BY <1>3, <1>4, <2>1, <2>3
  <2> QED
    BY <2>2, <2>3
<1>6. call' \in [Callers -> Calling]
  BY <1>3, <1>5
<1>7. PlaceInv'
  BY <1>5 DEF PlaceInv, Active
<1>8. \A c \in Clients : opener'[c] = None /\ pending'[c] = Empty
  BY DEF Crash
<1>9. RowsOK' /\ ClientsOK' /\ RestOK'
  <2>1. RowsOK'
    BY <1>1, <1>8, NoRow DEF Crash, RowsOK
  <2>2. ClientsOK'
    BY DEF Crash, ClientsOK
  <2>3. RestOK'
    BY <1>1 DEF Crash, RestOK, history
  <2> QED
    BY <2>1, <2>2, <2>3
<1>10. PoolOK'
  <2>1. idle' = <<>> /\ Idle' = {}
    BY DEF Crash, Idle
  <2> QED
    BY <1>5, <2>1 DEF PoolOK
<1>11. TypeOK'
  BY <1>6, <1>9, <1>10, PartsType
<1> QED
  BY <1>5, <1>7, <1>8, <1>11

\* Every step keeps the types and the places.
LEMMA NextTypeOK == TypeOK /\ PlaceInv /\ [Next]_vars => TypeOK' /\ PlaceInv'
<1> SUFFICES ASSUME TypeOK, PlaceInv, [Next]_vars PROVE TypeOK' /\ PlaceInv'
  OBVIOUS
<1>1. ASSUME NEW p \in Callers, NEW t \in Tokens, Begin(p, t) PROVE TypeOK' /\ PlaceInv'
  BY <1>1, BeginType
<1>2. ASSUME NEW p \in Callers, Serve(p) PROVE TypeOK' /\ PlaceInv'
  BY <1>2, ConnectType, RunType, TimeoutType, ErrorsFail, FailsType DEF Serve
<1>3. ASSUME NEW p \in Callers, Fault(p) PROVE TypeOK' /\ PlaceInv'
  BY <1>3, ErrorsFail, FailsType
<1>4. CASE IdleTimeout
  BY <1>4, IdleTimeoutType
<1>5. CASE Crash
  BY <1>5, CrashType
<1>6. CASE UNCHANGED vars
  BY <1>6 DEF vars, clientVars, history, TypeOK, PlaceInv, Active, Idle
<1> QED
  BY <1>1, <1>2, <1>3, <1>4, <1>5, <1>6 DEF Next

\* Rows hold values, a client is idle or with at most one request, and a client without a
\* transaction has nothing written (TypeOK); a request is at a place of its handler.
THEOREM TypeCorrect == Spec => []TypeOK
<1>1. Init => TypeOK /\ PlaceInv
  BY InitTypeOK
<1>2. TypeOK /\ PlaceInv /\ [Next]_vars => (TypeOK /\ PlaceInv)'
  BY NextTypeOK
<1> QED
  BY <1>1, <1>2, PTL DEF Spec

-----------------------------------------------------------------------------
(* A transaction alone stays on its client *)

\* Only Begin makes a request active.
LEMMA Activity ==
    ASSUME TypeOK, PlaceInv, [Next]_vars, NEW q \in Callers
    PROVE  /\ call'[q].op = call[q].op
           /\ \/ \E p \in Callers, t \in Tokens : Begin(p, t)
              \/ met' = met /\ call'[q].token = call[q].token /\ (call'[q].status = "active" => Active(q))
<1>1. ASSUME NEW p \in Callers, NEW t \in Tokens, Begin(p, t) PROVE call'[q].op = call[q].op
  BY <1>1, BeginType
<1> DEFINE Same == /\ call'[q].op = call[q].op
                   /\ met' = met /\ call'[q].token = call[q].token /\ (call'[q].status = "active" => Active(q))
<1>2. ASSUME NEW p \in Callers, Moved(p), Active(p) PROVE call'[q].op = call[q].op /\
                 call'[q].token = call[q].token /\ (call'[q].status = "active" => Active(q))
  BY <1>2 DEF Moved, Active
<1>3. ASSUME NEW p \in Callers, Run(p) PROVE Same
  BY <1>2, <1>3, RunType DEF Run
<1>4. ASSUME NEW p \in Callers, Fails(p), faults' \in Nat PROVE Same
  BY <1>2, <1>4, FailsType DEF Fails
<1>5. ASSUME NEW p \in Callers, ConnectTimeout(p) PROVE Same
  BY <1>2, <1>5, TimeoutType DEF ConnectTimeout, history
<1>6. ASSUME NEW p \in Callers, Connect(p) PROVE Same
  <2>1. call' = [call EXCEPT ![p].on = Handed[1]] /\ met' = met /\ call \in [Callers -> Calling]
    BY <1>6, ConnectType, TypeParts DEF Connect, history
  <2> QED
    BY <2>1 DEF Active, Calling
<1>7. CASE IdleTimeout
  BY <1>7 DEF IdleTimeout, Active, history
<1>8. CASE Crash
  <2>1. Same
    BY <1>8, CrashType DEF Crash, Active, history
  <2> QED
    BY <2>1
<1>9. CASE UNCHANGED vars
  BY <1>9 DEF vars, history, Active
<1> HIDE DEF Same
<1>10. CASE Next
  <2>1. \A p \in Callers :
            Fault(p) \/ Rejected(p) \/ DeadlockDetected(p) => Fails(p) /\ faults' \in Nat
    BY ErrorsFail
  <2> QED
    BY <1>1, <1>3, <1>4, <1>5, <1>6, <1>7, <1>8, <1>10, <2>1 DEF Next, Serve, Same
<1> QED
  BY <1>9, <1>10

\* Begin is the only step after which a transaction could have company, and it is recorded.
LEMMA NextAlone == TypeOK /\ PlaceInv /\ AloneInv /\ [Next]_vars => AloneInv'
<1> SUFFICES ASSUME TypeOK, PlaceInv, AloneInv, [Next]_vars, "transaction" \notin met',
                    NEW p \in Callers, NEW q \in Callers, call'[p].status = "active",
                    call'[q].status = "active", call'[p].op \in {"reset", "accept"}, p # q
             PROVE  FALSE
  BY DEF AloneInv, Active
<1>1. CASE \E r \in Callers, t \in Tokens : Begin(r, t)
  <2> PICK r \in Callers, t \in Tokens : Begin(r, t)
    BY <1>1
  <2>1. call'[p].op = call[p].op /\ (p # r => Active(p)) /\ (q # r => Active(q)) /\ call'[r].op = call[r].op
    BY BeginType DEF Active
  <2>2. \A s \in Callers : Active(s) => {call[r].op, call[s].op} \cap {"reset", "accept"} = {}
    <3> SUFFICES ASSUME NEW s \in Callers, Active(s), {call[r].op, call[s].op} \cap {"reset", "accept"} # {}
                 PROVE  "transaction" \in met'
      OBVIOUS
    <3>1. "transaction" \in Beside(call[r].op, call[s].op)
      BY DEF Beside
    <3> QED
      BY <3>1 DEF Begin
  <2>3. "transaction" \notin met
    BY DEF Begin
  <2> QED
    BY <2>1, <2>2, <2>3 DEF AloneInv
<1>2. CASE ~\E r \in Callers, t \in Tokens : Begin(r, t)
  BY <1>2, Activity DEF AloneInv
<1> QED
  BY <1>1, <1>2

\* At first no request is active and no transaction open.
LEMMA InitAlone == Init => AloneInv /\ HomeInv
<1> SUFFICES ASSUME Init PROVE AloneInv /\ HomeInv
  OBVIOUS
<1>1. \A p \in Callers : ~Active(p)
  BY DEF Init, Active
<1> QED
  BY <1>1 DEF Init, AloneInv, HomeInv, OpenKept, PastOpen, Inside

\* As long as transactions are alone, an open one is that of the request that is active.
LEMMA OneInside ==
    ASSUME TypeOK, AloneInv, OpenKept, "transaction" \notin met, NEW p \in Callers, Active(p)
    PROVE  /\ \A q \in Callers : Inside(q) => q = p
           /\ \A d \in Clients : opener[d] # None => opener[d] = p /\ Inside(p) /\ Keeps(p, d)
<1>1. \A q \in Callers : Inside(q) => q = p
  BY DEF Inside, AloneInv
<1> QED
  BY <1>1 DEF OpenKept, TypeOK

\* A request with a client is at home, and no other client has a transaction.
LEMMA StaysHome ==
    ASSUME TypeOK, PlaceInv, AloneInv, OpenKept, PastOpen, "transaction" \notin met,
           NEW p \in Callers, Active(p), NEW c \in Clients, call[p].on = c
    PROVE  /\ AtHome(p, c)
           /\ Inside(p) => opener[c] = p
           /\ \A d \in Clients : opener[d] # None => d = c /\ opener[d] = p /\ Inside(p)
<1>1. c # None /\ p # None
  BY AccountsAssumption
<1>2. \A d \in Clients : opener[d] # None => d = c /\ opener[d] = p /\ Inside(p)
  BY <1>1, OneInside DEF Keeps
<1>3. Inside(p) => opener[c] = p
  BY <1>1, <1>2 DEF PastOpen
<1>4. AtHome(p, c)
  <2>1. CASE Statement(p) = "ROLLBACK"
    <3>1. ~Inside(p)
      BY <2>1, InTransaction
    <3> QED
      BY <1>1, <1>2, <2>1, <3>1 DEF AtHome
  <2>2. CASE Statement(p) # "ROLLBACK"
    <3>1. Transactional(p) <=> Inside(p)
      BY <2>2, InTransaction DEF Statement
    <3> QED
      BY <1>2, <1>3, <2>2, <3>1 DEF AtHome
  <2> QED
    BY <2>1, <2>2
<1> QED
  BY <1>2, <1>3, <1>4

\* An error leads a request out of its transaction.
LEMMA ErrorLeaves ==
    ASSUME TypeOK, PlaceInv, NEW p \in Callers, Active(p), Throws(p)
    PROVE  ~Inside(p)'
<1>1. ~(Transactional(p) /\ call[p].pc # 0) => call'[p].status = "failed"
  BY Thrown
<1>2. Transactional(p) /\ call[p].pc # 0 => call'[p].pc = 0
  BY Thrown
<1> QED
  BY <1>1, <1>2 DEF Inside, Active

\* Where a query leads: to the next place inside a transaction, and not into one from outside.
LEMMA QueryLeads ==
    ASSUME TypeOK, PlaceInv, NEW p \in Callers, Active(p), call[p].on \in Clients, Queries(p)
    PROVE  /\ Inside(p) => Inside(p)' /\ call'[p].pc = call[p].pc + 1 /\ ~Refused(p, call[p].on)
           /\ ~Inside(p) => ~Inside(p)'
<1> DEFINE c == call[p].on
           tenant == IF Statement(p) # "findOwned" THEN call[p].tenant
                     ELSE IF See(c, "workspace") = None THEN p ELSE See(c, "workspace")
           i == call[p].pc
           o == call[p].op
<1>1. /\ i # 0
      /\ ~((o = "reset" /\ i = 2) \/ (o = "accept" /\ i = 3))
      /\ ~(o \in {"reset", "accept"} /\ i = 6)
      /\ o \in Ops /\ i \in 0..Len(Program[o])
  BY Places DEF Queries
<1>4. CASE Refused(p, c)
  <2>1. Throws(p)
    BY <1>4 DEF Queries
  <2>2. ~Inside(p)
    <3> SUFFICES ASSUME Inside(p) PROVE FALSE
      OBVIOUS
    <3>1. Statement(p) \in {"setPassword", "useToken", "dropSession", "COMMIT", "addMember", "useInvitation"}
      <4>1. (o = "reset" /\ i > 2) \/ (o = "accept" /\ i > 3)
        BY DEF Inside
      <4>2. Len(Program[o]) = 6
        BY <4>1, Sizes
      <4>3. (o = "reset" /\ i \in 3..6) \/ (o = "accept" /\ i \in 4..6)
        BY <1>1, <4>1, <4>2
      <4> QED
        BY <4>3, Places
    <3> QED
      BY <1>4, <3>1 DEF Refused
  <2> QED
    BY <2>1, <2>2, ErrorLeaves
<1>5. CASE ~Refused(p, c)
  <2>1. Advance(p, Following(p, c), tenant) /\ Following(p, c) \in 1..11
    BY <1>1, <1>5, FollowingType DEF Queries
  <2>2. tenant \in Callers \cup {None}
    <3>1. "workspace" \in Rows
      BY DEF Rows, Fields
    <3>2. See(c, "workspace") \in Callers \cup {None} /\ call[p].tenant \in Callers \cup {None}
      BY <3>1, SeesValue DEF TypeOK
    <3> QED
      BY <3>2
  <2>3. /\ call'[p].op = call[p].op
        /\ Following(p, c) > Len(Program[o]) => call'[p].pc = 1 /\ call'[p].status = "ok"
        /\ Following(p, c) <= Len(Program[o]) => call'[p].pc = Following(p, c) /\ call'[p].status = "active"
    <3> HIDE DEF tenant, c
    <3> QED
      BY <2>1, <2>2, Advanced
  <2>4. CASE o \in {"reset", "accept"}
    <3>1. Following(p, c) = i + 1
      BY <2>4, Places DEF Following
    <3>2. Len(Program[o]) = 6
      BY <2>4, Sizes
    <3>3. i \in 1..5
      BY <1>1, <2>4, <3>2
    <3>4. call'[p].pc = i + 1 /\ call'[p].status = "active"
      BY <2>3, <3>1, <3>2, <3>3
    <3> QED
      BY <1>1, <1>5, <2>3, <2>4, <3>3, <3>4 DEF Inside, Active
  <2>5. CASE o \notin {"reset", "accept"}
    BY <2>3, <2>5 DEF Inside
  <2> QED
    BY <2>4, <2>5
<1> QED
  BY <1>4, <1>5

\* Where BEGIN, COMMIT and ROLLBACK lead.
LEMMA SettleLeads ==
    ASSUME TypeOK, PlaceInv, NEW p \in Callers, Active(p), Settles(p)
    PROVE  /\ Statement(p) = "BEGIN" => /\ ~Transactional(p) /\ ~Inside(p) /\ Inside(p)'
                                        /\ call'[p].pc = call[p].pc + 1
           /\ Statement(p) = "COMMIT" => call[p].pc = 6 /\ Inside(p) /\ call'[p].status = "ok"
           /\ Statement(p) = "ROLLBACK" => call[p].pc = 0 /\ call'[p].status = "failed"
<1> DEFINE i == call[p].pc
           o == call[p].op
<1>1. CASE Statement(p) = "ROLLBACK"
  <2>1. i = 0 /\ Throws(p)
    BY <1>1, Places DEF Settles
  <2> QED
    BY <1>1, <2>1, Thrown
<1>2. CASE Statement(p) # "ROLLBACK"
  <2>1. /\ o \in {"reset", "accept"}
        /\ Statement(p) = "BEGIN" => (o = "reset" /\ i = 2) \/ (o = "accept" /\ i = 3)
        /\ Statement(p) = "COMMIT" => i = 6
        /\ i # 0 /\ i \in 2..6
        /\ Statement(p) \in {"BEGIN", "COMMIT"}
    BY <1>2, Places DEF Settles
  <2>2. Len(Program[o]) = 6
    BY <2>1, Sizes
  <2>3. Advance(p, i + 1, call[p].tenant) /\ i + 1 \in 1..11 /\ call[p].tenant \in Callers \cup {None}
    BY <1>2, <2>1 DEF Settles, TypeOK
  <2>4. /\ call'[p].op = o
        /\ i + 1 > 6 => call'[p].status = "ok"
        /\ i + 1 <= 6 => call'[p].pc = i + 1 /\ call'[p].status = "active"
    BY <2>2, <2>3, Advanced
  <2> QED
    BY <1>2, <2>1, <2>4 DEF Inside, Active, Transactional
<1> QED
  BY <1>1, <1>2

HomeStep == "transaction" \notin met' => ~strayed' /\ OpenKept' /\ PastOpen'

\* A statement of a lone transaction runs in it, and its client is the next to be handed out.
LEMMA RunHome ==
    ASSUME TypeOK, PlaceInv, AloneInv, HomeInv, NEW p \in Callers, Run(p)
    PROVE  HomeStep
<1> SUFFICES ASSUME "transaction" \notin met, ~strayed, OpenKept, PastOpen
             PROVE  ~strayed' /\ OpenKept' /\ PastOpen'
  BY DEF HomeInv, HomeStep, Run
<1> DEFINE c == call[p].on
<1>1. /\ Active(p) /\ Moved(p) /\ c \in Clients /\ idle' # <<>> /\ Last(idle') = c /\ call'[p].on = None
      /\ \A q \in Callers : q # p => call'[q] = call[q]
      /\ opener \in [Clients -> Callers \cup {None}] /\ None \notin Callers
  BY RunType, AccountsAssumption DEF Run, Moved, TypeOK
<1>2. /\ AtHome(p, c)
      /\ Inside(p) => opener[c] = p
      /\ \A d \in Clients : opener[d] # None => d = c /\ opener[d] = p /\ Inside(p)
  BY <1>1, StaysHome
<1>3. ~strayed'
  BY <1>2 DEF Run, Strays
<1>4. \A q \in Callers : Inside(q)' => q = p
  <2>1. \A q \in Callers : q # p => (Inside(q)' <=> Inside(q))
    BY <1>1 DEF Inside, Active
  <2> QED
    BY <1>1, <2>1, OneInside
<1>5. CASE Statement(p) = "BEGIN"
  <2>1. Settles(p)
    BY <1>5 DEF Run, Queries
  <2>2. ~Inside(p) /\ Inside(p)'
    BY <1>1, <1>5, <2>1, SettleLeads
  <2>3. opener' = [opener EXCEPT ![c] = IF @ = None THEN p ELSE @] /\ opener[c] = None
    BY <1>1, <1>2, <1>5, <2>1, <2>2 DEF Settles
  <2>4. \A d \in Clients : opener[d] = None
    BY <1>2, <2>2
  <2>5. opener'[c] = p /\ \A d \in Clients : d # c => opener'[d] = None
    <3> HIDE DEF c
    <3> QED
      BY <1>1, <2>3, <2>4
  <2>6. OpenKept'
    <3> SUFFICES ASSUME NEW d \in Clients, opener'[d] # None
                 PROVE  Inside(opener[d])' /\ Keeps(opener[d], d)'
      BY DEF OpenKept
    <3> HIDE DEF c
    <3>1. opener'[d] = p /\ d = c
      BY <2>5
    <3> QED
      BY <1>1, <2>2, <3>1 DEF Inside, Keeps, Active
  <2>7. PastOpen'
    BY <1>1, <1>4, <2>5 DEF PastOpen
  <2> QED
    BY <1>3, <2>6, <2>7
<1>6. CASE Statement(p) \in {"COMMIT", "ROLLBACK"}
  <2>1. Settles(p) /\ call'[p].status # "active"
    BY <1>1, <1>6, SettleLeads DEF Run, Queries
  <2>2. opener' = [opener EXCEPT ![c] = None]
    BY <1>6, <2>1 DEF Settles, RolledBack
  <2>3. \A d \in Clients : opener'[d] = None
    BY <1>1, <1>2, <2>2
  <2>4. \A q \in Callers : ~Inside(q)'
    BY <1>4, <2>1 DEF Inside, Active
  <2> QED
    BY <1>3, <2>3, <2>4 DEF OpenKept, PastOpen
<1>7. CASE Statement(p) \notin {"BEGIN", "COMMIT", "ROLLBACK"}
  <2>1. Queries(p)
    BY <1>7 DEF Run, Settles
  <2>2. opener' = opener
    BY <2>1 DEF Queries
  <2>4. Inside(p)' <=> Inside(p)
    <3>1. Inside(p) => Inside(p)'
      BY <1>1, <2>1, QueryLeads
    <3>2. ~Inside(p) => ~Inside(p)'
      BY <1>1, <2>1, QueryLeads
    <3> QED
      BY <3>1, <3>2
  <2>8. (\E d \in Clients : opener[d] # None) => Inside(p)'
    BY <1>2, <2>4
  <2>6. OpenKept'
    <3> SUFFICES ASSUME NEW d \in Clients, opener'[d] # None
                 PROVE  Inside(opener[d])' /\ Keeps(opener[d], d)'
      BY DEF OpenKept
    <3> HIDE DEF c
    <3>1. opener'[d] = p /\ d = c /\ Inside(p)'
      BY <1>2, <2>2, <2>8
    <3> QED
      BY <1>1, <2>8, <3>1 DEF Inside, Keeps, Active
  <2>7. PastOpen'
    BY <1>1, <1>2, <1>4, <2>2, <2>4 DEF PastOpen
  <2> QED
    BY <1>3, <2>6, <2>7
<1> QED
  BY <1>5, <1>6, <1>7

\* When a statement of a lone transaction fails, its transaction ends with its client.
LEMMA FailHome ==
    ASSUME TypeOK, PlaceInv, AloneInv, HomeInv, NEW p \in Callers, Fails(p), faults' \in Nat
    PROVE  HomeStep
<1> SUFFICES ASSUME "transaction" \notin met, ~strayed, OpenKept, PastOpen
             PROVE  ~strayed' /\ OpenKept' /\ PastOpen'
  BY DEF HomeInv, HomeStep, Fails
<1> DEFINE c == call[p].on
<1>1. /\ Active(p) /\ Moved(p) /\ c \in Clients /\ Throws(p)
      /\ \A q \in Callers : q # p => call'[q] = call[q]
  BY FailsType DEF Fails, Moved, TypeOK
<1>2. /\ AtHome(p, c)
      /\ \A d \in Clients : opener[d] # None => d = c
  BY <1>1, StaysHome
<1>3. ~strayed'
  BY <1>2 DEF Fails, Strays
<1>4. \A q \in Callers : ~Inside(q)'
  <2>1. \A q \in Callers : q # p => (Inside(q)' <=> Inside(q))
    BY <1>1 DEF Inside, Active
  <2>2. ~Inside(p)'
    BY <1>1, ErrorLeaves
  <2> QED
    BY <1>1, <2>1, <2>2, OneInside
<1>5. \A d \in Clients : opener'[d] = None
  BY <1>1, <1>2, RolledBackType DEF Fails
<1> QED
  BY <1>3, <1>4, <1>5 DEF OpenKept, PastOpen

\* The pool hands a transaction the client it is on.
LEMMA ConnectHome ==
    ASSUME TypeOK, PlaceInv, AloneInv, HomeInv, NEW p \in Callers, Connect(p)
    PROVE  HomeStep
<1> SUFFICES ASSUME "transaction" \notin met, ~strayed, OpenKept, PastOpen
             PROVE  ~strayed' /\ OpenKept' /\ PastOpen'
  BY DEF HomeInv, HomeStep, Connect, history
<1>1. /\ Active(p) /\ call[p].on = None /\ UNCHANGED <<opener, strayed>>
      /\ call' = [call EXCEPT ![p].on = Handed[1]] /\ call'[p].on = Handed[1]
      /\ (idle # <<>> => Handed[1] = Last(idle))
      /\ \A q \in Callers : q # p => call'[q] = call[q]
  BY ConnectType DEF Connect, clientVars, history
<1>2. call'[p].status = call[p].status /\ call'[p].pc = call[p].pc /\ call'[p].op = call[p].op
  BY <1>1, TypeParts DEF Calling
<1>3. \A q \in Callers : Inside(q)' <=> Inside(q)
  BY <1>1, <1>2 DEF Active, Inside
<1>4. \A c \in Clients : opener[c] # None => opener[c] = p /\ Inside(p) /\ Keeps(p, c)
  BY <1>1, OneInside
<1>5. \A c \in Clients : opener[c] # None => call'[p].on = c
  <2>1. None \notin Clients
    BY AccountsAssumption
  <2> QED
    BY <1>1, <1>4, <2>1 DEF Keeps
<1>6. OpenKept'
  BY <1>1, <1>3, <1>4, <1>5 DEF OpenKept, Keeps
<1>7. PastOpen'
  BY <1>1, <1>3 DEF PastOpen
<1> QED
  BY <1>1, <1>6, <1>7

\* No step parts a lone transaction from its client.
LEMMA NextHome == TypeOK /\ PlaceInv /\ AloneInv /\ HomeInv /\ [Next]_vars => HomeInv'
<1> SUFFICES ASSUME TypeOK, PlaceInv, AloneInv, HomeInv, [Next]_vars PROVE HomeStep
  BY DEF HomeInv, HomeStep
<1>1. ASSUME NEW p \in Callers, NEW t \in Tokens, Begin(p, t) PROVE HomeStep
  <2> SUFFICES ASSUME "transaction" \notin met, ~strayed, OpenKept, PastOpen
               PROVE  ~strayed' /\ OpenKept' /\ PastOpen'
    BY <1>1 DEF HomeInv, HomeStep, Begin
  <2>1. /\ UNCHANGED <<opener, idle, strayed>> /\ call[p].status = "new"
        /\ \A q \in Callers : q # p => call'[q] = call[q]
        /\ call'[p].pc = 1
    BY <1>1, BeginType DEF Begin, clientVars
  <2>2. ~Inside(p)' /\ ~Inside(p)
    BY <2>1 DEF Inside, Active
  <2>5. \A q \in Callers : Inside(q)' <=> Inside(q)
    BY <2>1, <2>2 DEF Inside, Active
  <2>3. OpenKept'
    <3> SUFFICES ASSUME NEW c \in Clients, opener[c] # None
                 PROVE  Inside(opener[c])' /\ Keeps(opener[c], c)'
      BY <2>1 DEF OpenKept
    <3>1. opener[c] \in Callers /\ opener[c] # p /\ Inside(opener[c]) /\ Keeps(opener[c], c)
      BY <2>2 DEF OpenKept, TypeOK
    <3>2. Inside(opener[c])'
      BY <2>1, <2>5, <3>1
    <3> QED
      BY <2>1, <3>1, <3>2 DEF Keeps
  <2>4. PastOpen'
    BY <2>1, <2>5 DEF PastOpen
  <2> QED
    BY <2>1, <2>3, <2>4
<1>2. ASSUME NEW p \in Callers, Run(p) PROVE HomeStep
  BY <1>2, RunHome
<1>3. ASSUME NEW p \in Callers, Connect(p) PROVE HomeStep
  BY <1>3, ConnectHome
<1>4. ASSUME NEW p \in Callers, ConnectTimeout(p) PROVE HomeStep
  <2> SUFFICES ASSUME "transaction" \notin met, ~strayed, OpenKept, PastOpen
               PROVE  ~strayed' /\ OpenKept' /\ PastOpen'
    BY <1>4 DEF HomeInv, HomeStep, ConnectTimeout, history
  <2>1. /\ Active(p) /\ call[p].on = None /\ idle = <<>> /\ Throws(p) /\ UNCHANGED <<opener, strayed>>
        /\ \A q \in Callers : q # p => call'[q] = call[q]
    BY <1>4, TimeoutType DEF ConnectTimeout, clientVars, history, Moved
  <2>2. \A d \in Clients : opener[d] = None
    <3>1. None \notin Clients
      BY AccountsAssumption
    <3> QED
      BY <2>1, <3>1, OneInside DEF Keeps
  <2>3. \A q \in Callers : ~Inside(q)
    BY <2>2, AccountsAssumption DEF PastOpen
  <2>4. \A q \in Callers : ~Inside(q)'
    <3>1. \A q \in Callers : q # p => (Inside(q)' <=> Inside(q))
      BY <2>1 DEF Inside, Active
    <3> QED
      BY <2>1, <2>3, <3>1, ErrorLeaves
  <2> QED
    BY <2>1, <2>2, <2>4 DEF OpenKept, PastOpen
<1>5. ASSUME NEW p \in Callers, Fault(p) \/ Rejected(p) \/ DeadlockDetected(p) PROVE HomeStep
  BY <1>5, ErrorsFail, FailHome
<1>7. CASE IdleTimeout
  <2> SUFFICES ASSUME "transaction" \notin met, OpenKept PROVE FALSE
    BY <1>7 DEF HomeInv, HomeStep, IdleTimeout, history
  <2>1. PICK c \in Idle : opener[c] # None
    BY <1>7 DEF IdleTimeout
  <2>2. c \in Clients
    BY DEF Idle, TypeOK
  <2>3. opener[c] \in Callers /\ Active(opener[c]) /\ Keeps(opener[c], c)
    BY <2>1, <2>2 DEF OpenKept, Inside, TypeOK
  <2>4. call[opener[c]].on = c
    BY <1>7, <2>3 DEF IdleTimeout, Keeps
  <2> QED
    BY <2>3, <2>4 DEF TypeOK
<1>8. CASE Crash
  <2>1. \A p \in Callers : call'[p].status # "active"
    BY <1>8, CrashType DEF Active
  <2>2. \A c \in Clients : opener'[c] = None
    BY <1>8, CrashType
  <2> QED
    BY <1>8, <2>1, <2>2 DEF HomeStep, HomeInv, OpenKept, PastOpen, Inside, Active, Crash, history
<1>9. CASE UNCHANGED vars
  BY <1>9 DEF vars, clientVars, history, HomeStep, HomeInv, OpenKept, PastOpen, Active, Inside, Keeps
<1> QED
  BY <1>1, <1>2, <1>3, <1>4, <1>5, <1>7, <1>8, <1>9 DEF Next, Serve

\* A transaction sent to the pool stays on one client, no other statement enters it, and no
\* ROLLBACK ends another one, unless it overlaps another request (StraysOnlyBeside), for any
\* requests, any number of clients and any faults.
THEOREM TransactionsStay == Spec => []StraysOnlyBeside
<1> DEFINE Inv == TypeOK /\ PlaceInv /\ AloneInv /\ HomeInv
<1>1. Init => Inv
  BY InitTypeOK, InitAlone
<1>2. Inv /\ [Next]_vars => Inv'
  BY NextTypeOK, NextAlone, NextHome
<1>3. Inv => StraysOnlyBeside
  BY DEF HomeInv, StraysOnlyBeside
<1> QED
  BY <1>1, <1>2, <1>3, PTL DEF Spec

-----------------------------------------------------------------------------
(* What a request does at home *)

\* The step of a request p on client c concerns no other request and no other client.
Alone(p, c) ==
    /\ Active(p) /\ c \in Clients /\ c = call[p].on
    /\ \A q \in Callers \ {p} : call'[q] = call[q]
    /\ call'[p].op = call[p].op /\ call'[p].token = call[p].token
    /\ \A d \in Clients \ {c} : opener'[d] = opener[d] /\ pending'[d] = pending[d]

\* It opens its transaction, or commits it.
Opens(p, c) ==
    /\ ~Inside(p) /\ call[p].pc # 0 /\ pending[c] = Empty /\ UNCHANGED <<db, pending>>
    /\ opener'[c] = p
    /\ call'[p].status = "active" /\ call'[p].pc = call[p].pc + 1 /\ Inside(p)'
    /\ call[p].op \in {"reset", "accept"}
Commits(p, c) ==
    /\ Inside(p) /\ call[p].pc = 6 /\ opener[c] = p
    /\ db' = Onto(pending[c], db) /\ opener'[c] = None /\ pending'[c] = Empty
    /\ call'[p].status = "ok"

\* Inside its transaction a statement writes for the transaction.
Within(p, c) ==
    /\ Inside(p) /\ opener[c] = p /\ UNCHANGED <<db, opener>>
    /\ call[p].pc \in 3..5 /\ pending'[c] = Onto(Written(p, c), pending[c])
    /\ call'[p].status = "active" /\ call'[p].pc = call[p].pc + 1

\* Outside it writes to the rows; an answer of PostgreSQL that it does not want fails it.
Tenant(p, c) ==
    IF Statement(p) # "findOwned" THEN call[p].tenant
    ELSE IF See(c, "workspace") = None THEN p ELSE See(c, "workspace")
Outside(p, c) ==
    /\ ~Inside(p) /\ call[p].pc # 0 /\ opener[c] = None /\ UNCHANGED <<pending, opener>>
    /\ Statement(p) \notin {"BEGIN", "COMMIT", "ROLLBACK"}
    /\ db' = Onto(Written(p, c), db) /\ ~Violates(p, c)
    /\ \/ Refused(p, c) /\ call'[p].status = "failed"
       \/ /\ ~Refused(p, c)
          /\ Advance(p, Following(p, c), Tenant(p, c))
          /\ Following(p, c) \in 1..11 /\ Tenant(p, c) \in Callers \cup {None}

DoesAtHome(p, c) ==
    Alone(p, c) /\ (Opens(p, c) \/ Commits(p, c) \/ Within(p, c) \/ Outside(p, c))

\* Every other step but Begin writes no row, moves no request on, and leaves a client's
\* transaction alone or ends it.
Lies(q) ==
    /\ call'[q].op = call[q].op /\ call'[q].token = call[q].token
    /\ \/ /\ call'[q].status = call[q].status /\ call'[q].pc = call[q].pc
          /\ call'[q].tenant = call[q].tenant
       \/ Active(q) /\ call'[q].status = "failed"
       \/ Active(q) /\ call'[q].status = "active" /\ call'[q].pc = 0 /\ Inside(q)
Quiet ==
    /\ UNCHANGED <<db, met>>
    /\ \A q \in Callers : Lies(q)
    /\ \A c \in Clients : \/ opener'[c] = opener[c] /\ pending'[c] = pending[c]
                          \/ opener'[c] = None /\ pending'[c] = Empty

\* The workspace a handler goes on with has the id of a request, or there is none.
LEMMA TenantType ==
    ASSUME TypeOK, NEW p \in Callers, NEW c \in Clients
    PROVE  Tenant(p, c) \in Callers \cup {None}
<1>1. "workspace" \in Rows
  BY DEF Rows, Fields
<1>2. See(c, "workspace") \in Callers \cup {None} /\ call[p].tenant \in Callers \cup {None}
  BY <1>1, SeesValue DEF TypeOK
<1> QED
  BY <1>2 DEF Tenant

\* A request that throws commits nothing.
LEMMA ThrownLies ==
    ASSUME TypeOK, PlaceInv, NEW p \in Callers, Active(p), Throws(p)
    PROVE  \A q \in Callers : Lies(q)
<1>1. /\ call' \in [Callers -> Calling] /\ \A q \in Callers \ {p} : call'[q] = call[q]
      /\ call'[p].op = call[p].op /\ call'[p].token = call[p].token
      /\ \/ call'[p].status = "failed"
         \/ Transactional(p) /\ call[p].pc # 0 /\ call'[p].status = "active" /\ call'[p].pc = 0
  BY Thrown
<1>2. Transactional(p) /\ call[p].pc # 0 => Inside(p)
  BY InTransaction
<1>3. Lies(p)
  BY <1>1, <1>2 DEF Lies
<1>4. \A q \in Callers \ {p} : Lies(q)
  BY <1>1 DEF Lies
<1> QED
  BY <1>3, <1>4

\* A transaction that ends without COMMIT leaves the others alone.
LEMMA RolledBackEnds ==
    ASSUME TypeOK, NEW c \in Clients, RolledBack(c)
    PROVE  \A d \in Clients : \/ opener'[d] = opener[d] /\ pending'[d] = pending[d]
                              \/ opener'[d] = None /\ pending'[d] = Empty
  BY RolledBackType

\* A statement that runs and has not strayed was at home, or ended a transaction for nothing.
LEMMA HomeRuns ==
    ASSUME TypeOK, PlaceInv, OwnerInv, NEW p \in Callers, Run(p), ~strayed',
           NEW c \in Clients, c = call[p].on
    PROVE  ~strayed /\ met' = met /\ (Quiet \/ DoesAtHome(p, c))
<1>1. /\ ~strayed /\ AtHome(p, c) /\ Active(p) /\ Moved(p) /\ met' = met
      /\ \A q \in Callers \ {p} : call'[q] = call[q]
      /\ call'[p].op = call[p].op /\ call'[p].token = call[p].token
  BY RunType DEF Run, Strays, Moved
<1>2. /\ Inside(p) => opener[c] = p
      /\ ~Inside(p) /\ call[p].pc # 0 => opener[c] = None
      /\ opener[c] = None => pending[c] = Empty
  <2>1. Statement(p) = "ROLLBACK" <=> call[p].pc = 0
    BY <1>1, Places
  <2>2. Statement(p) # "ROLLBACK" => (Transactional(p) <=> Inside(p))
    BY <1>1, <2>1, InTransaction
  <2>3. Statement(p) # "ROLLBACK" => opener[c] = IF Transactional(p) THEN p ELSE None
    BY <1>1 DEF AtHome
  <2>4. Inside(p) => Statement(p) # "ROLLBACK"
    BY <1>1, InTransaction
  <2>5. opener[c] = None => pending[c] = Empty
    BY DEF TypeOK
  <2> QED
    BY <2>1, <2>2, <2>3, <2>4, <2>5
<1>4. ClientsOK /\ DOMAIN pending = Clients
  BY TypeParts DEF RowsOK
<1>5. CASE Statement(p) = "BEGIN"
  <2>1. Settles(p)
    BY <1>5 DEF Run, Queries
  <2>2. /\ ~Inside(p) /\ call'[p].status = "active" /\ call'[p].pc = call[p].pc + 1 /\ Inside(p)'
        /\ call[p].op \in {"reset", "accept"} /\ call[p].pc # 0
    <3>1. call'[p].pc = call[p].pc + 1 /\ ~Inside(p) /\ Inside(p)'
      BY <1>1, <1>5, <2>1, SettleLeads
    <3>2. call[p].op \in {"reset", "accept"} /\ call[p].pc # 0
      BY <1>1, <1>5, Places
    <3> QED
      BY <3>1, <3>2 DEF Inside, Active
  <2>4. opener' = [opener EXCEPT ![c] = IF @ = None THEN p ELSE @] /\ UNCHANGED <<db, pending>>
    BY <1>5, <2>1 DEF Settles
  <2>5. /\ opener'[c] = p
        /\ \A d \in Clients \ {c} : opener'[d] = opener[d] /\ pending'[d] = pending[d]
    BY <1>2, <1>4, <2>2, <2>4 DEF ClientsOK
  <2>6. Alone(p, c) /\ Opens(p, c)
    BY <1>1, <1>2, <2>2, <2>4, <2>5 DEF Alone, Opens
  <2> QED
    BY <1>1, <2>6 DEF DoesAtHome
<1>6. CASE Statement(p) = "COMMIT"
  <2>1. Settles(p)
    BY <1>6 DEF Run, Queries
  <2>2. Inside(p) /\ call[p].pc = 6 /\ call'[p].status = "ok"
    BY <1>1, <1>6, <2>1, SettleLeads
  <2>3. RolledBack(c) /\ db' = Onto(pending[c], db)
    BY <1>6, <2>1 DEF Settles
  <2>4. /\ opener'[c] = None /\ pending'[c] = Empty
        /\ \A d \in Clients \ {c} : opener'[d] = opener[d] /\ pending'[d] = pending[d]
    BY <2>3, RolledBackType
  <2>5. Alone(p, c) /\ Commits(p, c)
    BY <1>1, <1>2, <2>2, <2>3, <2>4 DEF Alone, Commits
  <2> QED
    BY <1>1, <2>5 DEF DoesAtHome
<1>8. CASE Statement(p) = "ROLLBACK"
  <2>1. Settles(p)
    BY <1>8 DEF Run, Queries
  <2>2. RolledBack(c) /\ db' = db /\ Throws(p)
    BY <1>8, <2>1 DEF Settles
  <2>3. Quiet
    BY <1>1, <2>2, RolledBackEnds, ThrownLies DEF Quiet
  <2> QED
    BY <1>1, <2>3
<1>7. CASE Statement(p) \notin {"BEGIN", "COMMIT", "ROLLBACK"}
  <2>1. Queries(p) /\ opener' = opener /\ ~Violates(p, c)
    BY <1>7 DEF Run, Settles, Queries
  <2>7. call[p].pc # 0
    BY <1>1, <1>7, Places
  <2>8. CASE Inside(p)
    <3>1. opener[c] = p /\ c # None /\ p # None
      BY <1>2, <2>8, AccountsAssumption
    <3>2. /\ call'[p].pc = call[p].pc + 1 /\ Inside(p)'
      BY <1>1, <2>1, <2>8, QueryLeads
    <3>3. db' = db /\ pending' = [pending EXCEPT ![c] = Onto(Written(p, c), pending[c])]
      BY <2>1, <3>1 DEF Queries
    <3>4. /\ pending'[c] = Onto(Written(p, c), pending[c])
          /\ \A d \in Clients \ {c} : opener'[d] = opener[d] /\ pending'[d] = pending[d]
      BY <1>4, <2>1, <3>3
    <3>5. call[p].pc \in 3..5
      <4>1. (call[p].op = "reset" /\ call[p].pc > 2) \/ (call[p].op = "accept" /\ call[p].pc > 3)
        BY <2>8 DEF Inside
      <4>2. Len(Program[call[p].op]) = 6
        BY <4>1, Sizes
      <4>3. call[p].pc \in 0..6
        BY <1>1, <4>2 DEF PlaceInv
      <4>4. call[p].pc # 6
        BY <1>1, <1>7, <4>1, Places
      <4> QED
        BY <4>1, <4>3, <4>4
    <3>6. call'[p].status = "active"
      BY <3>2 DEF Inside, Active
    <3>7. Alone(p, c) /\ Within(p, c)
      BY <1>1, <2>1, <2>8, <3>1, <3>2, <3>3, <3>4, <3>5, <3>6 DEF Alone, Within
    <3> QED
      BY <1>1, <3>7 DEF DoesAtHome
  <2>9. CASE ~Inside(p)
    <3>1. opener[c] = None /\ db' = Onto(Written(p, c), db) /\ UNCHANGED pending
      BY <1>2, <2>1, <2>7, <2>9 DEF Queries
    <3>2. Alone(p, c)
      BY <1>1, <2>1, <3>1 DEF Alone
    <3>3. CASE Refused(p, c)
      <4>1. Throws(p)
        BY <2>1, <3>3 DEF Queries
      <4>2. ~Transactional(p)
        BY <1>1, <2>7, <2>9, InTransaction
      <4>3. call'[p].status = "failed"
        BY <1>1, <4>1, <4>2, Thrown
      <4>4. Outside(p, c)
        BY <1>7, <2>1, <2>7, <2>9, <3>1, <3>3, <4>3 DEF Outside
      <4> QED
        BY <1>1, <3>2, <4>4 DEF DoesAtHome
    <3>4. CASE ~Refused(p, c)
      <4>1. Advance(p, Following(p, c), Tenant(p, c))
        BY <2>1, <3>4 DEF Queries, Tenant
      <4>2. Following(p, c) \in 1..11 /\ Tenant(p, c) \in Callers \cup {None}
        BY <1>1, <2>7, FollowingType, TenantType
      <4>3. Outside(p, c)
        BY <1>7, <2>1, <2>7, <2>9, <3>1, <3>4, <4>1, <4>2 DEF Outside
      <4> QED
        BY <1>1, <3>2, <4>3 DEF DoesAtHome
    <3> QED
      BY <3>3, <3>4
  <2> QED
    BY <2>8, <2>9
<1> QED
  BY <1>5, <1>6, <1>7, <1>8

\* Every step that leaves nothing astray is Quiet, a Begin or a step at home.
LEMMA Steps ==
    ASSUME TypeOK, PlaceInv, OwnerInv, [Next]_vars, ~strayed'
    PROVE  /\ ~strayed
           /\ \/ Quiet
              \/ \E p \in Callers, t \in Tokens : Begin(p, t)
              \/ met' = met /\ \E p \in Callers, c \in Clients : DoesAtHome(p, c)
<1> DEFINE Goal == /\ ~strayed
                   /\ \/ Quiet
                      \/ \E p \in Callers, t \in Tokens : Begin(p, t)
                      \/ met' = met /\ \E p \in Callers, c \in Clients : DoesAtHome(p, c)
<1>1. ASSUME NEW p \in Callers, NEW t \in Tokens, Begin(p, t) PROVE Goal
  BY <1>1 DEF Begin
<1>2. ASSUME NEW p \in Callers, Run(p) PROVE Goal
  <2>1. call[p].on \in Clients
    BY <1>2 DEF Run, TypeOK
  <2> QED
    BY <1>2, <2>1, HomeRuns
<1>3. ASSUME NEW p \in Callers, Fails(p) PROVE Goal
  <2>1. Active(p) /\ call[p].on \in Clients /\ RolledBack(call[p].on) /\ Throws(p) /\ UNCHANGED <<db, met>>
    BY <1>3 DEF Fails, TypeOK
  <2>2. ~strayed
    BY <1>3 DEF Fails, Strays
  <2>3. Quiet
    BY <2>1, RolledBackEnds, ThrownLies DEF Quiet
  <2> QED
    BY <2>2, <2>3
<1>4. ASSUME NEW p \in Callers, Connect(p) PROVE Goal
  <2>1. /\ call' = [call EXCEPT ![p].on = Handed[1]] /\ call \in [Callers -> Calling]
        /\ UNCHANGED <<db, met, strayed, opener, pending>>
    BY <1>4, ConnectType, TypeParts DEF Connect, history, clientVars
  <2>2. \A q \in Callers : Lies(q)
    BY <2>1 DEF Lies, Calling
  <2> QED
    BY <2>1, <2>2 DEF Quiet
<1>5. ASSUME NEW p \in Callers, ConnectTimeout(p) PROVE Goal
  <2>1. Active(p) /\ Throws(p) /\ UNCHANGED <<db, met, strayed, opener, pending>>
    BY <1>5 DEF ConnectTimeout, clientVars, history
  <2>3. \A q \in Callers : Lies(q)
    BY <2>1, ThrownLies
  <2> QED
    BY <2>1, <2>3 DEF Quiet
<1>6. CASE IdleTimeout
  <2>1. /\ UNCHANGED <<db, met, strayed, call>> /\ RolledBack(Head(idle)) /\ Head(idle) \in Clients
    BY <1>6, IdleTimeoutType DEF IdleTimeout, history
  <2>2. \A q \in Callers : Lies(q)
    BY <2>1 DEF Lies
  <2>3. Quiet
    BY <2>1, <2>2, RolledBackEnds DEF Quiet
  <2> QED
    BY <2>1, <2>3
<1>7. CASE Crash
  <2>1. UNCHANGED <<db, met, strayed>> /\ \A q \in Callers : ~Active(q) => call'[q] = call[q]
    BY <1>7 DEF Crash, history
  <2>3. \A q \in Callers : Lies(q)
    BY <1>7, <2>1, CrashType DEF Lies
  <2>4. \A d \in Clients : opener'[d] = None /\ pending'[d] = Empty
    BY <1>7 DEF Crash
  <2>5. Quiet
    BY <2>1, <2>3, <2>4 DEF Quiet
  <2> QED
    BY <2>1, <2>5
<1>8. CASE UNCHANGED vars
  BY <1>8 DEF vars, clientVars, history, Quiet, Lies
<1> HIDE DEF Goal
<1>9. CASE Next
  <2>1. \A p \in Callers : Fault(p) \/ Rejected(p) \/ DeadlockDetected(p) => Fails(p)
    BY ErrorsFail
  <2> QED
    BY <1>1, <1>2, <1>3, <1>4, <1>5, <1>6, <1>7, <1>9, <2>1 DEF Next, Serve, Goal
<1> QED
  BY <1>8, <1>9

\* The rows of reset tokens and of sign-ins are the same after every step.
LEMMA OpsStay ==
    ASSUME TypeOK, PlaceInv, [Next]_vars
    PROVE  ResetTokens' = ResetTokens /\ SignIns' = SignIns
<1>1. \A q \in Callers : call'[q].op = call[q].op
  BY Activity
<1> QED
  BY <1>1 DEF ResetTokens, SignIns

\* At first there are no transactions.
LEMMA InitOwners == Init => OwnerInv /\ PendingInv
  BY DEF Init, OwnerInv, PendingInv

\* What a client sees outside a transaction are the rows.
LEMMA SeesRows ==
    ASSUME TypeOK, NEW c \in Clients, opener[c] = None, NEW r
    PROVE  See(c, r) = db[r]
  BY NoRow DEF See, TypeOK

\* The rows of tokens are not those of the fields, and no request is a reset and a sign-in.
LEMMA RowsDiffer ==
    /\ Tokens \cap Fields = {} /\ Fields \subseteq Rows /\ Tokens \subseteq Rows
    /\ ResetTokens \subseteq Tokens /\ SignIns \subseteq Callers /\ Callers \subseteq Tokens
    /\ ResetTokens \cap SignIns = {} /\ First \notin Callers
    /\ {"user", "password", "verified", "verification", "session", "invitation", "member",
        "workspace", "owner", "profile"} = Fields
  BY AccountsAssumption DEF Rows, Tokens, ResetTokens, SignIns, Fields

\* The schema statements before a statement outside transactions write what is there, and an
\* owner's membership that is missing.
LEMMA EnsuredRows ==
    ASSUME TypeOK, PlaceInv, NEW p \in Callers, Active(p), NEW c \in Clients, opener[c] = None,
           NEW en, en = Ensured(p, c), NEW s, s = Statement(p)
    PROVE  /\ DOMAIN en \subseteq {"session", "member", "owner", "user"}
           /\ \A r \in DOMAIN en \ {"owner"} : en[r] = db[r]
           /\ "owner" \in DOMAIN en => db["workspace"] # None /\ en["owner"] = db["workspace"]
           /\ s \in {"insertUser", "insertOwner", "insertWorkspace", "insertToken"} => DOMAIN en = {}
           /\ s = "findWorkspace" /\ db["workspace"] # None /\ db["owner"] = None => "owner" \in DOMAIN en
<1> DEFINE o == IF db["workspace"] # None /\ db["owner"] = None THEN Row("owner", db["workspace"]) ELSE Empty
           locked == [r \in {"session", "member"} |-> db[r]]
<1>2. /\ DOMAIN o = IF db["workspace"] # None /\ db["owner"] = None THEN {"owner"} ELSE {}
      /\ "owner" \in DOMAIN o => o["owner"] = db["workspace"] /\ db["workspace"] # None
  BY NoRow, RowRow
<1>3. DOMAIN locked = {"session", "member"} /\ \A r \in DOMAIN locked : locked[r] = db[r]
  OBVIOUS
<1>4. /\ See(c, "workspace") = db["workspace"] /\ See(c, "owner") = db["owner"] /\ See(c, "user") = db["user"]
      /\ [r \in {"session", "member"} |-> See(c, r)] = locked
  BY SeesRows
<1>5. s \in {"insertUser", "insertOwner", "insertWorkspace", "insertToken"}
          => call[p].op \notin {"logout", "login"}
  BY Places
<1>6. \/ en = Onto(locked, o) /\ s \notin {"insertUser", "insertOwner", "insertWorkspace", "insertToken"}
      \/ en = Row("user", db["user"]) /\
             s \notin {"insertUser", "insertOwner", "insertWorkspace", "insertToken", "findWorkspace"}
      \/ en = Empty /\ s # "findWorkspace"
  BY <1>4, <1>5 DEF Ensured
<1> HIDE DEF o, locked
<1>7. CASE en = Onto(locked, o) /\ s \notin {"insertUser", "insertOwner", "insertWorkspace", "insertToken"}
  <2>1. /\ DOMAIN en = {"session", "member"} \cup DOMAIN o
        /\ \A r \in {"session", "member"} : en[r] = db[r]
        /\ "owner" \in DOMAIN o => en["owner"] = o["owner"]
    BY <1>2, <1>3, <1>7 DEF Onto
  <2> QED
    BY <1>2, <1>7, <2>1
<1>8. CASE /\ en = Row("user", db["user"])
           /\ s \notin {"insertUser", "insertOwner", "insertWorkspace", "insertToken", "findWorkspace"}
  <2>1. DOMAIN en = {"user"} /\ en["user"] = db["user"]
    BY <1>8 DEF Row
  <2> QED
    BY <1>8, <2>1
<1>9. CASE en = Empty /\ s # "findWorkspace"
  <2>1. DOMAIN en = {}
    BY <1>9, NoRow
  <2> QED
    BY <1>9, <2>1
<1> QED
  BY <1>6, <1>7, <1>8, <1>9

\* What a statement outside transactions changes.
LEMMA ChangedRows ==
    ASSUME TypeOK, PlaceInv, NEW p \in Callers, Active(p), NEW c \in Clients, opener[c] = None,
           ~Inside(p), call[p].pc # 0, NEW ch, ch = Changed(p, c), NEW s, s = Statement(p)
    PROVE  /\ "user" \in DOMAIN ch => s = "insertUser" /\ ch["user"] = "present"
           /\ "verified" \in DOMAIN ch => ch["verified"] = "present"
           /\ "workspace" \in DOMAIN ch =>
                /\ s = "insertWorkspace"
                /\ ch["workspace"] = IF db["workspace"] = None THEN call[p].tenant ELSE db["workspace"]
           /\ "owner" \in DOMAIN ch => s = "insertOwner" /\ ch["owner"] = call[p].tenant
           /\ "member" \notin DOMAIN ch /\ "password" \notin DOMAIN ch
           /\ \A t \in Tokens : t \in DOMAIN ch =>
                \/ s = "retireTokens" /\ t \in ResetTokens /\ db[t] = "live" /\ ch[t] = "used"
                \/ s \in {"insertToken", "insertSession"} /\ t = p /\ ch[t] = "live"
           /\ s = "insertUser" => "user" \in DOMAIN ch
           /\ s = "insertSession" => p \in DOMAIN ch
           /\ s = "insertWorkspace" => "workspace" \in DOMAIN ch
           /\ s = "insertOwner" => "owner" \in DOMAIN ch
           /\ s = "findWorkspace" => DOMAIN ch = {}
           /\ s = "setVerified" => "verified" \in DOMAIN ch
           /\ s = "useVerification" => "verification" \in DOMAIN ch /\ ch["verification"] = "used"
           /\ s = "retireTokens" => \A t \in ResetTokens : db[t] = "live" => t \in DOMAIN ch
<1> DEFINE w == IF db["workspace"] = None THEN call[p].tenant ELSE db["workspace"]
           retired == [t \in {u \in ResetTokens : db[u] = "live"} |-> "used"]
<1>1. See(c, "workspace") = db["workspace"] /\ \A t : See(c, t) = db[t]
  BY SeesRows
<1>2. s \notin {"setPassword", "useToken", "addMember", "useInvitation"}
      /\ (s = "dropSession" => call[p].op = "logout")
  BY Places DEF Inside
<1>3. p \in Tokens
  BY RowsDiffer
<1>4. call[p].op = "logout" => [r \in Dropped(p, c) |-> "absent"] = Row("session", "absent")
  BY DEF Dropped, Row
<1>5. \/ s = "retireTokens" /\ ch = retired
      \/ s \in {"insertToken", "insertSession"} /\ ch = Row(p, "live")
      \/ s = "insertUser" /\ ch = Row("user", "present")
      \/ s = "insertWorkspace" /\ ch = Row("workspace", w)
      \/ s = "insertOwner" /\ ch = Row("owner", call[p].tenant)
      \/ s = "setVerified" /\ ch = Row("verified", "present")
      \/ s = "useVerification" /\ ch = Row("verification", "used")
      \/ s = "saveProfile" /\ ch = Row("profile", call[p].tenant)
      \/ s = "dropSession" /\ ch = Row("session", "absent")
      \/ s \notin {"retireTokens", "insertToken", "insertSession", "insertUser", "insertWorkspace",
                   "insertOwner", "setVerified", "useVerification", "saveProfile", "dropSession"} /\ ch = Empty
  BY <1>1, <1>2, <1>4 DEF Changed
<1>6. DOMAIN retired = {u \in ResetTokens : db[u] = "live"} /\ \A t \in DOMAIN retired : retired[t] = "used"
  OBVIOUS
<1>17. \A t \in Tokens : t \notin {"user", "password", "verified", "verification", "session", "member",
                                    "workspace", "owner", "profile"}
  BY RowsDiffer
<1>18. ResetTokens \subseteq Tokens
  BY RowsDiffer
<1> HIDE DEF retired, w
<1>7. CASE s = "retireTokens" /\ ch = retired
  <2>1. \A r \in DOMAIN ch : r \in ResetTokens /\ db[r] = "live" /\ ch[r] = "used" /\ r \in Tokens
    BY <1>6, <1>7, <1>18
  <2>2. \A t \in ResetTokens : db[t] = "live" => t \in DOMAIN ch
    BY <1>6, <1>7
  <2> QED
    BY <1>7, <1>17, <2>1, <2>2
<1>8. CASE s \in {"insertToken", "insertSession"} /\ ch = Row(p, "live")
  <2>1. DOMAIN ch = {p} /\ ch[p] = "live"
    BY <1>8 DEF Row
  <2> QED
    BY <1>3, <1>8, <1>17, <2>1
<1>9. CASE s = "insertUser" /\ ch = Row("user", "present")
  <2>1. DOMAIN ch = {"user"} /\ ch["user"] = "present"
    BY <1>9 DEF Row
  <2> QED
    BY <1>3, <1>9, <1>17, <2>1
<1>10. CASE s = "insertWorkspace" /\ ch = Row("workspace", w)
  <2>1. DOMAIN ch = {"workspace"} /\ ch["workspace"] = w
    BY <1>10 DEF Row
  <2> QED
    BY <1>3, <1>10, <1>17, <2>1 DEF w
<1>11. CASE s = "insertOwner" /\ ch = Row("owner", call[p].tenant)
  <2>1. DOMAIN ch = {"owner"} /\ ch["owner"] = call[p].tenant
    BY <1>11 DEF Row
  <2> QED
    BY <1>3, <1>11, <1>17, <2>1
<1>12. CASE s = "setVerified" /\ ch = Row("verified", "present")
  <2>1. DOMAIN ch = {"verified"} /\ ch["verified"] = "present"
    BY <1>12 DEF Row
  <2> QED
    BY <1>3, <1>12, <1>17, <2>1
<1>13. CASE s = "useVerification" /\ ch = Row("verification", "used")
  <2>1. DOMAIN ch = {"verification"} /\ ch["verification"] = "used"
    BY <1>13 DEF Row
  <2> QED
    BY <1>3, <1>13, <1>17, <2>1
<1>14. CASE s = "saveProfile" /\ ch = Row("profile", call[p].tenant)
  <2>1. DOMAIN ch = {"profile"} /\ ch["profile"] = call[p].tenant
    BY <1>14 DEF Row
  <2> QED
    BY <1>3, <1>14, <1>17, <2>1
<1>15. CASE s = "dropSession" /\ ch = Row("session", "absent")
  <2>1. DOMAIN ch = {"session"} /\ ch["session"] = "absent"
    BY <1>15 DEF Row
  <2> QED
    BY <1>3, <1>15, <1>17, <2>1
<1>16. CASE /\ s \notin {"retireTokens", "insertToken", "insertSession", "insertUser", "insertWorkspace",
                         "insertOwner", "setVerified", "useVerification", "saveProfile", "dropSession"}
            /\ ch = Empty
  BY <1>16, NoRow
<1> QED
  BY <1>5, <1>7, <1>8, <1>9, <1>10, <1>11, <1>12, <1>13, <1>14, <1>15, <1>16

\* What statements outside transactions do to the rows that matter.
LEMMA OutsideRows ==
    ASSUME TypeOK, PlaceInv, NEW p \in Callers, Active(p), NEW c \in Clients, Outside(p, c),
           NEW s, s = Statement(p)
    PROVE  /\ db'["user"] = db["user"] \/ (s = "insertUser" /\ db'["user"] = "present")
           /\ db'["verified"] = db["verified"] \/ db'["verified"] = "present"
           /\ \/ db'["workspace"] = db["workspace"]
              \/ s = "insertWorkspace" /\ db["workspace"] = None /\ db'["workspace"] = call[p].tenant
           /\ \/ db'["owner"] = db["owner"]
              \/ s = "insertOwner" /\ db'["owner"] = call[p].tenant
              \/ s # "insertWorkspace" /\ db["workspace"] # None /\ db'["owner"] = db["workspace"]
           /\ db'["member"] = db["member"] /\ db'["password"] = db["password"]
           /\ \A t \in Tokens :
                \/ db'[t] = db[t]
                \/ s = "retireTokens" /\ t \in ResetTokens /\ db[t] = "live" /\ db'[t] = "used"
                \/ s \in {"insertToken", "insertSession"} /\ t = p /\ db'[t] = "live"
           /\ s = "insertUser" => db'["user"] = "present"
           /\ s = "insertSession" => db'[p] = "live"
           /\ s = "setVerified" => db'["verified"] = "present"
           /\ s = "useVerification" => db'["verification"] = "used"
           /\ s = "insertOwner" => db'["owner"] = call[p].tenant
           /\ s = "findWorkspace" /\ db["workspace"] # None => db'["owner"] # None
           /\ s = "retireTokens" => \A t \in ResetTokens : db'[t] # "live"
<1> DEFINE ch == Changed(p, c)
           en == Ensured(p, c)
           w == Onto(ch, en)
<1>1. opener[c] = None /\ ~Inside(p) /\ call[p].pc # 0 /\ db' = Onto(w, db) /\ DOMAIN db = Rows
  BY DEF Outside, Written, TypeOK
<1>2. /\ DOMAIN en \subseteq {"session", "member", "owner", "user"}
      /\ \A r \in DOMAIN en \ {"owner"} : en[r] = db[r]
      /\ "owner" \in DOMAIN en => db["workspace"] # None /\ en["owner"] = db["workspace"]
      /\ s \in {"insertUser", "insertOwner", "insertWorkspace", "insertToken"} => DOMAIN en = {}
      /\ s = "findWorkspace" /\ db["workspace"] # None /\ db["owner"] = None => "owner" \in DOMAIN en
  BY <1>1, EnsuredRows
<1>3. /\ "user" \in DOMAIN ch => s = "insertUser" /\ ch["user"] = "present"
      /\ "verified" \in DOMAIN ch => ch["verified"] = "present"
      /\ "workspace" \in DOMAIN ch =>
            /\ s = "insertWorkspace"
            /\ ch["workspace"] = IF db["workspace"] = None THEN call[p].tenant ELSE db["workspace"]
      /\ "owner" \in DOMAIN ch => s = "insertOwner" /\ ch["owner"] = call[p].tenant
      /\ "member" \notin DOMAIN ch /\ "password" \notin DOMAIN ch
  BY <1>1, ChangedRows
<1>4. \A t \in Tokens : t \in DOMAIN ch =>
            \/ s = "retireTokens" /\ t \in ResetTokens /\ db[t] = "live" /\ ch[t] = "used"
            \/ s \in {"insertToken", "insertSession"} /\ t = p /\ ch[t] = "live"
  BY <1>1, ChangedRows
<1>5. /\ s = "insertUser" => "user" \in DOMAIN ch
      /\ s = "insertSession" => p \in DOMAIN ch
      /\ s = "insertOwner" => "owner" \in DOMAIN ch
      /\ s = "findWorkspace" => DOMAIN ch = {}
      /\ s = "setVerified" => "verified" \in DOMAIN ch
      /\ s = "useVerification" => "verification" \in DOMAIN ch /\ ch["verification"] = "used"
      /\ s = "retireTokens" => \A t \in ResetTokens : db[t] = "live" => t \in DOMAIN ch
  BY <1>1, ChangedRows
<1> HIDE DEF ch, en
<1>6. \A r \in Rows : db'[r] = IF r \in DOMAIN ch THEN ch[r] ELSE IF r \in DOMAIN en THEN en[r] ELSE db[r]
  <2>1. /\ \A r \in DOMAIN ch : w[r] = ch[r]
        /\ \A r \in DOMAIN en \ DOMAIN ch : w[r] = en[r]
        /\ DOMAIN w = DOMAIN ch \cup DOMAIN en
    BY OntoRow
  <2> HIDE DEF w
  <2>2. /\ \A r \in DOMAIN w : db'[r] = w[r]
        /\ \A r \in Rows \ DOMAIN w : db'[r] = db[r]
    BY <1>1 DEF Onto
  <2> QED
    BY <2>1, <2>2
<1>7. \A t \in Tokens : db'[t] = IF t \in DOMAIN ch THEN ch[t] ELSE db[t]
  BY <1>2, <1>6, RowsDiffer
<1>8. /\ \A r \in Fields : db'[r] = IF r \in DOMAIN ch THEN ch[r] ELSE IF r \in DOMAIN en THEN en[r] ELSE db[r]
      /\ {"user", "verified", "workspace", "owner", "member", "password", "verification"} \subseteq Fields
  BY <1>6, RowsDiffer
<1>9. /\ \A t \in Tokens :
            \/ db'[t] = db[t]
            \/ s = "retireTokens" /\ t \in ResetTokens /\ db[t] = "live" /\ db'[t] = "used"
            \/ s \in {"insertToken", "insertSession"} /\ t = p /\ db'[t] = "live"
      /\ s = "insertSession" => db'[p] = "live"
      /\ s = "retireTokens" => \A t \in ResetTokens : db'[t] # "live"
  BY <1>4, <1>5, <1>7, RowsDiffer
<1>10. /\ db'["user"] = db["user"] \/ (s = "insertUser" /\ db'["user"] = "present")
       /\ db'["verified"] = db["verified"] \/ db'["verified"] = "present"
       /\ db'["member"] = db["member"] /\ db'["password"] = db["password"]
       /\ s = "insertUser" => db'["user"] = "present"
       /\ s = "setVerified" => db'["verified"] = "present"
       /\ s = "useVerification" => db'["verification"] = "used"
  BY <1>2, <1>3, <1>5, <1>8
<1>11. /\ \/ db'["workspace"] = db["workspace"]
          \/ s = "insertWorkspace" /\ db["workspace"] = None /\ db'["workspace"] = call[p].tenant
       /\ \/ db'["owner"] = db["owner"]
          \/ s = "insertOwner" /\ db'["owner"] = call[p].tenant
          \/ s # "insertWorkspace" /\ db["workspace"] # None /\ db'["owner"] = db["workspace"]
       /\ s = "insertOwner" => db'["owner"] = call[p].tenant
  BY <1>2, <1>3, <1>5, <1>8
<1>12. s = "findWorkspace" /\ db["workspace"] # None => db'["owner"] # None
  BY <1>2, <1>5, <1>8
<1> QED
  BY <1>9, <1>10, <1>11, <1>12

\* What the statements of a transaction write.
LEMMA WithinWrites ==
    ASSUME TypeOK, PlaceInv, NEW p \in Callers, Active(p), NEW c \in Clients
    PROVE  /\ call[p].op = "reset" /\ call[p].pc = 3 => Written(p, c) = Onto(Row("password", p), Empty)
           /\ call[p].op = "reset" /\ call[p].pc = 4 => Written(p, c) = Onto(Row(call[p].token, "used"), Empty)
           /\ call[p].op = "reset" /\ call[p].pc = 5
                => Written(p, c) = Onto([r \in Dropped(p, c) |-> "absent"], Empty)
           /\ call[p].op = "accept" /\ call[p].pc = 4 => Written(p, c) = Onto(Row("member", "present"), Empty)
           /\ call[p].op = "accept" /\ call[p].pc = 5 => Written(p, c) = Onto(Row("invitation", "used"), Empty)
<1> DEFINE s == Statement(p)
<1>1. /\ call[p].op = "reset" /\ call[p].pc = 3 => s = "setPassword"
      /\ call[p].op = "reset" /\ call[p].pc = 4 => s = "useToken"
      /\ call[p].op = "reset" /\ call[p].pc = 5 => s = "dropSession"
      /\ call[p].op = "accept" /\ call[p].pc = 4 => s = "addMember"
      /\ call[p].op = "accept" /\ call[p].pc = 5 => s = "useInvitation"
  BY Places
<1>2. call[p].op \in {"reset", "accept"} /\
          s \in {"setPassword", "useToken", "dropSession", "addMember", "useInvitation"}
        => Ensured(p, c) = Empty
  BY DEF Ensured
<1>3. /\ s = "setPassword" => Changed(p, c) = Row("password", p)
      /\ s = "useToken" => Changed(p, c) = Row(call[p].token, "used")
      /\ s = "dropSession" => Changed(p, c) = [r \in Dropped(p, c) |-> "absent"]
      /\ s = "addMember" => Changed(p, c) = Row("member", "present")
      /\ s = "useInvitation" => Changed(p, c) = Row("invitation", "used")
  BY DEF Changed
<1> HIDE DEF s
<1> QED
  BY <1>1, <1>2, <1>3 DEF Written

\* A step at home opens a transaction for one request, or ends it with its request.
LEMMA NextOwners == TypeOK /\ PlaceInv /\ OwnerInv /\ [Next]_vars => OwnerInv'
<1> SUFFICES ASSUME TypeOK, PlaceInv, OwnerInv, [Next]_vars PROVE OwnerInv'
  OBVIOUS
<1> SUFFICES ASSUME ~strayed',
                    NEW d \in Clients, NEW o \in Callers, opener'[d] = o
             PROVE  /\ call'[o].op \in {"reset", "accept"} /\ call'[o].status # "new"
                    /\ call'[o].status = "active" => Inside(o)' \/ call'[o].pc = 0
                    /\ \A e \in Clients : opener'[e] = o => e = d
  <2>1. opener' \in [Clients -> Callers \cup {None}]
    BY NextTypeOK DEF TypeOK
  <2> QED
    BY <2>1 DEF OwnerInv, Active, Inside
<1> DEFINE Goal == /\ call'[o].op \in {"reset", "accept"} /\ call'[o].status # "new"
                   /\ call'[o].status = "active" => Inside(o)' \/ call'[o].pc = 0
                   /\ \A e \in Clients : opener'[e] = o => e = d
<1>1. ~strayed /\ o # None /\ None \notin Callers
  BY AccountsAssumption, Steps
<1>2. \A c \in Clients : opener[c] = o =>
        /\ call[o].op \in {"reset", "accept"} /\ call[o].status # "new"
        /\ Active(o) => Inside(o) \/ call[o].pc = 0
        /\ \A e \in Clients : opener[e] = o => e = c
  BY <1>1 DEF OwnerInv
<1>3. CASE Quiet
  <2>1. opener[d] = o /\ Lies(o)
    BY <1>1, <1>3 DEF Quiet
  <2>2. \A e \in Clients : opener'[e] = o => opener[e] = o
    BY <1>1, <1>3 DEF Quiet
  <2> QED
    BY <1>2, <2>1, <2>2 DEF Lies, Active, Inside
<1>4. ASSUME NEW p \in Callers, NEW t \in Tokens, Begin(p, t) PROVE Goal
  <2>1. opener' = opener
    BY <1>4 DEF Begin, clientVars
  <2>2. call'[o] = call[o]
    <3>1. call[p].status = "new" /\ \A q \in Callers : q # p => call'[q] = call[q]
      BY <1>4, BeginType
    <3>2. call[o].status # "new"
      BY <1>2, <2>1
    <3> QED
      BY <3>1, <3>2
  <2> QED
    BY <1>2, <2>1, <2>2 DEF Active, Inside
<1>5. ASSUME NEW p \in Callers, NEW c \in Clients, DoesAtHome(p, c) PROVE Goal
  <2>1. /\ c \in Clients /\ \A e \in Clients \ {c} : opener'[e] = opener[e]
        /\ o # p => call'[o] = call[o]
        /\ Active(p) /\ call'[p].op = call[p].op
    BY <1>5 DEF DoesAtHome, Alone
  <2>2. CASE Opens(p, c)
    <3>1. \A e \in Clients : opener[e] # p
      BY <1>1, <2>1, <2>2 DEF OwnerInv, Opens
    <3>2. /\ opener'[c] = p /\ call'[p].status = "active" /\ Inside(p)' /\ call[p].op \in {"reset", "accept"}
      BY <2>2 DEF Opens
    <3>3. CASE o = p
      BY <2>1, <3>1, <3>2, <3>3
    <3>4. CASE o # p
      BY <1>2, <2>1, <3>2, <3>4 DEF Active, Inside
    <3> QED
      BY <3>3, <3>4
  <2>3. CASE Commits(p, c)
    <3>1. opener'[c] = None /\ opener[c] = p
      BY <2>3 DEF Commits
    <3>2. d # c /\ opener[d] = o /\ o # p
      BY <1>1, <1>2, <2>1, <3>1
    <3> QED
      BY <1>1, <1>2, <2>1, <3>1, <3>2 DEF Active, Inside
  <2>4. CASE Within(p, c)
    <3>1. opener' = opener /\ opener[c] = p /\ Inside(p) /\ call[p].pc \in 3..5
          /\ call'[p].status = "active" /\ call'[p].pc = call[p].pc + 1
      BY <2>4 DEF Within
    <3>2. Inside(p)'
      BY <2>1, <3>1 DEF Inside, Active
    <3>3. CASE o = p
      BY <1>2, <2>1, <3>1, <3>2, <3>3
    <3>4. CASE o # p
      BY <1>2, <2>1, <3>1, <3>4 DEF Active, Inside
    <3> QED
      BY <3>3, <3>4
  <2>5. CASE Outside(p, c)
    <3>1. opener' = opener /\ ~Inside(p) /\ call[p].pc # 0
      BY <2>5 DEF Outside
    <3>2. o # p
      BY <1>2, <2>1, <3>1
    <3> QED
      BY <1>2, <2>1, <3>1, <3>2 DEF Active, Inside
  <2> QED
    BY <1>5, <2>2, <2>3, <2>4, <2>5 DEF DoesAtHome
<1> QED
  BY <1>3, <1>4, <1>5, Steps

-----------------------------------------------------------------------------
(* What is answered is committed *)

\* What the transaction of a reset has written grows by the row of each statement.
LEMMA ResetWrites ==
    ASSUME TypeOK, PlaceInv, NEW p \in Callers, NEW c \in Clients, Active(p), call[p].op = "reset",
           call[p].pc \in 3..5, WrittenSoFar(p, pending[c]), NEW n, n = Onto(Written(p, c), pending[c])
    PROVE  /\ DOMAIN n \subseteq {"password", "session", call[p].token} \cup SignIns
           /\ call[p].token \in DOMAIN n => n[call[p].token] = "used"
           /\ "password" \in DOMAIN n /\ n["password"] = p
           /\ call[p].pc > 3 => call[p].token \in DOMAIN n
           /\ call[p].pc > 4 => "session" \in DOMAIN n /\ n["session"] = "absent"
<1> DEFINE w == pending[c]
           i == call[p].pc
           t == call[p].token
<1>5. /\ i \in 3..5 /\ t \in Tokens
      /\ DOMAIN w \subseteq {"password", "session", t} \cup SignIns
      /\ t \in DOMAIN w => w[t] = "used"
      /\ i > 3 => "password" \in DOMAIN w /\ w["password"] = p
      /\ i > 4 => t \in DOMAIN w
  BY DEF WrittenSoFar, Rewrites, TypeOK
<1>6. /\ i = 3 => n = Onto(Onto(Row("password", p), Empty), w)
      /\ i = 4 => n = Onto(Onto(Row(t, "used"), Empty), w)
      /\ i = 5 => n = Onto(Onto([r \in Dropped(p, c) |-> "absent"], Empty), w)
  BY WithinWrites
<1>7. t \in DOMAIN w => See(c, t) = w[t]
  BY DEF See
<1> HIDE DEF w, i, t
<1>1. t # "password" /\ t # "session" /\ "password" \notin SignIns /\ "session" \notin SignIns
  BY <1>5, RowsDiffer
<1>2. CASE i = 3
  <2>1. DOMAIN n = {"password"} \cup DOMAIN w /\ n["password"] = p
        /\ \A r \in DOMAIN w \ {"password"} : n[r] = w[r]
    BY <1>2, <1>6, NoRow DEF Onto, Row
  <2> QED
    BY <1>1, <1>2, <1>5, <2>1 DEF i, t
<1>3. CASE i = 4
  <2>1. DOMAIN n = {t} \cup DOMAIN w /\ n[t] = "used"
        /\ \A r \in DOMAIN w \ {t} : n[r] = w[r]
    BY <1>3, <1>6, NoRow DEF Onto, Row
  <2> QED
    BY <1>1, <1>3, <1>5, <2>1 DEF i, t
<1>4. CASE i = 5
  <2>1. /\ "session" \in Dropped(p, c) /\ Dropped(p, c) \subseteq {"session"} \cup SignIns
        /\ t \in SignIns /\ t \in Dropped(p, c) => See(c, t) = "live"
    BY <1>1 DEF Dropped
  <2>2. t \notin Dropped(p, c)
    <3>1. See(c, t) = "used"
      BY <1>4, <1>5, <1>7
    <3> QED
      BY <1>1, <2>1, <3>1
  <2>3. /\ DOMAIN n = Dropped(p, c) \cup DOMAIN w
        /\ \A r \in Dropped(p, c) : n[r] = "absent"
        /\ \A r \in DOMAIN w \ Dropped(p, c) : n[r] = w[r]
    BY <1>4, <1>6, NoRow DEF Onto
  <2>4. "password" \notin Dropped(p, c)
    BY <1>1, <2>1
  <2> QED
    BY <1>1, <1>4, <1>5, <2>1, <2>2, <2>3, <2>4 DEF i, t
<1>8. i = 3 \/ i = 4 \/ i = 5
  BY <1>5
<1> QED
  BY <1>2, <1>3, <1>4, <1>8

\* So does what the transaction of an acceptance has written.
LEMMA AcceptWrites ==
    ASSUME TypeOK, PlaceInv, NEW p \in Callers, NEW c \in Clients, Active(p), call[p].op = "accept",
           call[p].pc \in 4..5, WrittenSoFar(p, pending[c]), NEW n, n = Onto(Written(p, c), pending[c])
    PROVE  /\ DOMAIN n \subseteq {"member", "invitation"}
           /\ "member" \in DOMAIN n /\ n["member"] = "present"
           /\ call[p].pc > 4 => "invitation" \in DOMAIN n /\ n["invitation"] = "used"
<1> DEFINE w == pending[c]
           i == call[p].pc
<1>1. /\ i \in 4..5 /\ DOMAIN w \subseteq {"member", "invitation"}
      /\ i > 4 => "member" \in DOMAIN w /\ w["member"] = "present"
  BY DEF WrittenSoFar, Rewrites
<1>2. /\ i = 4 => n = Onto(Onto(Row("member", "present"), Empty), w)
      /\ i = 5 => n = Onto(Onto(Row("invitation", "used"), Empty), w)
  BY WithinWrites
<1> HIDE DEF w, i
<1>3. CASE i = 4
  <2>1. DOMAIN n = {"member"} \cup DOMAIN w /\ n["member"] = "present"
    BY <1>2, <1>3, NoRow DEF Onto, Row
  <2> QED
    BY <1>1, <1>3, <2>1 DEF i
<1>4. CASE i = 5
  <2>1. DOMAIN n = {"invitation"} \cup DOMAIN w /\ n["invitation"] = "used"
        /\ \A r \in DOMAIN w \ {"invitation"} : n[r] = w[r]
    BY <1>2, <1>4, NoRow DEF Onto, Row
  <2> QED
    BY <1>1, <1>4, <2>1 DEF i
<1>5. i = 4 \/ i = 5
  BY <1>1
<1> QED
  BY <1>3, <1>4, <1>5

\* Inside its transaction, each statement adds its row to what is pending.
LEMMA NextPending == TypeOK /\ PlaceInv /\ OwnerInv /\ PendingInv /\ [Next]_vars => PendingInv'
<1> SUFFICES ASSUME TypeOK, PlaceInv, OwnerInv, PendingInv, [Next]_vars PROVE PendingInv'
  OBVIOUS
<1> SUFFICES ASSUME ~strayed', NEW d \in Clients, NEW o \in Callers, opener'[d] = o, Inside(o)'
             PROVE  WrittenSoFar(o, pending[d])'
  <2>1. opener' \in [Clients -> Callers \cup {None}]
    BY NextTypeOK DEF TypeOK
  <2> QED
    BY <2>1 DEF PendingInv, Inside, Active, WrittenSoFar, Rewrites, SignIns
<1>1. /\ opener \in [Clients -> Callers \cup {None}] /\ None \notin Callers /\ ~strayed
      /\ SignIns' = SignIns
  BY AccountsAssumption, Steps, OpsStay DEF TypeOK
<1>6. call'[o].status = "active"
  BY DEF Inside, Active
<1>2. ASSUME opener[d] = o, pending'[d] = pending[d], call'[o].pc = call[o].pc, call'[o].op = call[o].op,
             call'[o].token = call[o].token, Active(o)
      PROVE  WrittenSoFar(o, pending[d])'
  <2>1. Inside(o)
    BY <1>2 DEF Inside
  <2>2. WrittenSoFar(o, pending[d])
    BY <1>1, <1>2, <2>1 DEF PendingInv
  <2> QED
    BY <1>1, <1>2, <2>2 DEF WrittenSoFar, Rewrites
<1>3. CASE Quiet
  <2>1. opener[d] = o /\ pending'[d] = pending[d] /\ Lies(o)
    BY <1>1, <1>3 DEF Quiet
  <2>2. call'[o].pc # 0
    BY DEF Inside
  <2> QED
    BY <1>2, <1>6, <2>1, <2>2 DEF Lies, Active
<1>4. ASSUME NEW p \in Callers, NEW t \in Tokens, Begin(p, t) PROVE WrittenSoFar(o, pending[d])'
  <2>1. /\ opener' = opener /\ pending' = pending /\ call[p].status = "new"
        /\ \A q \in Callers : q # p => call'[q] = call[q]
    BY <1>4, BeginType DEF Begin, clientVars
  <2>2. call[o].status # "new"
    BY <1>1, <2>1 DEF OwnerInv
  <2> QED
    BY <1>2, <1>6, <2>1, <2>2 DEF Active
<1>5. ASSUME NEW p \in Callers, NEW c \in Clients, DoesAtHome(p, c) PROVE WrittenSoFar(o, pending[d])'
  <2>1. /\ Active(p) /\ c \in Clients /\ \A q \in Callers \ {p} : call'[q] = call[q]
        /\ call'[p].op = call[p].op /\ call'[p].token = call[p].token
        /\ \A e \in Clients \ {c} : opener'[e] = opener[e] /\ pending'[e] = pending[e]
    BY <1>5 DEF DoesAtHome, Alone
  <2>2. CASE o # p
    <3>1. opener[d] = o /\ pending'[d] = pending[d]
      <4>1. CASE d # c
        BY <2>1, <4>1
      <4>2. CASE d = c
        <5>1. ~(Opens(p, c) \/ Commits(p, c) \/ Within(p, c))
          BY <1>1, <2>2, <4>2 DEF Opens, Commits, Within
        <5> QED
          BY <1>5, <4>2, <5>1 DEF DoesAtHome, Outside
      <4> QED
        BY <4>1, <4>2
    <3> QED
      BY <1>2, <1>6, <2>1, <2>2, <3>1 DEF Active
  <2>3. CASE o = p
    <3>1. CASE Opens(p, c)
      <4>1. d = c
        BY <1>1, <2>1, <2>3, <3>1 DEF OwnerInv, Opens
      <4>2. /\ pending'[c] = Empty /\ call[p].op \in {"reset", "accept"} /\ ~Inside(p)
            /\ call'[p].pc = call[p].pc + 1
        BY <3>1 DEF Opens
      <4>3. ~(call[p].op = "reset" /\ call'[p].pc > 3) /\ ~(call[p].op = "accept" /\ call'[p].pc > 4) /\
                call'[p].pc \in Nat
        <5>1. call[p].pc \in 0..10
          BY DEF TypeOK
        <5>2. ~(call[p].op = "reset" /\ call[p].pc > 2) /\ ~(call[p].op = "accept" /\ call[p].pc > 3)
          BY <2>1, <4>2 DEF Inside
        <5> QED
          BY <4>2, <5>1, <5>2
      <4> QED
        BY <2>1, <2>3, <4>1, <4>2, <4>3, NoRow DEF WrittenSoFar
    <3>2. CASE Within(p, c)
      <4>1. d = c
        BY <1>1, <2>1, <2>3, <3>2 DEF OwnerInv, Within
      <4> DEFINE w == pending[c]
                 n == pending'[c]
                 i == call[p].pc
                 k == call[p].op
                 t == call[p].token
      <4>2. /\ i \in 3..5 /\ call'[p].pc = i + 1 /\ n = Onto(Written(p, c), w) /\ call'[p].op = k
            /\ call'[p].token = t /\ opener[c] = p /\ Inside(p)
        BY <2>1, <3>2 DEF Within
      <4>3. WrittenSoFar(p, w)
        BY <1>1, <4>2 DEF PendingInv
      <4>5. k \in {"reset", "accept"} /\ (k = "accept" => i # 3)
        BY <4>2 DEF Inside
      <4>6. CASE k = "reset"
        <5>3. /\ DOMAIN n \subseteq {"password", "session", t} \cup SignIns
              /\ t \in DOMAIN n => n[t] = "used"
              /\ "password" \in DOMAIN n /\ n["password"] = p
              /\ i > 3 => t \in DOMAIN n
              /\ i > 4 => "session" \in DOMAIN n /\ n["session"] = "absent"
          BY <2>1, <4>2, <4>3, <4>6, ResetWrites
        <5> HIDE DEF w, n, i, t
        <5>5. (i + 1 > 4 => i > 3) /\ (i + 1 > 5 => i > 4)
          BY <4>2
        <5>6. /\ DOMAIN n \subseteq Rewrites(p)'
              /\ t \in DOMAIN n => n[t] = "used"
              /\ i + 1 > 3 => "password" \in DOMAIN n /\ n["password"] = p
              /\ i + 1 > 4 => t \in DOMAIN n
              /\ i + 1 > 5 => "session" \in DOMAIN n /\ n["session"] = "absent"
          BY <1>1, <4>2, <4>6, <5>3, <5>5 DEF Rewrites
        <5> QED
          BY <2>3, <4>1, <4>2, <4>6, <5>6 DEF WrittenSoFar, n
      <4>7. CASE k = "accept"
        <5>3. i \in 4..5
          BY <4>2, <4>5, <4>7
        <5>4. /\ DOMAIN n \subseteq {"member", "invitation"}
              /\ "member" \in DOMAIN n /\ n["member"] = "present"
              /\ i > 4 => "invitation" \in DOMAIN n /\ n["invitation"] = "used"
          BY <2>1, <4>2, <4>3, <4>7, <5>3, AcceptWrites
        <5> HIDE DEF w, n, i
        <5>5. i + 1 > 5 => i > 4
          BY <5>3
        <5> QED
          BY <2>3, <4>1, <4>2, <4>7, <5>4, <5>5 DEF WrittenSoFar, Rewrites, n
      <4> QED
        BY <4>5, <4>6, <4>7
    <3>3. ~Outside(p, c)
      BY <1>1, <2>1, <2>3, <1>5 DEF OwnerInv, Outside
    <3>4. ~Commits(p, c)
      BY <1>6, <2>3 DEF Commits
    <3> QED
      BY <1>5, <3>1, <3>2, <3>3, <3>4 DEF DoesAtHome
  <2> QED
    BY <2>2, <2>3
<1> QED
  BY <1>3, <1>4, <1>5, Steps

\* What a step at home that is not outside does to the rows.
LEMMA InsideRows ==
    ASSUME TypeOK, PlaceInv, OwnerInv, PendingInv, ~strayed,
           NEW p \in Callers, NEW c \in Clients, DoesAtHome(p, c), ~Outside(p, c)
    PROVE  /\ call[p].op \in {"reset", "accept"}
           /\ \A r \in {"user", "owner", "workspace", "verified"} : db'[r] = db[r]
           /\ db'["member"] = db["member"] \/ db'["member"] = "present"
           /\ \/ db'["password"] = db["password"] /\ \A q \in SignIns : db'[q] = db[q]
              \/ call[p].op = "reset" /\ db'["password"] = p
           /\ \A t \in ResetTokens : \/ db'[t] = db[t]
                                     \/ call[p].op = "reset" /\ t = call[p].token /\ db'[t] = "used"
           /\ call'[p].status = "ok" =>
                /\ call[p].op = "reset" => /\ call[p].pc = 6 /\ db'["password"] = p
                                           /\ db'[call[p].token] = "used" /\ db'["session"] = "absent"
                /\ call[p].op = "accept" => db'["member"] = "present" /\ db'["invitation"] = "used"
<1>1. Alone(p, c) /\ call[p].token \in Tokens /\ DOMAIN db = Rows
  BY DEF DoesAtHome, TypeOK
<1>2. /\ \A r \in {"user", "owner", "workspace", "verified", "password", "session", "member", "invitation"} :
            r \in Rows /\ r \notin Tokens
      /\ SignIns \subseteq Tokens /\ Tokens \subseteq Rows /\ SignIns \cap ResetTokens = {}
      /\ ResetTokens \subseteq Tokens
  BY RowsDiffer
<1>3. CASE Commits(p, c)
  <2> DEFINE w == pending[c]
  <2>1. /\ opener[c] = p /\ p # None /\ Inside(p) /\ call[p].pc = 6 /\ db' = Onto(w, db)
    BY <1>3, AccountsAssumption DEF Commits
  <2>2. WrittenSoFar(p, w) /\ call[p].op \in {"reset", "accept"}
    BY <2>1 DEF PendingInv, OwnerInv
  <2>5. \A r \in Rows : db'[r] = IF r \in DOMAIN w THEN w[r] ELSE db[r]
    BY <1>1, <2>1 DEF Onto
  <2> HIDE DEF w
  <2>3. CASE call[p].op = "reset"
    <3>1. /\ DOMAIN w \subseteq {"password", "session", call[p].token} \cup SignIns
          /\ call[p].token \in DOMAIN w /\ w[call[p].token] = "used"
          /\ "password" \in DOMAIN w /\ w["password"] = p
          /\ "session" \in DOMAIN w /\ w["session"] = "absent"
      BY <2>1, <2>2, <2>3 DEF WrittenSoFar, Rewrites
    <3> QED
      BY <1>1, <1>2, <2>1, <2>3, <2>5, <3>1
  <2>4. CASE call[p].op = "accept"
    <3>1. /\ DOMAIN w \subseteq {"member", "invitation"}
          /\ "member" \in DOMAIN w /\ w["member"] = "present"
          /\ "invitation" \in DOMAIN w /\ w["invitation"] = "used"
      BY <2>1, <2>2, <2>4 DEF WrittenSoFar, Rewrites
    <3> QED
      BY <1>1, <1>2, <2>1, <2>4, <2>5, <3>1
  <2> QED
    BY <2>2, <2>3, <2>4
<1>4. CASE Opens(p, c) \/ Within(p, c)
  <2>1. db' = db /\ call'[p].status = "active"
    BY <1>4 DEF Opens, Within
  <2>2. call[p].op \in {"reset", "accept"}
    BY <1>4 DEF Opens, Within, Inside
  <2> QED
    BY <2>1, <2>2
<1> QED
  BY <1>3, <1>4 DEF DoesAtHome


\* Where a request goes on after a statement outside a transaction that it wants.
LEMMA OutsideLeads ==
    ASSUME TypeOK, PlaceInv, NEW p \in Callers, NEW c \in Clients, Active(p), Outside(p, c),
           call'[p].status # "failed", NEW o, o = call[p].op, NEW i, i = call[p].pc
    PROVE  /\ o \in Ops /\ i \in 1..Len(Program[o])
           /\ \E n \in 1..11 :
                /\ call'[p].op = o /\ (n > Len(Program[o]) \/ n <= Len(Program[o]))
                /\ n > Len(Program[o]) => call'[p].pc = 1 /\ call'[p].status = "ok"
                /\ n <= Len(Program[o])
                       => call'[p].pc = n /\ call'[p].status = "active" /\ call'[p].tenant = Tenant(p, c)
                /\ o \in {"google", "signin"} /\ i = 1 => n = IF db["user"] = "present" THEN 4 ELSE 2
                /\ o = "google" /\ i = 4 => n = IF Workspace THEN 10 ELSE 5
                /\ o = "onboard" /\ i = 2 => n = IF Workspace THEN 9 ELSE 3
                /\ \/ n = i + 1 \/ (o \in {"request", "google", "signin"} /\ i = 1)
                   \/ (o = "google" /\ i = 4) \/ (o = "onboard" /\ i = 2)
                /\ o = "request" /\ i = 1 => n \in {2, 4}
           /\ o = "login" /\ i = 1 => db["user"] # "absent"
           /\ (o = "google" /\ i = 5) \/ (o = "onboard" /\ i = 4) => Tenant(p, c) # None
           /\ ~((o = "google" /\ i = 5) \/ (o = "onboard" /\ i = 4)) => Tenant(p, c) = call[p].tenant
           /\ o = "reset" => i = 1 /\ db[call[p].token] = "live"
           /\ o = "accept" => i \in 1..2
<1> DEFINE s == Statement(p)
           n == Following(p, c)
<1>1. \A r \in Rows : See(c, r) = db[r]
  BY SeesRows DEF Outside
<1>2. {"user", "owner", "workspace", "member"} \subseteq Rows /\ call[p].token \in Rows
  BY DEF Rows, Fields, TypeOK
<1>3. /\ ~Inside(p) /\ ~Refused(p, c) /\ s \notin {"BEGIN", "COMMIT", "ROLLBACK"} /\ i # 0
      /\ Advance(p, n, Tenant(p, c)) /\ n \in 1..11 /\ Tenant(p, c) \in Callers \cup {None}
  BY DEF Outside
<1>4. o \in Ops /\ i \in 0..Len(Program[o])
  BY Places
<1>5. i \in 1..Len(Program[o])
  <2> DEFINE m == Len(Program[o])
  <2>1. m \in 1..10
    BY <1>4, Sizes
  <2> HIDE DEF m
  <2>2. i \in 1..m
    BY <1>3, <1>4, <2>1 DEF m
  <2> QED
    BY <2>2 DEF m
<1>6. /\ call'[p].op = o
      /\ n > Len(Program[o]) => call'[p].pc = 1 /\ call'[p].status = "ok"
      /\ n <= Len(Program[o]) => call'[p].pc = n /\ call'[p].status = "active" /\ call'[p].tenant = Tenant(p, c)
  BY <1>3, Advanced
<1>7. /\ See(c, "user") = db["user"] /\ See(c, "workspace") = db["workspace"]
      /\ FindsWorkspace(c) <=> Workspace
  BY <1>1, <1>2 DEF FindsWorkspace, Workspace
<1>8. Len(Program["request"]) = 3 /\ Len(Program["onboard"]) = 8
  BY Sizes
<1>9. /\ o \in {"google", "signin"} /\ i = 1 => n = IF db["user"] = "present" THEN 4 ELSE 2
      /\ o = "google" /\ i = 4 => n = IF Workspace THEN 10 ELSE 5
      /\ o = "onboard" /\ i = 2 => n = IF Workspace THEN 9 ELSE 3
      /\ \/ n = i + 1 \/ (o \in {"request", "google", "signin"} /\ i = 1)
         \/ (o = "google" /\ i = 4) \/ (o = "onboard" /\ i = 2)
      /\ o = "request" /\ i = 1 => n \in {2, 4}
  <2>1. /\ s = "findUser" <=> o \in {"google", "signin", "request", "login"} /\ i = 1
        /\ s = "findWorkspace" <=> (o \in {"google", "signin"} /\ i = 4) \/ (o = "onboard" /\ i = 2)
    BY Places
  <2> HIDE DEF s
  <2>2. CASE s = "findUser"
    <3>1. i = 1 /\ o \in {"google", "signin", "request", "login"} /\ i + 1 = 2
      BY <2>1, <2>2
    <3>2. n = IF o = "request" /\ db["user"] = "absent" THEN Len(Program[o]) + 1
              ELSE IF o \in {"google", "signin"} /\ db["user"] = "present" THEN 4 ELSE i + 1
      BY <1>7, <2>2 DEF Following, s
    <3> HIDE DEF n
    <3>3. n = IF o = "request" /\ db["user"] = "absent" THEN 4
              ELSE IF o \in {"google", "signin"} /\ db["user"] = "present" THEN 4 ELSE 2
      <4> DEFINE m == Len(Program[o])
      <4>1. o = "request" => m = 3
        BY <1>8, Zenon
      <4> HIDE DEF m
      <4>2. n = IF o = "request" /\ db["user"] = "absent" THEN m + 1
                ELSE IF o \in {"google", "signin"} /\ db["user"] = "present" THEN 4 ELSE i + 1
        BY <3>2 DEF m
      <4> QED
        BY <3>1, <4>1, <4>2
    <3> QED
      BY <3>1, <3>3
  <2>3. CASE s = "findWorkspace"
    <3>1. (o \in {"google", "signin"} /\ i = 4) \/ (o = "onboard" /\ i = 2)
      BY <2>1, <2>3
    <3>2. n = IF o = "google" /\ FindsWorkspace(c) THEN 10
              ELSE IF o = "onboard" /\ FindsWorkspace(c) THEN Len(Program[o]) + 1 ELSE i + 1
      BY <2>3 DEF Following, s
    <3> HIDE DEF n
    <3> DEFINE m == Len(Program[o])
    <3>3. o = "onboard" => m = 8
      BY <1>8, Zenon
    <3> HIDE DEF m
    <3>4. n = IF o = "google" /\ Workspace THEN 10
              ELSE IF o = "onboard" /\ Workspace THEN m + 1 ELSE i + 1
      BY <1>7, <3>2 DEF m
    <3> QED
      BY <3>1, <3>3, <3>4
  <2>4. CASE s # "findUser" /\ s # "findWorkspace"
    BY <2>1, <2>4 DEF Following, s
  <2> QED
    BY <2>2, <2>3, <2>4
<1>10. /\ o = "login" /\ i = 1 => db["user"] # "absent"
       /\ o = "reset" /\ i = 1 => db[call[p].token] = "live"
  BY <1>1, <1>2, <1>3, <1>7, Places DEF Refused, Usable
<1>11. /\ (o = "google" /\ i = 5) \/ (o = "onboard" /\ i = 4) => Tenant(p, c) # None
       /\ ~((o = "google" /\ i = 5) \/ (o = "onboard" /\ i = 4)) => Tenant(p, c) = call[p].tenant
  <2>1. p # None
    BY AccountsAssumption
  <2> QED
    BY <1>7, <2>1, Places DEF Tenant
<1>12. (o = "reset" => i = 1) /\ (o = "accept" => i \in 1..2)
  <2>1. /\ o = "reset" => ~(i > 2) /\ i # 2
        /\ o = "accept" => ~(i > 3) /\ i # 3
    BY <1>3, Places DEF Inside
  <2>2. i \in Nat \ {0}
    BY <1>3 DEF TypeOK
  <2> QED
    BY <2>1, <2>2
<1> HIDE DEF n, s
<1>13. n \in 1..11
  BY <1>3 DEF n
<1>14. n > Len(Program[o]) \/ n <= Len(Program[o])
  <2> DEFINE m == Len(Program[o])
  <2>1. m \in 1..10
    BY <1>4, Sizes
  <2> HIDE DEF m
  <2>2. n > m \/ n <= m
    BY <1>13, <2>1
  <2> QED
    BY <2>2 DEF m
<1> QED
  BY <1>4, <1>5, <1>6, <1>9, <1>10, <1>11, <1>12, <1>13, <1>14

-----------------------------------------------------------------------------
(* The rows that requests count on *)

\* At first there is no workspace.
LEMMA InitMade == Init => MadeInv
<1> SUFFICES ASSUME Init PROVE MadeInv
  OBVIOUS
<1>1. \A p \in Callers : ~Active(p)
  BY DEF Init, Active
<1>2. {"user", "owner"} \subseteq Rows /\ "owner" \notin Tokens /\ "user" \notin Tokens /\ First \in Tokens
  BY AccountsAssumption DEF Rows, Fields, Tokens
<1>3. db["user"] \in {"present", "absent"} /\ db["owner"] = None
  BY <1>2 DEF Init
<1> QED
  BY <1>1, <1>3 DEF MadeInv

\* Outside a transaction a user and an owner stay, and the owner is of the workspace.
LEMMA OwnersStay ==
    ASSUME TypeOK, PlaceInv, MadeInv, ~strayed, NEW p \in Callers, NEW c \in Clients, Active(p), Outside(p, c)
    PROVE  /\ db'["user"] \in {"present", "absent"}
           /\ db["user"] = "present" => db'["user"] = "present"
           /\ db'["owner"] # None => db'["owner"] = db'["workspace"]
           /\ db["owner"] # None => db'["owner"] # None
<1> DEFINE s == Statement(p)
           tenant == call[p].tenant
<1>1. /\ db'["user"] = db["user"] \/ db'["user"] = "present"
      /\ \/ db'["workspace"] = db["workspace"]
         \/ s = "insertWorkspace" /\ db["workspace"] = None
      /\ \/ db'["owner"] = db["owner"]
         \/ s = "insertOwner" /\ db'["owner"] = tenant
         \/ s # "insertWorkspace" /\ db["workspace"] # None /\ db'["owner"] = db["workspace"]
  BY OutsideRows
<1>2. /\ db["user"] \in {"present", "absent"}
      /\ db["owner"] # None => db["owner"] = db["workspace"]
      /\ MadeFor(p)
  BY DEF MadeInv
<1>3. s = "insertOwner" => tenant # None
  <2>1. call[p].pc \in 0..10
    BY DEF TypeOK
  <2>2. s = "insertOwner"
            => (call[p].op = "google" /\ call[p].pc = 7) \/ (call[p].op = "onboard" /\ call[p].pc = 6)
    BY Places
  <2> HIDE DEF s
  <2> QED
    BY <1>2, <2>1, <2>2 DEF MadeFor
<1>4. s = "insertOwner" => db["workspace"] = tenant
  <2>1. See(c, "workspace") = db["workspace"]
    BY SeesRows DEF Outside
  <2> QED
    BY <2>1 DEF Outside, Violates
<1> HIDE DEF s, tenant
<1> QED
  BY <1>1, <1>2, <1>3, <1>4

\* What a request made or found stays, but for a session that a reset beside the request ends.
LEMMA RowsStay ==
    ASSUME TypeOK, PlaceInv, AloneInv, OwnerInv, PendingInv, MadeInv, ~strayed, met' = met,
           NEW p \in Callers, NEW c \in Clients, DoesAtHome(p, c)
    PROVE  /\ db'["user"] \in {"present", "absent"}
           /\ db["user"] = "present" => db'["user"] = "present"
           /\ db'["owner"] # None => db'["owner"] = db'["workspace"]
           /\ db["owner"] # None => db'["owner"] # None
           /\ HasWorkspace => HasWorkspace'
           /\ db["verified"] = "present" => db'["verified"] = "present"
           /\ \A q \in SignIns : Active(q) /\ SignedIn(q) => SignedIn(q)'
<1>1. Alone(p, c) /\ Active(p)
  BY DEF DoesAtHome, Alone
<1>2. /\ db["user"] \in {"present", "absent"}
      /\ db["owner"] # None => db["owner"] = db["workspace"]
  BY DEF MadeInv
<1>3. SignIns \subseteq Tokens /\ SignIns \cap ResetTokens = {} /\ SignIns \subseteq Callers
  BY RowsDiffer
<1>4. CASE ~Outside(p, c)
  <2>1. /\ call[p].op \in {"reset", "accept"}
        /\ \A r \in {"user", "owner", "workspace", "verified"} : db'[r] = db[r]
        /\ db'["member"] = db["member"] \/ db'["member"] = "present"
        /\ \/ db'["password"] = db["password"] /\ \A q \in SignIns : db'[q] = db[q]
           \/ call[p].op = "reset" /\ db'["password"] = p
    BY <1>4, InsideRows
  <2>2. HasWorkspace => HasWorkspace'
    BY <2>1 DEF HasWorkspace
  <2>3. ASSUME NEW q \in SignIns, Active(q), SignedIn(q) PROVE SignedIn(q)'
    <3>1. "transaction" \in met
      <4>1. q # p
        BY <2>1 DEF SignIns
      <4> QED
        BY <1>1, <1>3, <2>1, <2>3, <4>1 DEF AloneInv
    <3>2. p # "old"
      BY AccountsAssumption
    <3> QED
      BY <2>1, <2>3, <3>1, <3>2 DEF SignedIn
  <2> QED
    BY <1>2, <2>1, <2>2, <2>3
<1>5. CASE Outside(p, c)
  <2>1. /\ db'["user"] \in {"present", "absent"}
        /\ db["user"] = "present" => db'["user"] = "present"
        /\ db'["owner"] # None => db'["owner"] = db'["workspace"]
        /\ db["owner"] # None => db'["owner"] # None
    BY <1>1, <1>5, OwnersStay
  <2>2. /\ db'["verified"] = db["verified"] \/ db'["verified"] = "present"
        /\ db'["member"] = db["member"] /\ db'["password"] = db["password"]
        /\ \A t \in Tokens : \/ db'[t] = db[t]
                             \/ t \in ResetTokens
                             \/ db'[t] = "live"
    BY <1>1, <1>5, OutsideRows
  <2>3. HasWorkspace => HasWorkspace'
    BY <1>2, <2>1, <2>2 DEF HasWorkspace
  <2>4. \A q \in SignIns : db'[q] = db[q] \/ db'[q] = "live"
    BY <1>3, <2>2
  <2>5. \A q \in SignIns : SignedIn(q) => SignedIn(q)'
    BY <2>1, <2>2, <2>4 DEF SignedIn
  <2> QED
    BY <2>1, <2>2, <2>3, <2>5
<1> QED
  BY <1>4, <1>5

\* A request finds the user, the workspace and the session where it left them.
LEMMA NextMade ==
    TypeOK /\ PlaceInv /\ AloneInv /\ OwnerInv /\ PendingInv /\ MadeInv /\ [Next]_vars => MadeInv'
<1> SUFFICES ASSUME TypeOK, PlaceInv, AloneInv, OwnerInv, PendingInv, MadeInv, [Next]_vars PROVE MadeInv'
  OBVIOUS
<1> DEFINE Goal == /\ db'["user"] \in {"present", "absent"}
                   /\ db'["owner"] # None => db'["owner"] = db'["workspace"]
                   /\ \A q \in Callers : Active(q)' => MadeFor(q)'
<1> SUFFICES ASSUME ~strayed' PROVE Goal
  BY DEF MadeInv
<1>1. /\ ~strayed /\ db["user"] \in {"present", "absent"}
      /\ db["owner"] # None => db["owner"] = db["workspace"]
      /\ \A q \in Callers : Active(q) => MadeFor(q)
  BY Steps DEF MadeInv
<1>2. ASSUME db' = db, met \subseteq met', NEW q \in Callers, Active(q), call'[q].op = call[q].op,
             call'[q].pc = call[q].pc, call'[q].tenant = call[q].tenant
      PROVE  MadeFor(q)'
  <2>1. HasWorkspace' = HasWorkspace /\ (SignedIn(q) => SignedIn(q)')
    BY <1>2 DEF HasWorkspace, SignedIn
  <2>2. MadeFor(q)
    BY <1>1, <1>2
  <2> QED
    BY <1>2, <2>1, <2>2 DEF MadeFor
<1>3. CASE Quiet
  <2>1. db' = db /\ met' = met
    BY <1>3 DEF Quiet
  <2>2. ASSUME NEW q \in Callers, Active(q)' PROVE MadeFor(q)'
    <3>1. Lies(q)
      BY <1>3 DEF Quiet
    <3>2. Active(q) /\ call'[q].op = call[q].op
      BY <2>2, <3>1 DEF Lies, Active
    <3>3. CASE call'[q].pc = call[q].pc /\ call'[q].tenant = call[q].tenant
      BY <1>2, <2>1, <3>2, <3>3
    <3>4. CASE Inside(q)
      <4>1. call[q].op \in {"reset", "accept"}
        BY <3>4 DEF Inside
      <4> QED
        BY <3>2, <4>1 DEF MadeFor
    <3> QED
      BY <2>2, <3>1, <3>3, <3>4 DEF Lies, Active
  <2> QED
    BY <1>1, <2>1, <2>2
<1>4. ASSUME NEW p \in Callers, NEW t \in Tokens, Begin(p, t) PROVE Goal
  <2>1. /\ db' = db /\ met \subseteq met' /\ call[p].status = "new"
        /\ \A q \in Callers : q # p => call'[q] = call[q]
    BY <1>4, BeginType DEF Begin
  <2>2. call'[p].pc = 1
    BY <1>4, BeginType
  <2>3. MadeFor(p)'
    BY <2>2 DEF MadeFor
  <2>4. \A q \in Callers : q # p /\ Active(q)' => MadeFor(q)'
    BY <1>2, <2>1 DEF Active
  <2> QED
    BY <1>1, <2>1, <2>3, <2>4
<1>5. ASSUME NEW p \in Callers, NEW c \in Clients, DoesAtHome(p, c), met' = met PROVE Goal
  <2>1. Alone(p, c) /\ Active(p) /\ \A q \in Callers \ {p} : call'[q] = call[q]
    BY <1>5 DEF DoesAtHome, Alone
  <2>2. /\ db'["user"] \in {"present", "absent"}
        /\ db["user"] = "present" => db'["user"] = "present"
        /\ db'["owner"] # None => db'["owner"] = db'["workspace"]
        /\ db["owner"] # None => db'["owner"] # None
        /\ HasWorkspace => HasWorkspace'
        /\ db["verified"] = "present" => db'["verified"] = "present"
        /\ \A q \in SignIns : Active(q) /\ SignedIn(q) => SignedIn(q)'
    BY <1>1, <1>5, RowsStay
  <2>3. ASSUME NEW q \in Callers \ {p}, Active(q)' PROVE MadeFor(q)'
    <3>1. Active(q) /\ MadeFor(q) /\ call'[q] = call[q]
      BY <1>1, <2>1, <2>3 DEF Active
    <3>2. call[q].op = "login" => q \in SignIns
      BY DEF SignIns
    <3> QED
      BY <2>2, <3>1, <3>2 DEF MadeFor
  <2>4. CASE ~Outside(p, c)
    <3>1. call[p].op \in {"reset", "accept"}
      BY <1>1, <1>5, <2>4, InsideRows
    <3>2. MadeFor(p)'
      BY <2>1, <3>1 DEF MadeFor, Alone
    <3> QED
      BY <2>2, <2>3, <3>2
  <2>5. CASE Outside(p, c)
    <3>1. ASSUME Active(p)' PROVE MadeFor(p)'
      <4> DEFINE o == call[p].op
                 i == call[p].pc
                 tenant == Tenant(p, c)
      <4>0. call'[p].status # "failed"
        BY <3>1 DEF Active
      <4>1. PICK n \in 1..11 :
                /\ call'[p].op = o /\ call'[p].pc = n /\ call'[p].tenant = tenant
                /\ o \in {"google", "signin"} /\ i = 1 => n = IF db["user"] = "present" THEN 4 ELSE 2
                /\ o = "google" /\ i = 4 => n = IF Workspace THEN 10 ELSE 5
                /\ o = "onboard" /\ i = 2 => n = IF Workspace THEN 9 ELSE 3
                /\ \/ n = i + 1 \/ (o \in {"request", "google", "signin"} /\ i = 1)
                   \/ (o = "google" /\ i = 4) \/ (o = "onboard" /\ i = 2)
        BY <2>1, <2>5, <3>1, <4>0, OutsideLeads DEF Active
      <4>2. /\ o = "login" /\ i = 1 => db["user"] # "absent"
            /\ (o = "google" /\ i = 5) \/ (o = "onboard" /\ i = 4) => tenant # None
            /\ ~((o = "google" /\ i = 5) \/ (o = "onboard" /\ i = 4)) => tenant = call[p].tenant
        BY <2>1, <2>5, <4>0, OutsideLeads
      <4>3. i \in 0..10 /\ i # 0
        BY <2>5, <4>0 DEF TypeOK, Outside
      <4>4. /\ o \in {"google", "signin"} /\ i = 3 => db'["user"] = "present"
            /\ (o = "onboard" /\ i = 6) \/ (o = "google" /\ i = 7) => db'["owner"] = call[p].tenant
            /\ o = "login" /\ i = 2 => db'[p] = "live"
            /\ o = "verify" /\ i = 2 => db'["verified"] = "present"
            /\ o = "google" /\ i = 4 /\ db["workspace"] # None => db'["owner"] # None
            /\ db'["member"] = db["member"]
        <5>1. /\ o \in {"google", "signin"} /\ i = 3 => Statement(p) = "insertUser"
              /\ (o = "onboard" /\ i = 6) \/ (o = "google" /\ i = 7) => Statement(p) = "insertOwner"
              /\ o = "login" /\ i = 2 => Statement(p) = "insertSession"
              /\ o = "verify" /\ i = 2 => Statement(p) = "setVerified"
              /\ o = "google" /\ i = 4 => Statement(p) = "findWorkspace"
          BY <2>1, Places
        <5> QED
          BY <2>1, <2>5, <5>1, OutsideRows
      <4>5. /\ o = "login" /\ i > 1 => db["user"] = "present"
            /\ o \in {"google", "signin"} /\ i >= 4 => db["user"] = "present"
            /\ o = "google" /\ i \in 6..7 => call[p].tenant # None
            /\ o = "google" /\ i \in 8..9 => db["owner"] # None
            /\ o = "onboard" /\ i \in 5..6 => call[p].tenant # None
            /\ o = "onboard" /\ i \in 7..8 => db["owner"] # None
        <5>1. MadeFor(p)
          BY <1>1, <2>1
        <5> QED
          BY <4>3, <5>1 DEF MadeFor
      <4>6. SignedIn(p)' <=> /\ db'["user"] = "present"
                             /\ db'[p] = "live" \/ ("transaction" \in met' /\ db'["password"] # "old")
        BY DEF SignedIn
      <4>7. /\ HasWorkspace' <=> db'["member"] = "present" \/ (db'["owner"] # None /\ db'["owner"] = db'["workspace"])
            /\ Workspace <=> db["owner"] # None \/ db["workspace"] # None \/ db["member"] = "present"
        BY DEF HasWorkspace, Workspace
      <4> HIDE DEF o, i, tenant
      <4>8. /\ o = "login" /\ n > 1 => db'["user"] = "present"
            /\ o = "login" /\ n = 3 => SignedIn(p)'
            /\ o \in {"google", "signin"} /\ n >= 4 => db'["user"] = "present"
            /\ o = "google" /\ n \in 6..7 => tenant # None
            /\ o = "google" /\ n \in 8..9 => db'["owner"] # None
            /\ o = "google" /\ n = 10 => HasWorkspace'
            /\ o = "onboard" /\ n \in 5..6 => tenant # None
            /\ o = "onboard" /\ n \in 7..8 => db'["owner"] # None
            /\ o = "verify" /\ n = 3 => db'["verified"] = "present"
        <5>1. CASE o = "login"
          <6>1. n = 3 => i = 2
            BY <4>1, <4>3, <5>1
          <6>2. i = 1 \/ i > 1
            BY <4>3
          <6>3. db["user"] = "present"
            BY <1>1, <4>2, <4>5, <5>1, <6>2
          <6>5. db'["user"] = "present"
            BY <2>2, <6>3
          <6>6. n = 3 => SignedIn(p)'
            BY <4>4, <4>6, <5>1, <6>1, <6>5
          <6> QED
            BY <5>1, <6>5, <6>6
        <5>2. CASE o \in {"google", "signin"}
          <6>1. n >= 4 => db'["user"] = "present"
            <7>1. n >= 4 => i >= 4 \/ i = 3 \/ (i = 1 /\ db["user"] = "present")
              BY <4>1, <4>3, <5>2
            <7> QED
              BY <2>2, <4>4, <4>5, <5>2, <7>1
          <6>2. CASE o = "google"
            <7>1. /\ n = 6 => i = 5
                  /\ n = 7 => i = 6
                  /\ n = 8 => i = 7
                  /\ n = 9 => i = 8
                  /\ n = 10 => i = 9 \/ (i = 4 /\ Workspace)
              BY <4>1, <4>3, <6>2
            <7>2. n \in 6..7 => tenant # None
              BY <4>2, <4>3, <4>5, <6>2, <7>1
            <7>3. n \in 8..9 => db'["owner"] # None
              BY <2>2, <4>3, <4>4, <4>5, <6>2, <7>1
            <7>4. n = 10 => HasWorkspace'
              BY <2>2, <4>3, <4>4, <4>5, <4>7, <6>2, <7>1
            <7> QED
              BY <6>1, <6>2, <7>2, <7>3, <7>4
          <6> QED
            BY <5>2, <6>1, <6>2
        <5>3. CASE o = "onboard"
          <6>1. /\ n = 5 => i = 4
                /\ n = 6 => i = 5
                /\ n = 7 => i = 6
                /\ n = 8 => i = 7
            BY <4>1, <4>3, <5>3
          <6>2. n \in 5..6 => tenant # None
            BY <4>2, <4>3, <4>5, <5>3, <6>1
          <6>3. n \in 7..8 => db'["owner"] # None
            BY <2>2, <4>3, <4>4, <4>5, <5>3, <6>1
          <6> QED
            BY <5>3, <6>2, <6>3
        <5>4. CASE o = "verify"
          <6>1. n = 3 => i = 2
            BY <4>1, <4>3, <5>4
          <6> QED
            BY <4>4, <5>4, <6>1
        <5> QED
          BY <5>1, <5>2, <5>3, <5>4
      <4> QED
        BY <4>1, <4>8 DEF MadeFor
    <3> QED
      BY <2>2, <2>3, <3>1
  <2> QED
    BY <2>4, <2>5
<1> HIDE DEF Goal
<1> QED
  BY <1>3, <1>4, <1>5, Steps

\* A request answers in a transaction it commits, or after its last statement outside one.
LEMMA AnswersKept ==
    ASSUME TypeOK, PlaceInv, AloneInv, OwnerInv, PendingInv, MadeInv, [Next]_vars, ~strayed',
           NEW p \in Callers, Active(p), call'[p].status = "ok"
    PROVE  Kept(p)'
<1>1. ~strayed
  BY Steps
<1>2. ~Quiet
  BY DEF Quiet, Lies, Active
<1>3. ~\E q \in Callers, t \in Tokens : Begin(q, t)
  BY BeginType DEF Active
<1>4. PICK c \in Clients : DoesAtHome(p, c) /\ met' = met
  BY <1>2, <1>3, Steps DEF DoesAtHome, Alone, Active
<1>5. /\ call'[p].op = call[p].op /\ call'[p].token = call[p].token
      /\ call[p].op \in Ops
  BY <1>4 DEF DoesAtHome, Alone, TypeOK
<1>6. p \in SignIns' <=> call[p].op \in {"login", "google", "signin"}
  BY <1>5 DEF SignIns
<1>7. CASE ~Outside(p, c)
  BY <1>1, <1>4, <1>5, <1>6, <1>7, InsideRows DEF Kept
<1>8. CASE Outside(p, c)
  <2> DEFINE o == call[p].op
             i == call[p].pc
             m == Len(Program[o])
  <2>1. PICK n \in 1..11 :
            /\ n > m \/ n <= m
            /\ n <= m => call'[p].status = "active"
            /\ o \in {"google", "signin"} /\ i = 1 => n = IF db["user"] = "present" THEN 4 ELSE 2
            /\ o = "google" /\ i = 4 => n = IF Workspace THEN 10 ELSE 5
            /\ o = "onboard" /\ i = 2 => n = IF Workspace THEN 9 ELSE 3
            /\ \/ n = i + 1 \/ (o \in {"request", "google", "signin"} /\ i = 1)
               \/ (o = "google" /\ i = 4) \/ (o = "onboard" /\ i = 2)
    BY <1>8, OutsideLeads, SMTT(30)
  <2>2. (o = "reset" => i = 1) /\ (o = "accept" => i \in 1..2)
    BY <1>8, OutsideLeads
  <2>3. /\ o \in {"reset", "accept"} => m = 6
        /\ o = "onboard" => m = 8
        /\ o \in {"login", "verify"} => m = 3
        /\ o = "google" => m = 10
        /\ o = "signin" => m = 5
    BY Sizes
  <2>4. i \in 0..10 /\ i # 0 /\ i \in 0..m /\ m \in 1..10
    <3>1. i \in 0..10 /\ i # 0
      BY <1>8 DEF TypeOK, Outside
    <3>2. i \in 0..m
      BY Places
    <3>3. m \in 1..10
      BY <1>5, Sizes
    <3> QED
      BY <3>1, <3>2, <3>3
  <2>5. /\ db["user"] = "present" => db'["user"] = "present"
        /\ db'["owner"] # None => db'["owner"] = db'["workspace"]
        /\ db["owner"] # None => db'["owner"] # None
        /\ HasWorkspace => HasWorkspace'
        /\ db["verified"] = "present" => db'["verified"] = "present"
        /\ p \in SignIns /\ SignedIn(p) => SignedIn(p)'
    BY <1>1, <1>4, RowsStay
  <2>6. MadeFor(p)
    BY <1>1 DEF MadeInv
  <2>7. /\ o = "login" /\ i = 3 => SignedIn(p)
        /\ o \in {"google", "signin"} /\ i >= 4 => db["user"] = "present"
        /\ o = "google" /\ i = 10 => HasWorkspace
        /\ o = "onboard" /\ i = 8 => db["owner"] # None
        /\ o = "verify" /\ i = 3 => db["verified"] = "present"
    BY <2>6 DEF MadeFor
  <2>8. /\ (o = "google" /\ i = 10) \/ (o = "signin" /\ i = 5) => db'[p] = "live"
        /\ o = "verify" /\ i = 3 => db'["verification"] = "used"
        /\ o = "onboard" /\ i = 2 /\ db["workspace"] # None => db'["owner"] # None
        /\ db'["member"] = db["member"]
    <3>1. /\ (o = "google" /\ i = 10) \/ (o = "signin" /\ i = 5) => Statement(p) = "insertSession"
          /\ o = "verify" /\ i = 3 => Statement(p) = "useVerification"
          /\ o = "onboard" /\ i = 2 => Statement(p) = "findWorkspace"
      BY Places
    <3> QED
      BY <1>8, <3>1, OutsideRows
  <2>9. /\ SignedIn(p)' <=> /\ db'["user"] = "present"
                            /\ db'[p] = "live" \/ ("transaction" \in met' /\ db'["password"] # "old")
        /\ HasWorkspace' <=> db'["member"] = "present" \/ (db'["owner"] # None /\ db'["owner"] = db'["workspace"])
        /\ Workspace <=> db["owner"] # None \/ db["workspace"] # None \/ db["member"] = "present"
        /\ o = "login" => p \in SignIns
    BY DEF SignedIn, HasWorkspace, Workspace, SignIns
  <2> HIDE DEF m, i, o
  <2>10. n > m
    BY <2>1
  <2>11. o \notin {"reset", "accept"}
    BY <2>1, <2>2, <2>3, <2>4, <2>10
  <2>12. /\ o \in {"login", "verify"} => i = 3
         /\ o = "google" => i = 10
         /\ o = "signin" => i = 5
         /\ o = "onboard" => i = 8 \/ (i = 2 /\ Workspace)
    BY <2>1, <2>3, <2>4, <2>10
  <2>13. /\ o \in {"login", "google", "signin"} => SignedIn(p)'
         /\ o \in {"google", "onboard"} => HasWorkspace'
         /\ o = "verify" => db'["verified"] = "present" /\ db'["verification"] = "used"
    BY <2>4, <2>5, <2>7, <2>8, <2>9, <2>12
  <2> QED
    BY <1>5, <1>6, <2>11, <2>13 DEF Kept, o
<1> QED
  BY <1>7, <1>8

\* What a handler answers for is committed when it answers, as long as no statement has strayed:
\* no interleaving, failure or lock lets resetPassword, acceptInvitation, verifyEmail, onboarding
\* or a sign-in answer for rows that are not there.
THEOREM AnswersStand == Spec => AnsweredIsCommitted
<1> DEFINE I == TypeOK /\ PlaceInv /\ AloneInv /\ OwnerInv /\ PendingInv /\ MadeInv
<1>1. Init => I
  BY InitTypeOK, InitAlone, InitOwners, InitMade
<1>2. I /\ [Next]_vars => I'
  BY NextTypeOK, NextAlone, NextOwners, NextPending, NextMade
<1>3. I /\ [Next]_vars =>
        [\A p \in Callers : (Active(p) /\ call'[p].status = "ok" /\ ~strayed') => Kept(p)']_vars
  BY AnswersKept
<1> QED
  BY <1>1, <1>2, <1>3, PTL DEF Spec, AnsweredIsCommitted

-----------------------------------------------------------------------------
(* Tokens *)

\* At first one token has been issued at most, and nothing is answered.
LEMMA InitTokens == Init => IssuedInv /\ OneLiveInv /\ OnceInv
<1> SUFFICES ASSUME Init PROVE IssuedInv /\ OneLiveInv /\ OnceInv
  OBVIOUS
<1>1. \A p \in Callers : ~Active(p) /\ call[p].status # "ok"
  BY DEF Init, Active
<1>2. \A t \in Callers : db[t] = "absent"
  <2>1. \A t \in Callers : t \in Rows /\ t \notin Fields /\ t # First
    BY AccountsAssumption DEF Rows, Tokens
  <2> QED
    BY <2>1 DEF Init, Fields
<1>3. \A t \in Live : t = First
  BY <1>2 DEF Live, ResetTokens
<1> QED
  BY <1>1, <1>2, <1>3 DEF IssuedInv, OneLiveInv, OnceInv, Answered

\* What a request does to the tokens at home: a token is used after it was issued, and issued
\* by the request that ends with it.
LEMMA TokenSteps ==
    ASSUME TypeOK, PlaceInv, OwnerInv, PendingInv, IssuedInv, ~strayed,
           NEW p \in Callers, NEW c \in Clients, DoesAtHome(p, c)
    PROVE  /\ \A t \in ResetTokens :
                \/ db'[t] = db[t]
                \/ db'[t] = "used" /\ db[t] # "absent"
                \/ t = p /\ db'[t] = "live" /\ call[p].op = "request" /\ call[p].pc = 3 /\
                       call'[p].status = "ok"
           /\ call[p].op = "request" /\ call'[p].status = "active" /\ call'[p].pc = 3
                => \A t \in ResetTokens : db'[t] # "live"
           /\ IsReset(p) /\ call'[p].status = "ok" => call[p].pc = 6 /\ db'[call[p].token] = "used"
           /\ IsReset(p) /\ call'[p].status = "active" /\ call'[p].pc > 1
                => call[p].pc > 1 \/ db[call[p].token] = "live"
<1>1. Alone(p, c) /\ Active(p)
  BY DEF DoesAtHome, Alone
<1>2. CASE ~Outside(p, c)
  <2>1. /\ call[p].op \in {"reset", "accept"}
        /\ \A t \in ResetTokens : \/ db'[t] = db[t]
                                  \/ call[p].op = "reset" /\ t = call[p].token /\ db'[t] = "used"
        /\ call[p].op = "reset" /\ call'[p].status = "ok" => call[p].pc = 6 /\ db'[call[p].token] = "used"
    BY <1>2, InsideRows
  <2>2. IsReset(p) => db[call[p].token] # "absent"
    BY <1>1 DEF IssuedInv
  <2>3. IsReset(p) /\ call'[p].status = "active" /\ call'[p].pc > 1 => call[p].pc > 1
    <3>1. call[p].pc \in 0..10
      BY DEF TypeOK
    <3>2. Opens(p, c) \/ Within(p, c) \/ Commits(p, c)
      BY <1>2 DEF DoesAtHome
    <3>3. CASE Opens(p, c)
      BY <3>1, <3>3, <1>1 DEF Opens, Inside, IsReset, Alone
    <3>4. CASE Within(p, c)
      BY <3>1, <3>4 DEF Within
    <3> QED
      BY <3>2, <3>3, <3>4 DEF Commits
  <2> QED
    BY <2>1, <2>2, <2>3 DEF IsReset
<1>3. CASE Outside(p, c)
  <2> DEFINE o == call[p].op
             i == call[p].pc
             s == Statement(p)
             m == Len(Program[o])
  <2>1. /\ \A t \in ResetTokens :
              \/ db'[t] = db[t]
              \/ db[t] = "live" /\ db'[t] = "used"
              \/ s = "insertToken" /\ t = p /\ db'[t] = "live"
        /\ s = "retireTokens" => \A t \in ResetTokens : db'[t] # "live"
    <3>1. \A t \in ResetTokens : t = p => s # "insertSession"
      <4>1. ASSUME p \in ResetTokens PROVE s # "insertSession"
        <5>1. call[p].op = "request"
          BY <4>1, AccountsAssumption DEF ResetTokens
        <5> QED
          BY <1>1, <5>1, Places
      <4> QED
        BY <4>1
    <3>2. ResetTokens \subseteq Tokens
      BY RowsDiffer
    <3>3. /\ \A t \in Tokens :
                \/ db'[t] = db[t]
                \/ s = "retireTokens" /\ t \in ResetTokens /\ db[t] = "live" /\ db'[t] = "used"
                \/ s \in {"insertToken", "insertSession"} /\ t = p /\ db'[t] = "live"
          /\ s = "retireTokens" => \A t \in ResetTokens : db'[t] # "live"
      BY <1>1, <1>3, OutsideRows
    <3> HIDE DEF s
    <3> QED
      BY <3>1, <3>2, <3>3
  <2>2. s = "insertToken" <=> o = "request" /\ i = 3
    BY <1>1, Places
  <2>3. s = "retireTokens" <=> o = "request" /\ i = 2
    BY <1>1, Places
  <2>4. s = "insertToken" => call'[p].status # "failed"
    <3>1. ASSUME Advance(p, Following(p, c), Tenant(p, c)), Following(p, c) \in 1..11,
                 Tenant(p, c) \in Callers \cup {None}
          PROVE  call'[p].status # "failed"
      <4>1. Moved(p) /\ call'[p].status \in {"ok", "active"}
        BY <1>1, <3>1, AdvancedMoves, Advanced
      <4> QED
        BY <4>1
    <3>2. s = "insertToken" => ~Refused(p, c)
      BY DEF Refused
    <3> QED
      BY <1>3, <3>1, <3>2 DEF Outside
  <2>5. i \in 0..10 /\ i # 0
    BY <1>3 DEF TypeOK, Outside
  <2>6. ASSUME call'[p].status # "failed"
        PROVE  \E n \in 1..11 :
                /\ n > m \/ n <= m
                /\ n > m => call'[p].status = "ok" /\ call'[p].pc = 1
                /\ n <= m => call'[p].status = "active" /\ call'[p].pc = n
                /\ \/ n = i + 1 \/ (o \in {"request", "google", "signin"} /\ i = 1)
                   \/ (o = "google" /\ i = 4) \/ (o = "onboard" /\ i = 2)
                /\ o = "request" /\ i = 1 => n \in {2, 4}
    <3> HIDE DEF s, m
    <3>1. o \in Ops /\ o = call[p].op /\ i = call[p].pc /\ m = Len(Program[o])
      BY <1>1, Places DEF m
    <3> HIDE DEF o, i
    <3>2. \E n \in 1..11 :
              /\ call'[p].op = o /\ (n > Len(Program[o]) \/ n <= Len(Program[o]))
              /\ n > Len(Program[o]) => call'[p].pc = 1 /\ call'[p].status = "ok"
              /\ n <= Len(Program[o])
                     => call'[p].pc = n /\ call'[p].status = "active" /\ call'[p].tenant = Tenant(p, c)
              /\ \/ n = i + 1 \/ (o \in {"request", "google", "signin"} /\ i = 1)
                 \/ (o = "google" /\ i = 4) \/ (o = "onboard" /\ i = 2)
              /\ o = "request" /\ i = 1 => n \in {2, 4}
      BY <1>1, <1>3, <2>6, <3>1, OutsideLeads, SMTT(30)
    <3> QED
      BY <3>1, <3>2
  <2>7. call'[p].status # "failed" /\ o = "reset" => i = 1 /\ db[call[p].token] = "live"
    BY <1>1, <1>3, OutsideLeads
  <2>8. (o = "request" => m = 3) /\ (o = "reset" => m = 6)
    BY Sizes
  <2> HIDE DEF o, i, s, m
  <2>9. o = "request" /\ i = 3 /\ call'[p].status # "failed" => call'[p].status = "ok"
    BY <2>6, <2>8
  <2>10. o = "request" /\ call'[p].status = "active" /\ call'[p].pc = 3 => i = 2
    BY <2>5, <2>6, <2>8
  <2>11. o = "reset" => call'[p].status # "ok"
    BY <2>6, <2>7, <2>8
  <2>12. \A t \in ResetTokens :
            \/ db'[t] = db[t]
            \/ db'[t] = "used" /\ db[t] # "absent"
            \/ t = p /\ db'[t] = "live" /\ o = "request" /\ i = 3 /\ call'[p].status = "ok"
    BY <2>1, <2>2, <2>4, <2>9
  <2> QED
    BY <2>1, <2>3, <2>7, <2>10, <2>11, <2>12 DEF o, i, IsReset
<1> QED
  BY <1>2, <1>3

\* A token is issued with the answer, and a reset names one that was issued.
LEMMA NextIssued == TypeOK /\ PlaceInv /\ OwnerInv /\ PendingInv /\ IssuedInv /\ [Next]_vars => IssuedInv'
<1> SUFFICES ASSUME TypeOK, PlaceInv, OwnerInv, PendingInv, IssuedInv, [Next]_vars PROVE IssuedInv'
  OBVIOUS
<1> DEFINE Goal == /\ \A t \in ResetTokens \cap Callers : db'[t] # "absent" => call'[t].status = "ok"
                   /\ \A q \in Callers : call'[q].op = "reset" /\ call'[q].status = "active"
                          => call'[q].token \in ResetTokens /\ db'[call'[q].token] # "absent"
<1>0. ResetTokens' = ResetTokens
  BY OpsStay
<1> SUFFICES ASSUME ~strayed' PROVE Goal
  BY <1>0 DEF IssuedInv, IsReset, Active
<1>1. /\ ~strayed
      /\ \A t \in ResetTokens \cap Callers : db[t] # "absent" => call[t].status = "ok"
      /\ \A q \in Callers : call[q].op = "reset" /\ call[q].status = "active"
             => call[q].token \in ResetTokens /\ db[call[q].token] # "absent"
  BY Steps DEF IssuedInv, IsReset, Active
<1>2. CASE Quiet
  BY <1>1, <1>2 DEF Quiet, Lies, Active
<1>3. ASSUME NEW p \in Callers, NEW t \in Tokens, Begin(p, t) PROVE Goal
  <2>1. /\ db' = db /\ call[p].status = "new" /\ \A q \in Callers : q # p => call'[q] = call[q]
        /\ call'[p].op = call[p].op /\ call'[p].token = t
        /\ call[p].op = "reset" => t \in ResetTokens /\ db[t] # "absent"
    BY <1>3, BeginType DEF Begin
  <2> QED
    BY <1>1, <2>1
<1>4. ASSUME NEW p \in Callers, NEW c \in Clients, DoesAtHome(p, c) PROVE Goal
  <2>1. /\ Active(p) /\ \A q \in Callers \ {p} : call'[q] = call[q]
        /\ call'[p].op = call[p].op /\ call'[p].token = call[p].token
    BY <1>4 DEF DoesAtHome, Alone
  <2>2. \A t \in ResetTokens :
          \/ db'[t] = db[t]
          \/ db'[t] = "used" /\ db[t] # "absent"
          \/ t = p /\ db'[t] = "live" /\ call'[p].status = "ok"
    BY <1>1, <1>4, TokenSteps
  <2>3. ASSUME NEW t \in ResetTokens \cap Callers, db'[t] # "absent" PROVE call'[t].status = "ok"
    <3>1. db[t] # "absent" \/ (t = p /\ call'[p].status = "ok")
      BY <1>1, <2>2, <2>3
    <3> QED
      BY <1>1, <2>1, <3>1 DEF Active
  <2>4. \A t \in ResetTokens : db[t] # "absent" => db'[t] # "absent"
    BY <2>2
  <2> QED
    BY <1>1, <2>1, <2>3, <2>4 DEF Active
<1> HIDE DEF Goal
<1> QED
  BY <1>2, <1>3, <1>4, Steps

\* Requests of an operation that are alone stay alone.
LEMMA StaysAlone ==
    ASSUME TypeOK, PlaceInv, [Next]_vars, NEW o \in {"request", "reset"}, o \notin met',
           \A p, q \in Callers : Active(p) /\ Active(q) /\ call[p].op = o /\ call[q].op = o => p = q
    PROVE  \A p, q \in Callers : call'[p].status = "active" /\ call'[q].status = "active"
                                    /\ call'[p].op = o /\ call'[q].op = o => p = q
<1> SUFFICES ASSUME NEW p \in Callers, NEW q \in Callers, call'[p].status = "active",
                    call'[q].status = "active", call'[p].op = o, call'[q].op = o, p # q
             PROVE  FALSE
  OBVIOUS
<1>1. CASE \E r \in Callers, t \in Tokens : Begin(r, t)
  <2> PICK r \in Callers, t \in Tokens : Begin(r, t)
    BY <1>1
  <2>1. call'[p].op = call[p].op /\ call'[q].op = call[q].op /\ (p # r => Active(p)) /\ (q # r => Active(q))
    BY BeginType DEF Active
  <2>2. ASSUME NEW s \in Callers, Active(s), call[s].op = o, call[r].op = o PROVE FALSE
    <3>1. o \in Beside(call[r].op, call[s].op)
      BY <2>2 DEF Beside
    <3> QED
      BY <2>2, <3>1 DEF Begin
  <2> QED
    BY <2>1, <2>2
<1>2. CASE ~\E r \in Callers, t \in Tokens : Begin(r, t)
  BY <1>2, Activity
<1> QED
  BY <1>1, <1>2

\* A request for a token retires the others before it issues its own.
LEMMA NextOneLive ==
    TypeOK /\ PlaceInv /\ OwnerInv /\ PendingInv /\ IssuedInv /\ OneLiveInv /\ [Next]_vars => OneLiveInv'
<1> SUFFICES ASSUME TypeOK, PlaceInv, OwnerInv, PendingInv, IssuedInv, OneLiveInv, [Next]_vars PROVE OneLiveInv'
  OBVIOUS
<1> DEFINE Goal == /\ \A t, u \in ResetTokens : db'[t] = "live" /\ db'[u] = "live" => t = u
                   /\ \A p \in Callers : call'[p].status = "active" /\ call'[p].op = "request" /\
                          call'[p].pc = 3
                                            => \A t \in ResetTokens : db'[t] # "live"
           Single == \A p, q \in Callers : call'[p].status = "active" /\ call'[q].status = "active"
                              /\ call'[p].op = "request" /\ call'[q].op = "request" => p = q
<1>0. ResetTokens' = ResetTokens
  BY OpsStay
<1> SUFFICES ASSUME ~strayed', "request" \notin met' PROVE Goal /\ Single
  BY <1>0 DEF OneLiveInv, Active, Live
<1>1. ~strayed /\ "request" \notin met
  BY Steps DEF Quiet, Begin
<1>2. /\ \A t, u \in ResetTokens : db[t] = "live" /\ db[u] = "live" => t = u
      /\ \A p, q \in Callers : Active(p) /\ Active(q) /\ call[p].op = "request" /\ call[q].op = "request"
             => p = q
      /\ \A p \in Callers : Active(p) /\ call[p].op = "request" /\ call[p].pc = 3
             => \A t \in ResetTokens : db[t] # "live"
  BY <1>1 DEF OneLiveInv, Live
<1>3. Single
  BY <1>2, StaysAlone
<1>4. CASE Quiet
  BY <1>2, <1>4 DEF Quiet, Lies, Active
<1>5. ASSUME NEW p \in Callers, NEW t \in Tokens, Begin(p, t) PROVE Goal
  <2>1. db' = db /\ call'[p].pc = 1 /\ \A q \in Callers : q # p => call'[q] = call[q]
    BY <1>5, BeginType DEF Begin
  <2> QED
    BY <1>2, <2>1 DEF Active
<1>6. ASSUME NEW p \in Callers, NEW c \in Clients, DoesAtHome(p, c) PROVE Goal
  <2>1. Active(p) /\ call'[p].op = call[p].op /\ \A q \in Callers \ {p} : call'[q] = call[q]
    BY <1>6 DEF DoesAtHome, Alone
  <2>2. /\ \A t \in ResetTokens :
             \/ db'[t] = db[t]
             \/ db'[t] = "used" /\ db[t] # "absent"
             \/ t = p /\ db'[t] = "live" /\ call[p].op = "request" /\ call[p].pc = 3 /\ call'[p].status = "ok"
        /\ call[p].op = "request" /\ call'[p].status = "active" /\ call'[p].pc = 3
               => \A t \in ResetTokens : db'[t] # "live"
    BY <1>1, <1>6, TokenSteps
  <2>3. CASE call[p].op = "request" /\ call[p].pc = 3 /\ call'[p].status = "ok"
    <3>1. \A t \in ResetTokens : db'[t] = "live" => t = p
      BY <1>2, <2>1, <2>2, <2>3
    <3>2. \A q \in Callers : call'[q].status = "active" => call'[q].op # "request"
      BY <1>2, <2>1, <2>3 DEF Active
    <3> QED
      BY <3>1, <3>2
  <2>4. CASE ~(call[p].op = "request" /\ call[p].pc = 3 /\ call'[p].status = "ok")
    <3>1. \A t \in ResetTokens : db'[t] = "live" => db[t] = "live"
      BY <2>2, <2>4
    <3> QED
      BY <1>2, <2>1, <2>2, <3>1 DEF Active
  <2> QED
    BY <2>3, <2>4
<1>7. Goal
  BY <1>4, <1>5, <1>6, Steps
<1> QED
  BY <1>3, <1>7

\* A reset that answers has used its token, and the next one finds it used.
LEMMA NextOnce ==
    TypeOK /\ PlaceInv /\ OwnerInv /\ PendingInv /\ IssuedInv /\ OnceInv /\ [Next]_vars => OnceInv'
<1> SUFFICES ASSUME TypeOK, PlaceInv, OwnerInv, PendingInv, IssuedInv, OnceInv, [Next]_vars,
                    ~strayed', "reset" \notin met'
             PROVE  OnceInv'
  BY DEF OnceInv
<1> DEFINE Was(p) == IsReset(p) /\ call[p].status = "ok"
           Is(p) == call'[p].op = "reset" /\ call'[p].status = "ok"
           Tries(p) == IsReset(p) /\ Active(p) /\ call[p].pc > 1
           Trying(p) == call'[p].op = "reset" /\ call'[p].status = "active" /\ call'[p].pc > 1
           Goal == /\ \A p \in Callers : Is(p) => call'[p].token \in ResetTokens /\ db'[call'[p].token] = "used"
                   /\ \A p, q \in Callers :
                        /\ Is(p) /\ Is(q) /\ call'[p].token = call'[q].token => p = q
                        /\ Is(p) /\ Trying(q) => call'[p].token # call'[q].token
<1>1. ~strayed /\ "reset" \notin met
  BY Steps DEF Quiet, Begin
<1>2. /\ \A p, q \in Callers : IsReset(p) /\ IsReset(q) /\ Active(p) /\ Active(q) => p = q
      /\ \A p \in Callers : Was(p) => call[p].token \in ResetTokens /\ db[call[p].token] = "used"
      /\ \A p, q \in Callers :
            /\ Was(p) /\ Was(q) /\ call[p].token = call[q].token => p = q
            /\ Was(p) /\ Tries(q) => call[p].token # call[q].token
  BY <1>1 DEF OnceInv, Answered
<1>3. \A p, q \in Callers : call'[p].status = "active" /\ call'[q].status = "active"
                              /\ call'[p].op = "reset" /\ call'[q].op = "reset" => p = q
  BY <1>2, StaysAlone DEF IsReset
<1>4. ASSUME db' = db,
             \A q \in Callers : (Is(q) => Was(q)) /\ (Trying(q) => Tries(q)) /\
                 (Is(q) \/ Trying(q) => call'[q].token = call[q].token)
      PROVE  Goal
  <2> HIDE DEF Is, Was, Trying, Tries
  <2> QED
    BY <1>2, <1>4
<1>5. ASSUME Quiet PROVE Goal
  <2>1. \A q \in Callers : (Is(q) => Was(q)) /\ (Trying(q) => Tries(q)) /\
            (Is(q) \/ Trying(q) => call'[q].token = call[q].token)
    <3> SUFFICES ASSUME NEW q \in Callers
                 PROVE  (Is(q) => Was(q)) /\ (Trying(q) => Tries(q)) /\
                            (Is(q) \/ Trying(q) => call'[q].token = call[q].token)
      OBVIOUS
    <3>1. Lies(q)
      BY <1>5 DEF Quiet
    <3> QED
      BY <3>1 DEF Lies, IsReset, Active
  <2> QED
    BY <1>4, <1>5, <2>1 DEF Quiet
<1>6. ASSUME NEW p \in Callers, NEW t \in Tokens, Begin(p, t) PROVE Goal
  <2>1. db' = db /\ call'[p].pc = 1 /\ call'[p].status = "active" /\ \A q \in Callers : q # p
            => call'[q] = call[q]
    BY <1>6, BeginType DEF Begin
  <2>2. \A q \in Callers : (Is(q) => Was(q)) /\ (Trying(q) => Tries(q)) /\
            (Is(q) \/ Trying(q) => call'[q].token = call[q].token)
    BY <2>1 DEF IsReset, Active
  <2> QED
    BY <1>4, <2>1, <2>2
<1>7. ASSUME NEW p \in Callers, NEW c \in Clients, DoesAtHome(p, c) PROVE Goal
  <2>1. /\ Active(p) /\ call'[p].op = call[p].op /\ call'[p].token = call[p].token
        /\ \A q \in Callers \ {p} : call'[q] = call[q]
    BY <1>7 DEF DoesAtHome, Alone
  <2>2. /\ \A t \in ResetTokens :
             \/ db'[t] = db[t]
             \/ db'[t] = "used" /\ db[t] # "absent"
             \/ t = p /\ db'[t] = "live"
        /\ IsReset(p) /\ call'[p].status = "ok" => call[p].pc = 6 /\ db'[call[p].token] = "used"
        /\ IsReset(p) /\ call'[p].status = "active" /\ call'[p].pc > 1
               => call[p].pc > 1 \/ db[call[p].token] = "live"
    BY <1>1, <1>7, TokenSteps
  <2>3. p \in ResetTokens => db[p] = "absent"
    BY <1>1, <2>1 DEF IssuedInv, Active
  <2>4. \A t \in ResetTokens : db[t] = "used" => db'[t] = "used"
    BY <2>2, <2>3
  <2>5. Tries(p) => call[p].token \in ResetTokens
    BY <1>1 DEF IssuedInv
  <2>6. \A q \in Callers : q # p
            => (Is(q) <=> Was(q)) /\ (Trying(q) <=> Tries(q)) /\ call'[q].token = call[q].token
    BY <2>1 DEF IsReset, Active
  <2>7. Is(p) => Tries(p) /\ db'[call[p].token] = "used"
    <3>1. Is(p) => IsReset(p) /\ call[p].pc = 6
      BY <2>1, <2>2 DEF IsReset
    <3> QED
      BY <2>1, <2>2, <3>1
  <2>8. Trying(p) => Tries(p) \/ (IsReset(p) /\ db[call[p].token] = "live")
    BY <2>1, <2>2 DEF IsReset
  <2>9. \A q \in Callers : Tries(q) /\ Tries(p) => q = p
    BY <1>2
  <2>10. ~(Is(p) /\ Trying(p)) /\ ~Was(p)
    BY <2>1 DEF Active
  <2> HIDE DEF Is, Was, Trying, Tries
  <2>11. \A q \in Callers : Is(q) => call'[q].token \in ResetTokens /\ db'[call'[q].token] = "used"
    BY <1>2, <2>1, <2>4, <2>5, <2>6, <2>7
  <2>12. ASSUME NEW q \in Callers, NEW r \in Callers, Is(q), Is(r), call'[q].token = call'[r].token PROVE q = r
    BY <1>2, <2>1, <2>6, <2>7, <2>12
  <2>13. ASSUME NEW q \in Callers, NEW r \in Callers, Is(q), Trying(r) PROVE call'[q].token # call'[r].token
    <3>1. CASE q = p
      BY <2>6, <2>7, <2>9, <2>10, <2>13, <3>1
    <3>2. CASE q # p
      BY <1>2, <2>1, <2>6, <2>8, <2>13, <3>2
    <3> QED
      BY <3>1, <3>2
  <2> QED
    BY <2>11, <2>12, <2>13
<1>8. Goal
  BY <1>5, <1>6, <1>7, Steps
<1>9. ResetTokens' = ResetTokens
  BY OpsStay
<1> QED
  BY <1>3, <1>8, <1>9 DEF OnceInv, Answered, IsReset, Active

\* A set whose elements are equal has one at most.
LEMMA AtMostOne ==
    ASSUME NEW S, \A x, y \in S : x = y
    PROVE  Cardinality(S) <= 1
<1>1. CASE S = {}
  BY <1>1, FS_EmptySet
<1>2. CASE S # {}
  <2>1. PICK x \in S : TRUE
    BY <1>2
  <2>2. S = {x}
    BY <2>1
  <2> QED
    BY <2>2, FS_Singleton
<1> QED
  BY <1>1, <1>2

\* A user has one live reset token at a time, and a token resets the password once, unless two
\* requests of that kind overlap or a statement strays (TokensOnce).
THEOREM TokensLiveOnce == Spec => []TokensOnce
<1> DEFINE I == TypeOK /\ PlaceInv /\ OwnerInv /\ PendingInv /\ IssuedInv /\ OneLiveInv /\ OnceInv
<1>1. Init => I
  BY InitTypeOK, InitOwners, InitTokens
<1>2. I /\ [Next]_vars => I'
  BY NextTypeOK, NextOwners, NextPending, NextIssued, NextOneLive, NextOnce
<1>3. I => TokensOnce
  <2> SUFFICES ASSUME I, ~strayed PROVE TokensOnce
    BY DEF TokensOnce
  <2>1. "request" \notin met => Cardinality({t \in ResetTokens : db[t] = "live"}) <= 1
    BY AtMostOne DEF OneLiveInv, Live
  <2>2. ASSUME "reset" \notin met, NEW t \in ResetTokens
        PROVE  Cardinality({p \in Callers : /\ call[p].op = "reset" /\ call[p].token = t
                                            /\ call[p].status = "ok"}) <= 1
    BY <2>2, AtMostOne DEF OnceInv, Answered, IsReset
  <2> QED
    BY <2>1, <2>2 DEF TokensOnce
<1> QED
  BY <1>1, <1>2, <1>3, PTL DEF Spec

-----------------------------------------------------------------------------
(* AI employees: types *)

\* Nothing has been asked for at first.
LEMMA InitControlTypes == ControlsInit => ControlsTypeOK
<1> SUFFICES ASSUME ControlsInit PROVE ControlsTypeOK
  OBVIOUS
<1>1. \A g \in Gates : gate[g] \in [status : {"absent", "pending", "approved", "rejected"},
                                    requester : People \cup {Nobody}, approver : People \cup {Nobody}]
  BY DEF ControlsInit, Absent
<1>2. /\ gate = [g \in Gates |-> gate[g]] /\ asked \in [Gates -> SUBSET People]
      /\ decided \in [Gates -> Nat] /\ gateCalls \in 0..MaxCalls
  BY AgentAssumption DEF ControlsInit
<1>3. /\ pc \in [Runs -> {"start", "denied", "authorized", "plan", "steps", "verified", "caught", "ok",
                          "failed"}]
      /\ plan \in [Runs -> 0..MaxSteps] /\ effects \in [Runs -> 0..MaxSteps]
      /\ verified \subseteq Runs /\ failures \in 0..MaxFailures
  BY AgentAssumption DEF ControlsInit
<1>4. audit \in [Runs -> Seq({"started", "completed", "failed"})]
  BY DEF ControlsInit
<1> QED
  BY <1>1, <1>2, <1>3, <1>4 DEF ControlsTypeOK

-----------------------------------------------------------------------------
(* AI employees: the audit trail *)

Accepted(r) == r \in verified /\ effects[r] = plan[r] /\ plan[r] > 0

\* What has been audited and done at each place of a run.
InStep(r) ==
    /\ pc[r] \notin {"start", "denied"} => Authorized(r)
    /\ pc[r] \in {"start", "denied", "authorized"} => audit[r] = <<>>
    /\ pc[r] \in {"plan", "steps", "verified"} => audit[r] = <<"started">>
    /\ pc[r] \in {"start", "denied", "authorized", "plan"} => effects[r] = 0
    /\ pc[r] \in {"start", "denied", "authorized", "plan", "steps"} => r \notin verified
    /\ pc[r] = "steps" => effects[r] <= plan[r] /\ plan[r] > 0
    /\ pc[r] \in {"verified", "ok"} => Accepted(r)
    /\ pc[r] = "ok" => audit[r] = <<"started", "completed">>
    /\ pc[r] = "caught" =>
        /\ audit[r] = <<"started">> \/ (audit[r] = <<"started", "completed">> /\ Accepted(r))
        /\ failures = 0 => audit[r] = <<"started">> /\ r \notin verified
    /\ pc[r] = "failed" =>
        /\ \/ audit[r] \in {<<>>, <<"started">>, <<"started", "failed">>}
           \/ /\ audit[r] \in {<<"started", "completed">>, <<"started", "completed", "failed">>}
              /\ Accepted(r)
        /\ audit[r] = <<>> => effects[r] = 0
        /\ failures = 0 => audit[r] = <<"started", "failed">> /\ r \notin verified

RunPlaces == {"start", "denied", "authorized", "plan", "steps", "verified", "caught", "ok", "failed"}
TrailTypes == {"started", "completed", "failed"}

RunTypes ==
    /\ pc \in [Runs -> RunPlaces]
    /\ plan \in [Runs -> 0..MaxSteps] /\ effects \in [Runs -> 0..MaxSteps]
    /\ audit \in [Runs -> Seq(TrailTypes)]
    /\ verified \subseteq Runs
    /\ failures \in 0..MaxFailures

RunInv == RunTypes /\ \A r \in Runs : InStep(r)

\* No run has started at first.
LEMMA InitRunInv == ControlsInit => RunInv
<1> SUFFICES ASSUME ControlsInit PROVE RunInv
  OBVIOUS
<1>1. \A r \in Runs : InStep(r)
  BY DEF ControlsInit, InStep
<1> QED
  BY <1>1, InitControlTypes DEF RunInv, RunTypes, RunPlaces, TrailTypes, ControlsTypeOK

\* A sequence one longer than another, with the same beginning, is that one with its last added.
LEMMA AppendIs ==
    ASSUME NEW S, NEW s \in Seq(S), NEW e \in S, NEW t \in Seq(S), Len(t) = Len(s) + 1,
           \A i \in 1..Len(s) : t[i] = s[i], t[Len(s) + 1] = e
    PROVE  Append(s, e) = t
  OBVIOUS

\* What the audit callback stores.
LEMMA Trails ==
    /\ Append(<<>>, "started") = <<"started">>
    /\ Append(<<"started">>, "completed") = <<"started", "completed">>
    /\ Append(<<"started">>, "failed") = <<"started", "failed">>
    /\ Append(<<"started", "completed">>, "failed") = <<"started", "completed", "failed">>
<1>1. ASSUME NEW e \in TrailTypes
      PROVE  /\ <<e>> \in Seq(TrailTypes) /\ Len(<<e>>) = 1 /\ <<e>>[1] = e
             /\ Append(<<>>, e) = <<e>>
  OBVIOUS
<1>2. ASSUME NEW d \in TrailTypes, NEW e \in TrailTypes
      PROVE  /\ <<d, e>> \in Seq(TrailTypes) /\ Len(<<d, e>>) = 2
             /\ <<d, e>>[1] = d /\ <<d, e>>[2] = e
  OBVIOUS
<1>3. ASSUME NEW c \in TrailTypes, NEW d \in TrailTypes, NEW e \in TrailTypes
      PROVE  /\ <<c, d, e>> \in Seq(TrailTypes) /\ Len(<<c, d, e>>) = 3
             /\ <<c, d, e>>[1] = c /\ <<c, d, e>>[2] = d /\ <<c, d, e>>[3] = e
  OBVIOUS
<1>4. ASSUME NEW d \in TrailTypes, NEW e \in TrailTypes PROVE Append(<<d>>, e) = <<d, e>>
  <2> DEFINE s == <<d>>  t == <<d, e>>
  <2>1. /\ s \in Seq(TrailTypes) /\ t \in Seq(TrailTypes) /\ Len(s) = 1 /\ Len(t) = 2
        /\ s[1] = d /\ t[1] = d /\ t[2] = e
    BY <1>1, <1>2
  <2> HIDE DEF s, t
  <2>2. Len(t) = Len(s) + 1 /\ t[Len(s) + 1] = e /\ \A i \in 1..Len(s) : t[i] = s[i]
    BY <2>1
  <2>3. Append(s, e) = t
    BY AppendIs, <2>1, <2>2
  <2> QED
    BY <2>3 DEF s, t
<1>5. ASSUME NEW c \in TrailTypes, NEW d \in TrailTypes, NEW e \in TrailTypes
      PROVE  Append(<<c, d>>, e) = <<c, d, e>>
  <2> DEFINE s == <<c, d>>  t == <<c, d, e>>
  <2>1. /\ s \in Seq(TrailTypes) /\ t \in Seq(TrailTypes) /\ Len(s) = 2 /\ Len(t) = 3
        /\ s[1] = c /\ s[2] = d /\ t[1] = c /\ t[2] = d /\ t[3] = e
    BY <1>2, <1>3
  <2> HIDE DEF s, t
  <2>2. Len(t) = Len(s) + 1 /\ t[Len(s) + 1] = e /\ \A i \in 1..Len(s) : t[i] = s[i]
    BY <2>1
  <2>3. Append(s, e) = t
    BY AppendIs, <2>1, <2>2
  <2> QED
    BY <2>3 DEF s, t
<1>6. "started" \in TrailTypes /\ "completed" \in TrailTypes /\ "failed" \in TrailTypes
  BY DEF TrailTypes
<1> QED
  BY <1>1, <1>4, <1>5, <1>6

\* Runs do not touch each other, and a fault that has happened has happened.
LEMMA OthersInStep ==
    ASSUME NEW d \in Runs, InStep(d), failures' = 0 => failures = 0,
           UNCHANGED <<pc[d], plan[d], effects[d], audit[d]>>, d \in verified' <=> d \in verified
    PROVE  InStep(d)'
  BY DEF InStep, Accepted, Authorized

\* However an await of a run ends, its faults are counted.
LEMMA AwaitTypes ==
    ASSUME RunTypes, NEW r \in Runs, NEW o \in Outcomes, NEW next \in RunPlaces, NEW onError \in RunPlaces,
           Await(r, o, next, onError)
    PROVE  /\ pc' \in [Runs -> RunPlaces] /\ failures' \in 0..MaxFailures
           /\ pc'[r] = IF o = "ok" THEN next ELSE onError
           /\ o # "ok" => failures' # 0
           /\ failures' = 0 => failures = 0
           /\ \A d \in Runs \ {r} : pc'[d] = pc[d]
  BY AgentAssumption DEF RunTypes, Await, Goto

\* An audit that is applied adds its type to the trail.
LEMMA AuditTypes ==
    ASSUME RunTypes, NEW r \in Runs, NEW type \in TrailTypes, NEW next \in RunPlaces, NEW onError \in RunPlaces,
           Audit(r, type, next, onError)
    PROVE  /\ pc' \in [Runs -> RunPlaces] /\ failures' \in 0..MaxFailures
           /\ audit' \in [Runs -> Seq(TrailTypes)]
           /\ \/ pc'[r] = next /\ audit'[r] = Append(audit[r], type)
              \/ pc'[r] = onError /\ audit'[r] \in {audit[r], Append(audit[r], type)} /\ failures' # 0
           /\ failures' = 0 => failures = 0
           /\ \A d \in Runs \ {r} : pc'[d] = pc[d] /\ audit'[d] = audit[d]
<1>1. PICK o \in Outcomes :
        /\ Await(r, o, next, onError)
        /\ audit' = IF Applied(o) THEN [audit EXCEPT ![r] = Append(@, type)] ELSE audit
  BY DEF Audit
<1>2. audit[r] \in Seq(TrailTypes) /\ Append(audit[r], type) \in Seq(TrailTypes)
  BY DEF RunTypes
<1>3. /\ audit' \in [Runs -> Seq(TrailTypes)]
      /\ audit'[r] \in {audit[r], Append(audit[r], type)}
      /\ o = "ok" => audit'[r] = Append(audit[r], type)
      /\ \A d \in Runs \ {r} : audit'[d] = audit[d]
  BY <1>1, <1>2 DEF Applied, RunTypes
<1> QED
  BY <1>1, <1>3, AwaitTypes

\* Each callback, however it ends, leaves the trail, the effects and the place of its run in step.
LEMMA NextRunInv == RunInv /\ [ControlsNext]_controlVars => RunInv'
<1> SUFFICES ASSUME RunInv, [ControlsNext]_controlVars PROVE RunInv'
  OBVIOUS
<1>0. RunTypes /\ \A r \in Runs : InStep(r)
  BY DEF RunInv
<1>1. ASSUME NEW r \in Runs, Authorize(r) PROVE RunInv'
  <2>1. InStep(r)' /\ RunTypes'
    BY <1>0, <1>1 DEF Authorize, Goto, RunTypes, RunPlaces, InStep, Authorized, Accepted
  <2>2. \A d \in Runs \ {r} : InStep(d)'
    BY <1>0, <1>1, OthersInStep DEF Authorize, Goto, RunTypes
  <2> QED
    BY <2>1, <2>2 DEF RunInv
<1>2. ASSUME NEW r \in Runs, AuditStarted(r) PROVE RunInv'
  <2>1. Audit(r, "started", "plan", "failed") /\ pc[r] = "authorized"
        /\ UNCHANGED <<plan, effects, verified>>
    BY <1>2 DEF AuditStarted
  <2>2. InStep(r)'
    BY <1>0, <2>1, AuditTypes, Trails, ZenonT(40) DEF InStep, Authorized, Accepted, TrailTypes, RunPlaces
  <2>3. RunTypes' /\ \A d \in Runs \ {r} : InStep(d)'
    BY <1>0, <2>1, AuditTypes, OthersInStep DEF RunTypes, TrailTypes, RunPlaces
  <2> QED
    BY <2>2, <2>3 DEF RunInv
<1>3. ASSUME NEW r \in Runs, AuditCompleted(r) PROVE RunInv'
  <2>1. Audit(r, "completed", "ok", "caught") /\ pc[r] = "verified"
        /\ UNCHANGED <<plan, effects, verified>>
    BY <1>3 DEF AuditCompleted
  <2>2. InStep(r)'
    BY <1>0, <2>1, AuditTypes, Trails, ZenonT(40) DEF InStep, Authorized, Accepted, TrailTypes, RunPlaces
  <2>3. RunTypes' /\ \A d \in Runs \ {r} : InStep(d)'
    BY <1>0, <2>1, AuditTypes, OthersInStep DEF RunTypes, TrailTypes, RunPlaces
  <2> QED
    BY <2>2, <2>3 DEF RunInv
<1>4. ASSUME NEW r \in Runs, AuditFailed(r) PROVE RunInv'
  <2>1. Audit(r, "failed", "failed", "failed") /\ pc[r] = "caught"
        /\ UNCHANGED <<plan, effects, verified>>
    BY <1>4 DEF AuditFailed
  <2>2. /\ pc'[r] = "failed" /\ audit'[r] \in {audit[r], Append(audit[r], "failed")}
        /\ audit'[r] = audit[r] => failures' # 0 \/ audit[r] = Append(audit[r], "failed")
        /\ failures' = 0 => failures = 0
    BY <2>1, <1>0, AuditTypes DEF TrailTypes, RunPlaces
  <2>3. ASSUME audit[r] = <<"started">> PROVE InStep(r)'
    <3>1. \/ audit'[r] = <<"started">> /\ failures' # 0
          \/ audit'[r] = <<"started", "failed">>
      BY <2>2, <2>3, Trails
    <3>2. failures = 0 => r \notin verified
      BY <1>0, <2>1 DEF InStep
    <3>3. <<"started">> # <<>> /\ <<"started", "failed">> # <<>>
      BY Len(<<"started">>) = 1, Len(<<"started", "failed">>) = 2, Len(<<>>) = 0
    <3> DEFINE one == <<"started">>  two == <<"started", "failed">>
    <3> HIDE DEF one, two
    <3>4. /\ audit'[r] \in {one, two} /\ audit'[r] # <<>>
          /\ failures' = 0 => audit'[r] = two
      BY <3>1, <3>3 DEF one, two
    <3>5. Authorized(r)' /\ (failures' = 0 => r \notin verified')
      BY <1>0, <2>1, <2>2, <3>2 DEF InStep, Authorized
    <3> QED
      BY <2>2, <3>4, <3>5 DEF InStep, one, two
  <2>4. ASSUME audit[r] = <<"started", "completed">> PROVE InStep(r)'
    <3>1. audit'[r] \in {<<"started", "completed">>, <<"started", "completed", "failed">>}
      BY <2>2, <2>4, Trails
    <3>2. failures # 0 /\ Accepted(r)
      BY <1>0, <2>1, <2>4 DEF InStep
    <3>3. <<"started", "completed">> # <<>> /\ <<"started", "completed", "failed">> # <<>>
      BY Len(<<"started", "completed">>) = 2, Len(<<"started", "completed", "failed">>) = 3, Len(<<>>) = 0
    <3> DEFINE two == <<"started", "completed">>  three == <<"started", "completed", "failed">>
    <3> HIDE DEF two, three
    <3>4. audit'[r] \in {two, three} /\ audit'[r] # <<>>
      BY <3>1, <3>3 DEF two, three
    <3>5. Authorized(r)' /\ Accepted(r)' /\ failures' # 0
      BY <1>0, <2>1, <2>2, <3>2 DEF InStep, Authorized, Accepted
    <3> QED
      BY <2>2, <3>4, <3>5 DEF InStep, two, three
  <2>5. InStep(r)'
    BY <1>0, <2>1, <2>3, <2>4 DEF InStep
  <2>6. RunTypes' /\ \A d \in Runs \ {r} : InStep(d)'
    BY <1>0, <2>1, AuditTypes, OthersInStep DEF RunTypes, TrailTypes, RunPlaces
  <2> QED
    BY <2>5, <2>6 DEF RunInv
<1>5. ASSUME NEW r \in Runs, Plan(r) PROVE RunInv'
  <2>1. InStep(r)' /\ RunTypes'
    BY <1>0, <1>5, AgentAssumption DEF Plan, Goto, RunTypes, RunPlaces, InStep, Authorized, Accepted
  <2>2. \A d \in Runs \ {r} : InStep(d)'
    BY <1>0, <1>5, OthersInStep DEF Plan, Goto, RunTypes
  <2> QED
    BY <2>1, <2>2 DEF RunInv
<1>6. ASSUME NEW r \in Runs, Step(r) PROVE RunInv'
  <2>1. PICK o \in Outcomes :
          /\ Await(r, o, "steps", "caught")
          /\ effects' = IF Applied(o) THEN [effects EXCEPT ![r] = @ + 1] ELSE effects
    BY <1>6 DEF Step
  <2>2. /\ pc[r] = "steps" /\ effects[r] # plan[r] /\ UNCHANGED <<plan, audit, verified>>
        /\ effects[r] \in 0..MaxSteps /\ plan[r] \in 0..MaxSteps /\ MaxSteps \in Nat
    BY <1>0, <1>6, AgentAssumption DEF Step, Executed, RunTypes
  <2>3. effects[r] < plan[r]
    BY <1>0, <2>2 DEF InStep
  <2>4. /\ effects' \in [Runs -> 0..MaxSteps] /\ effects'[r] <= plan[r]
        /\ \A d \in Runs \ {r} : effects'[d] = effects[d]
    BY <1>0, <2>1, <2>2, <2>3 DEF RunTypes
  <2>5. /\ pc' \in [Runs -> RunPlaces] /\ failures' \in 0..MaxFailures
        /\ pc'[r] = IF o = "ok" THEN "steps" ELSE "caught"
        /\ o # "ok" => failures' # 0
        /\ failures' = 0 => failures = 0
        /\ \A d \in Runs \ {r} : pc'[d] = pc[d]
    BY <1>0, <2>1, AwaitTypes DEF RunPlaces
  <2>6. InStep(r)'
    BY <1>0, <2>2, <2>4, <2>5 DEF InStep, Authorized, Accepted
  <2>7. RunTypes' /\ \A d \in Runs \ {r} : InStep(d)'
    BY <1>0, <2>2, <2>4, <2>5, OthersInStep DEF RunTypes
  <2> QED
    BY <2>6, <2>7 DEF RunInv
<1>7. ASSUME NEW r \in Runs, Verify(r) PROVE RunInv'
  <2>1. InStep(r)' /\ RunTypes'
    BY <1>0, <1>7 DEF Verify, Executed, Goto, RunTypes, RunPlaces, InStep, Authorized, Accepted
  <2>2. \A d \in Runs \ {r} : InStep(d)'
    BY <1>0, <1>7, OthersInStep DEF Verify, Goto, RunTypes
  <2> QED
    BY <2>1, <2>2 DEF RunInv
<1>8. CASE UNCHANGED runVars
  BY <1>0, <1>8, OthersInStep DEF runVars, RunInv, RunTypes
<1> QED
  BY <1>1, <1>2, <1>3, <1>4, <1>5, <1>6, <1>7, <1>8 DEF ControlsNext, Request, Decide, Call, controlVars

\* Effects, audit trail and answer of a run tell the same, however its callbacks fail.
THEOREM AuditIsTrue == ControlsSpec => []AuditTellsEffects
<1>1. RunInv => AuditTellsEffects
  <2> SUFFICES ASSUME RunInv, NEW r \in Runs
               PROVE /\ effects[r] > 0 => Authorized(r) /\ Stored(r, "started")
                     /\ Stored(r, "completed") \/ pc[r] = "ok" => Accepted(r)
                     /\ pc[r] = "ok" => audit[r] = <<"started", "completed">>
                     /\ pc[r] = "failed" /\ failures = 0
                            => audit[r] = <<"started", "failed">> /\ r \notin verified
    BY DEF AuditTellsEffects, Accepted
  <2> DEFINE Told == /\ effects[r] > 0 => Authorized(r) /\ Stored(r, "started")
                     /\ Stored(r, "completed") => Accepted(r)
  <2>1. RunTypes /\ InStep(r) /\ pc[r] \in RunPlaces /\ effects[r] \in Nat
    BY AgentAssumption DEF RunInv, RunTypes
  <2>2. ASSUME audit[r] = <<>>
        PROVE  Told
    <3>1. effects[r] = 0 /\ ~Stored(r, "completed")
      BY <2>1, <2>2 DEF InStep, RunPlaces, Stored
    <3> QED
      BY <3>1
  <2>3. ASSUME audit[r] \in {<<"started">>, <<"started", "failed">>}
        PROVE  Told
    <3>1. Stored(r, "started") /\ ~Stored(r, "completed")
      BY <2>3 DEF Stored
    <3>2. effects[r] > 0 => Authorized(r)
      BY <2>1 DEF InStep
    <3> QED
      BY <3>1, <3>2
  <2>4. ASSUME audit[r] \in {<<"started", "completed">>, <<"started", "completed", "failed">>}
        PROVE  Told
    <3>1. Stored(r, "started")
      BY <2>4 DEF Stored
    <3>2. pc[r] \in {"ok", "caught", "failed"} /\ Accepted(r)
      BY <2>1, <2>4 DEF InStep, RunPlaces
    <3>3. effects[r] > 0 => Authorized(r)
      BY <2>1 DEF InStep
    <3> QED
      BY <3>1, <3>2, <3>3
  <2>5. \/ audit[r] \in {<<>>, <<"started">>, <<"started", "failed">>}
        \/ audit[r] \in {<<"started", "completed">>, <<"started", "completed", "failed">>}
    BY <2>1 DEF InStep, RunPlaces
  <2>6. Told
    BY <2>2, <2>3, <2>4, <2>5
  <2> QED
    BY <2>1, <2>6 DEF InStep, Accepted
<1> QED
  BY <1>1, InitRunInv, NextRunInv, PTL DEF ControlsSpec

-----------------------------------------------------------------------------
(* AI employees: the approval gates *)

Records ==
    [status : {"absent", "pending", "approved", "rejected"}, requester : People \cup {Nobody},
     approver : People \cup {Nobody}]

GateTypes ==
    /\ gate \in [Gates -> Records] /\ asked \in [Gates -> SUBSET People]
    /\ decided \in [Gates -> Nat] /\ gateCalls \in 0..MaxCalls

\* Whoever asked last is among those who asked, and decides nothing; the gate of
\* modules/governance was asked and decides once.
InForce(g) ==
    /\ IsFiniteSet(asked[g])
    /\ gate[g].status # "absent" => gate[g].requester \in asked[g]
    /\ gate[g].status \in {"approved", "rejected"} => gate[g].approver # gate[g].requester
    /\ g = "governance" =>
        /\ asked[g] = IF gate[g].status = "absent" THEN {} ELSE {gate[g].requester}
        /\ decided[g] = IF gate[g].status \in {"absent", "pending"} THEN 0 ELSE 1

GateInv == GateTypes /\ \A g \in Gates : InForce(g)

\* Nothing has been asked for at first.
LEMMA InitGateInv == ControlsInit => GateInv
<1> SUFFICES ASSUME ControlsInit PROVE GateInv
  OBVIOUS
<1>1. \A g \in Gates : gate[g] = Absent /\ asked[g] = {} /\ decided[g] = 0
  BY DEF ControlsInit
<1>2. \A g \in Gates : InForce(g)
  BY <1>1, FS_EmptySet DEF InForce, Absent
<1> QED
  BY <1>2, InitControlTypes DEF GateInv, GateTypes, Records, ControlsTypeOK

\* The gates do not touch each other.
LEMMA OthersInForce ==
    ASSUME NEW h \in Gates, InForce(h), UNCHANGED <<gate[h], asked[h], decided[h]>>
    PROVE  InForce(h)'
  BY DEF InForce

\* A request names who asked; a decision is taken by another.
LEMMA NextGateInv == GateInv /\ [ControlsNext]_controlVars => GateInv'
<1> SUFFICES ASSUME GateInv, [ControlsNext]_controlVars PROVE GateInv'
  OBVIOUS
<1>0. GateTypes /\ \A g \in Gates : InForce(g)
  BY DEF GateInv
<1>1. ASSUME NEW g \in Gates, NEW p \in People, Request(g, p) PROVE GateInv'
  <2> DEFINE r == [status |-> "pending", requester |-> p, approver |-> Nobody]
  <2>1. /\ r \in Records /\ r.status = "pending" /\ r.requester = p
        /\ gateCalls' \in 0..MaxCalls /\ decided' = decided
        /\ gate' = [gate EXCEPT ![g] = r] /\ asked' = [asked EXCEPT ![g] = @ \cup {p}]
        /\ g = "governance" => gate[g].status = "absent"
    BY <1>0, <1>1, AgentAssumption DEF Request, Call, GateTypes, Records
  <2> HIDE DEF r
  <2>2. /\ gate' \in [Gates -> Records] /\ asked' \in [Gates -> SUBSET People]
        /\ gate'[g] = r /\ asked'[g] = asked[g] \cup {p} /\ decided'[g] = decided[g]
        /\ \A h \in Gates \ {g} : UNCHANGED <<gate[h], asked[h], decided[h]>>
    BY <1>0, <2>1 DEF GateTypes
  <2>3. IsFiniteSet(asked'[g])
    <3>1. IsFiniteSet(asked[g])
      BY <1>0 DEF InForce
    <3>2. IsFiniteSet(asked[g] \cup {p})
      BY <3>1, FS_AddElement, Zenon
    <3> QED
      BY <2>2, <3>2
  <2>4. InForce(g)'
    <3>1. p \in asked'[g] /\ InForce(g)
      BY <1>0, <2>2
    <3>2. g = "governance" => asked'[g] = {p} /\ decided'[g] = 0
      BY <2>1, <2>2, <3>1 DEF InForce
    <3> QED
      BY <2>1, <2>2, <2>3, <3>1, <3>2 DEF InForce
  <2>5. GateTypes' /\ \A h \in Gates \ {g} : InForce(h)'
    BY <1>0, <2>1, <2>2, OthersInForce DEF GateTypes
  <2> QED
    BY <2>4, <2>5 DEF GateInv
<1>2. ASSUME NEW g \in Gates, NEW p \in People, Decide(g, p) PROVE GateInv'
  <2>1. PICK status \in {"approved", "rejected"} :
          gate' = [gate EXCEPT ![g].status = status, ![g].approver = p]
    BY <1>2 DEF Decide
  <2>2. /\ gate'[g] \in Records /\ gate'[g].status = status /\ gate'[g].approver = p
        /\ gate'[g].requester = gate[g].requester
        /\ gate' \in [Gates -> Records] /\ \A h \in Gates \ {g} : gate'[h] = gate[h]
    BY <1>0, <2>1 DEF GateTypes, Records
  <2>3. /\ gate[g].status # "absent" /\ gate[g].requester # p
        /\ g = "governance" => gate[g].status = "pending"
        /\ decided' = [decided EXCEPT ![g] = @ + 1] /\ asked' = asked
        /\ gateCalls' \in 0..MaxCalls
    BY <1>0, <1>2, AgentAssumption DEF Decide, Decidable, Call, GateTypes
  <2>4. /\ decided' \in [Gates -> Nat] /\ decided'[g] = decided[g] + 1
        /\ \A h \in Gates \ {g} : decided'[h] = decided[h]
    BY <1>0, <2>3 DEF GateTypes
  <2>5. InForce(g)'
    BY <1>0, <2>2, <2>3, <2>4 DEF InForce
  <2>6. GateTypes' /\ \A h \in Gates \ {g} : InForce(h)'
    BY <1>0, <2>2, <2>3, <2>4, OthersInForce DEF GateTypes
  <2> QED
    BY <2>5, <2>6 DEF GateInv
<1>3. CASE UNCHANGED gateVars
  BY <1>0, <1>3, OthersInForce DEF gateVars, GateInv, GateTypes
<1> QED
  BY <1>1, <1>2, <1>3 DEF ControlsNext, Authorize, AuditStarted, AuditCompleted, AuditFailed, Plan, Step,
     Verify, controlVars

\* Every variable has its type.
THEOREM ControlsTypeCorrect == ControlsSpec => []ControlsTypeOK
<1>1. RunInv /\ GateInv => ControlsTypeOK
  BY DEF RunInv, GateInv, RunTypes, GateTypes, Records, RunPlaces, TrailTypes, ControlsTypeOK
<1> QED
  BY <1>1, InitRunInv, NextRunInv, InitGateInv, NextGateInv, PTL DEF ControlsSpec

\* No one's request stands as decided by himself, and the gate of modules/governance decides once.
THEOREM AnotherDecides == ControlsSpec => []DecidedByAnother
<1>1. GateInv => DecidedByAnother
  <2> SUFFICES ASSUME GateInv, NEW g \in Gates, gate[g].status \in {"approved", "rejected"}
               PROVE /\ gate[g].approver \notin asked[g] \/ (g = "ai" /\ Cardinality(asked[g]) > 1)
                     /\ gate[g].approver # gate[g].requester
                     /\ g = "governance" => decided[g] = 1
    BY DEF DecidedByAnother
  <2>1. /\ IsFiniteSet(asked[g]) /\ gate[g].requester \in asked[g]
        /\ gate[g].approver # gate[g].requester
        /\ g = "governance" => asked[g] = {gate[g].requester} /\ decided[g] = 1
    BY DEF GateInv, InForce
  <2>2. ASSUME gate[g].approver \in asked[g] PROVE g = "ai" /\ Cardinality(asked[g]) > 1
    <3> DEFINE S == asked[g]  two == {gate[g].approver, gate[g].requester}
    <3>1. /\ IsFiniteSet(two) /\ Cardinality(two) = 2
      <4>1. IsFiniteSet({gate[g].requester}) /\ Cardinality({gate[g].requester}) = 1
        BY FS_Singleton, Zenon
      <4>2. /\ gate[g].approver \notin {gate[g].requester}
            /\ two = {gate[g].requester} \cup {gate[g].approver}
        BY <2>1
      <4> DEFINE one == {gate[g].requester}  x == gate[g].approver
      <4> HIDE DEF one, x
      <4>3. /\ IsFiniteSet(one \cup {x})
            /\ Cardinality(one \cup {x}) = IF x \in one THEN Cardinality(one) ELSE Cardinality(one) + 1
        BY <4>1, FS_AddElement, Zenon DEF one
      <4> QED
        BY <4>1, <4>2, <4>3 DEF one, x
    <3>2. Cardinality(two) <= Cardinality(S) /\ Cardinality(S) \in Nat
      <4>1. two \subseteq S
        BY <2>1, <2>2
      <4> QED
        BY <2>1, <4>1, FS_Subset, FS_CardinalityType
    <3>3. g = "ai"
      BY <2>1, <2>2 DEF Gates
    <3> QED
      BY <3>1, <3>2, <3>3
  <2> QED
    BY <2>1, <2>2
<1> QED
  BY <1>1, InitGateInv, NextGateInv, PTL DEF ControlsSpec

=============================================================================
