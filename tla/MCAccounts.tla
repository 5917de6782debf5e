----------------------------- MODULE MCAccounts -----------------------------
(* Small instances of Accounts for TLC. *)
EXTENDS Accounts

CONSTANTS p1, p2, p3

Pair(o, q, n) == [ops |-> (p1 :> o) @@ (p2 :> q), faults |-> n]
Three(o, q, r, n) == [ops |-> (p1 :> o) @@ (p2 :> q) @@ (p3 :> r), faults |-> n]

Requests ==
    {Pair("reset", "accept", 2), Pair("accept", "accept", 2), Pair("reset", "reset", 1),
     Pair("accept", "onboard", 1), Pair("onboard", "onboard", 1), Pair("reset", "signin", 2),
     Pair("reset", "verify", 2),
     Three("request", "reset", "request", 1), Three("reset", "login", "logout", 1),
     Three("google", "google", "logout", 1), Three("google", "onboard", "signin", 1),
     Three("reset", "reset", "logout", 0)}

=============================================================================
