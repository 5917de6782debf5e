------------------------- MODULE MCLegacyAutomation -------------------------
(* Small instances of LegacyAutomation for TLC. *)
EXTENDS LegacyAutomation, TLC

CONSTANTS r1, r2, r3, r4, k1, k2, f1, f2, f3

Ask(op, key, flow) == [op |-> op, key |-> key, flow |-> flow]

\* One event or run asked for twice or thrice while its workflows are created, changed or deleted.
Behaviours ==
    {(r1 :> Ask("deliver", k1, f1)) @@ (r2 :> Ask("deliver", k1, f1)) @@ (r3 :> Ask(op, k1, f1))
        @@ (r4 :> Ask("delete", k2, f1)) : op \in {"deliver", "create", "patch"}}
    \cup
    {(r1 :> Ask("run", k1, f1)) @@ (r2 :> Ask(again, k1, f1)) @@ (r3 :> Ask(op, k2, f1))
        @@ (r4 :> Ask("patch", k2, f1)) : again \in {"run", "inline"}, op \in {"deliver", "run", "delete", "patch"}}

Fits == (k1 :> {f1, f2}) @@ (k2 :> {f2, f3})
Steps == (f1 :> <<"known", "known">>) @@ (f2 :> <<>>) @@ (f3 :> <<"known", "unknown">>)

=============================================================================
