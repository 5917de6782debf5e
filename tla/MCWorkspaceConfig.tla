-------------------------- MODULE MCWorkspaceConfig --------------------------
(* Small instances of WorkspaceConfig for TLC. *)
EXTENDS WorkspaceConfig

CONSTANTS r1, r2, r3, r4

\* Four requests of one workflow, the first of which creates it, or of one provider.
Behaviours ==
    {p \in [Requests -> FlowOps] : /\ p[r1] = "create" /\ \A r \in {r2, r3} : p[r] = "save"
                                   /\ p[r4] # "create"}
    \cup {p \in [Requests -> LinkOps] : p[r1] = "connect" /\ p[r2] \in {"connect", "test", "disconnect"}}

=============================================================================
