--------------------------- MODULE MCAgentControls ---------------------------
(* Small instances of AgentControls for TLC. *)
EXTENDS AgentControls

CONSTANTS a, b, c

\* The first rule that matches b denies it, and no rule matches c.
Policy == <<[when |-> {b}, allow |-> FALSE], [when |-> {a, b}, allow |-> TRUE]>>

=============================================================================
