--------------------------- MODULE MCEventIngest ---------------------------
(* Small instances of EventIngest for TLC. *)
EXTENDS EventIngest, TLC

CONSTANTS a, b, f, g, x, mine, yours

\* Two deliveries of one event to a workspace with two workflows.
OneId  == (a :> x) @@ (b :> x)
OneWorkspace  == (a :> mine) @@ (b :> mine)
AllMine == (f :> mine) @@ (g :> mine)

=============================================================================
