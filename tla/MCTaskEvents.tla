---------------------------- MODULE MCTaskEvents ----------------------------
(* Small instances of TaskEvents for TLC. *)
EXTENDS TaskEvents, TLC

CONSTANTS c1, c2, c3, c4, i1, i2

Calls == {p \in [Callers -> {"start", "complete", "publish", "replay"}] :
            /\ p[c1] = "complete" /\ p[c2] \in {"complete", "start"}
            /\ p[c3] \in {"publish", "start", "replay"} /\ p[c4] \in {"publish", "complete"}}
Given == (c1 :> i1) @@ (c2 :> i1) @@ (c3 :> i1) @@ (c4 :> i1)

=============================================================================
